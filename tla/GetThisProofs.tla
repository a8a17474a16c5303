----------------------------- MODULE GetThisProofs -----------------------------
(***************************************************************************)
(* Proofs about GetThis, for any members, households, calls, refreshes and *)
(* failures: who is on the title's grant, when an interest is ready, and   *)
(* that a request Seerr made too late is never granted as a private grant. *)
(***************************************************************************)
EXTENDS GetThis, SequenceTheorems, TLAPS

-----------------------------------------------------------------------------
(* The types of everything, work under way included *)

\* A record as the store, a call and a refresh have it.
Entry == {rec \in Record : rec.home \in Homes[rec.user] /\ rec.req \in Made \cup {NoRequest}}

\* An intent, in the store or as a refresh listed it.
Wish == {i \in Intent : i.call \in 1..MaxCalls /\ i.home \in Homes[i.user] /\ i.old \subseteq Made}

SeerrTyped ==
  /\ seerr \in Seq(SeerrRequest)
  /\ lapsed \in 0..Len(seerr)
  /\ flying \subseteq [call : 1..MaxCalls, user : Member]
  /\ unsaved \subseteq 1..MaxCalls
  /\ here \in BOOLEAN
  /\ spent \in [calls : 0..MaxCalls, direct : Nat, declined : Nat, replaced : Nat, crashes : Nat]

MemTyped ==
  /\ mem \in State
  /\ mem.records \subseteq Entry
  /\ mem.intents \subseteq Wish
  /\ mem.deferred \subseteq Made /\ mem.handled \subseteq Made /\ mem.granted \subseteq mem.handled

CallStages == {"idle", "look", "decide", "join", "save", "recheck", "sent", "settle", "conflict", "write", "retry"}

CallTyped ==
  /\ call \in [pc : CallStages, call : 0..MaxCalls, user : Member \cup {NoMember}, home : Household \cup {NoMember},
               epoch : Nat, req : Made \cup {NoRequest}, out : Outcome]
  /\ call.out.add \subseteq Entry
  /\ call.pc \notin {"idle", "retry"} => call.call \in 1..MaxCalls /\ call.user \in Member /\ call.home \in Homes[call.user]

Job == [job : {"none", "hook", "retry", "backfill"}, pc : {"idle", "next", "read", "act", "settle"}, todo : SUBSET Made,
        req : Made \cup {NoRequest}, rule : {"none", "grant", "join"}, ready : SUBSET (Made \X {"grant", "join"}),
        done : SUBSET Made, hadIntents : BOOLEAN, wide : SUBSET Tombstone]

QueueTyped == queue \in Job /\ (queue.pc \in {"read", "act", "settle"} => queue.req \in Made)

RefreshTyped ==
  /\ refresh \in [Refresher -> [pc : {"idle", "intents", "settle", "records"}, intents : SUBSET Wish,
                                records : SUBSET Entry, intent : Wish \cup {NoIntent}, made : Nat]]
  /\ \A f \in Refresher : refresh[f].pc = "settle" =>
       /\ refresh[f].intent \in Wish
       /\ refresh[f].intent.status = "submitting" => refresh[f].made \in Made

SlipsTyped == outpaced \cup adopted \cup reworked \subseteq Nat

TypeInv == SeerrTyped /\ MemTyped /\ CallTyped /\ QueueTyped /\ RefreshTyped /\ SlipsTyped

-----------------------------------------------------------------------------
(* Who asked, and what is ready *)

\* Who waits in the store asked, as the household they are now.
MemAsked ==
  /\ \A rec \in mem.records : ~rec.detached => <<rec.home, mem.epoch[rec.home]>> \in asked
  /\ \A i \in mem.intents : <<i.home, i.epoch>> \in asked
  /\ \A h \in mem.groups : <<h, mem.epoch[h]>> \in asked \/ \E r \in mem.granted : h \in Homes[seerr[r].by]
  /\ InterestReadyIsHeld

\* A call writes for its own household, and completes nobody but who joined.
CallAsked ==
  /\ call.pc \notin {"idle", "retry"} => <<call.home, call.epoch>> \in asked
  /\ \A rec \in call.out.add : rec.home = call.home /\ (rec.status = "pending" \/ rec.branch = "join")

RefreshAsked ==
  \A f \in Refresher :
    /\ \A i \in refresh[f].intents : <<i.home, i.epoch>> \in asked
    /\ refresh[f].pc = "settle" => <<refresh[f].intent.home, refresh[f].intent.epoch>> \in asked
    /\ \A rec \in refresh[f].records : rec.status = "pending"

AskInv == TypeInv /\ MemAsked /\ CallAsked /\ RefreshAsked

-----------------------------------------------------------------------------
(* What the operators on the store leave *)

\* What writing an outcome does to each part of the store.
LEMMA WrittenFields ==
  ASSUME NEW m \in State, NEW epoch, NEW out
  PROVE  /\ Written(m, epoch, out).records = m.records \cup {Attributed(m, epoch, rec) : rec \in out.add}
         /\ Written(m, epoch, out).tombs = {Exempted(t, out.exempt) : t \in m.tombs \cup out.tombs}
         /\ Written(m, epoch, out).intents = {Settling(i, out.settle) : i \in {j \in m.intents : j.call \notin out.remove}}
         /\ Written(m, epoch, out).deferred = m.deferred
         /\ Written(m, epoch, out).handled = m.handled
         /\ Written(m, epoch, out).granted = m.granted
         /\ Written(m, epoch, out).groups = m.groups
         /\ Written(m, epoch, out).epoch = m.epoch
  BY DEF Written, State

\* A record attributed to its household as it is now is a record of the same request.
LEMMA AttributedFields ==
  ASSUME NEW m \in State, NEW epoch \in Nat, NEW rec \in Record
  PROVE  /\ Attributed(m, epoch, rec) \in Record
         /\ Attributed(m, epoch, rec).home = rec.home /\ Attributed(m, epoch, rec).user = rec.user
         /\ Attributed(m, epoch, rec).branch = rec.branch /\ Attributed(m, epoch, rec).status = rec.status
         /\ Attributed(m, epoch, rec).req = rec.req /\ Attributed(m, epoch, rec).rule = rec.rule
         /\ ~Attributed(m, epoch, rec).detached => m.epoch[rec.home] = epoch
  <1>1. (m.epoch[rec.home] # epoch) \in BOOLEAN
    OBVIOUS
  <1> QED BY <1>1 DEF Attributed, Record

\* An intent being settled is the same intent, with its request where the outcome settles it.
LEMMA SettlingFields ==
  ASSUME NEW i \in Intent, NEW settle \in SUBSET (Nat \X Nat)
  PROVE  /\ Settling(i, settle) \in Intent
         /\ Settling(i, settle).call = i.call /\ Settling(i, settle).user = i.user
         /\ Settling(i, settle).home = i.home /\ Settling(i, settle).epoch = i.epoch
         /\ Settling(i, settle).old = i.old
         /\ (\A s \in settle : s[1] # i.call) => Settling(i, settle) = i
         /\ (\E s \in settle : s[1] = i.call) =>
              /\ Settling(i, settle).status = "settling"
              /\ \E s \in settle : s[1] = i.call /\ Settling(i, settle).req = s[2]
  <1>1. CASE \A s \in settle : s[1] # i.call
    BY <1>1 DEF Settling
  <1>2. CASE \E s \in settle : s[1] = i.call
    <2> DEFINE s == CHOOSE s \in settle : s[1] = i.call
    <2>1. s \in settle /\ s[1] = i.call
      BY <1>2
    <2>2. Settling(i, settle) = [i EXCEPT !.status = "settling", !.req = s[2]]
      BY <1>2 DEF Settling
    <2>3. s[2] \in Nat
      BY <2>1
    <2> HIDE DEF s
    <2> QED BY <1>2, <2>1, <2>2, <2>3 DEF Intent
  <1> QED BY <1>1, <1>2

\* A tombstone with more requests exempted is the same tombstone.
LEMMA ExemptedFields ==
  ASSUME NEW t \in Tombstone, NEW exempt \in SUBSET (Member \X Nat)
  PROVE  /\ Exempted(t, exempt) \in Tombstone
         /\ Exempted(t, exempt).reqs = t.reqs /\ Exempted(t, exempt).user = t.user /\ Exempted(t, exempt).old = t.old
         /\ t.exempt \subseteq Exempted(t, exempt).exempt
         /\ \A r \in Exempted(t, exempt).exempt : r \in t.exempt \/ \E e \in exempt : e[2] = r
  BY DEF Exempted, Tombstone

\* Households that join change the grant's households only, and only where a grant is.
LEMMA JoinedFields ==
  ASSUME NEW m \in State, NEW homes \in SUBSET Household
  PROVE  /\ Joined(m, homes) \in State
         /\ Joined(m, homes).groups = IF m.granted = {} THEN m.groups ELSE m.groups \cup homes
         /\ Joined(m, homes).records = m.records /\ Joined(m, homes).intents = m.intents
         /\ Joined(m, homes).tombs = m.tombs /\ Joined(m, homes).deferred = m.deferred
         /\ Joined(m, homes).handled = m.handled /\ Joined(m, homes).granted = m.granted
         /\ Joined(m, homes).epoch = m.epoch
  BY DEF Joined, State

\* A household created again leaves the grant and its old records; intents, tombstones and requests
\* stay.
LEMMA ReplacedFields ==
  ASSUME NEW m \in State, NEW h \in Household
  PROVE  /\ Replaced(m, h).epoch = [m.epoch EXCEPT ![h] = @ + 1]
         /\ Replaced(m, h).groups = m.groups \ {h}
         /\ Replaced(m, h).records = {IF rec.home = h THEN [rec EXCEPT !.detached = TRUE] ELSE rec : rec \in m.records}
         /\ Replaced(m, h).intents = m.intents /\ Replaced(m, h).tombs = m.tombs
         /\ Replaced(m, h).deferred = m.deferred /\ Replaced(m, h).handled = m.handled
         /\ Replaced(m, h).granted = m.granted
         /\ Replaced(m, h) \in State
  <1>1. \A rec \in Record : [rec EXCEPT !.detached = TRUE] \in Record
    BY DEF Record
  <1>2. {IF rec.home = h THEN [rec EXCEPT !.detached = TRUE] ELSE rec : rec \in m.records} \subseteq Record
    BY <1>1 DEF State
  <1>3. [m.epoch EXCEPT ![h] = @ + 1] \in [Household -> Nat]
    BY DEF State
  <1> QED BY <1>2, <1>3 DEF Replaced, State

\* How a record is completed, or found to wait for its grant, by the settling of a request.
LEMMA AfterJoinFields ==
  ASSUME NEW m, NEW rec \in Record
  PROVE  /\ AfterJoin(m, rec) \in Record
         /\ AfterJoin(m, rec).home = rec.home /\ AfterJoin(m, rec).user = rec.user
         /\ AfterJoin(m, rec).branch = rec.branch /\ AfterJoin(m, rec).req = rec.req
         /\ AfterJoin(m, rec).rule = rec.rule /\ AfterJoin(m, rec).detached = rec.detached
         /\ m.granted = {} => AfterJoin(m, rec).status = rec.status
  BY DEF AfterJoin, Record

\* A record with another status is the same record.
LEMMA StatusFields ==
  ASSUME NEW rec \in Record, NEW s \in {"pending", "completed", "declined"}
  PROVE  LET new == [rec EXCEPT !.status = s]
         IN  /\ new \in Record /\ new.home = rec.home /\ new.user = rec.user /\ new.branch = rec.branch
             /\ new.req = rec.req /\ new.rule = rec.rule /\ new.detached = rec.detached /\ new.status = s
  BY DEF Record

\* Settling the records of a granted request lets followers join, and changes no intent or tombstone.
LEMMA RecordsSettledFields ==
  ASSUME NEW m \in State, NEW r
  PROVE  /\ RecordsSettled(m, r) \in State
         /\ RecordsSettled(m, r).intents = m.intents /\ RecordsSettled(m, r).tombs = m.tombs
         /\ RecordsSettled(m, r).deferred = m.deferred /\ RecordsSettled(m, r).handled = m.handled
         /\ RecordsSettled(m, r).granted = m.granted /\ RecordsSettled(m, r).epoch = m.epoch
         /\ \A h \in RecordsSettled(m, r).groups :
              h \in m.groups \/ \E rec \in m.records : rec.home = h /\ ~rec.detached
         /\ m.groups \subseteq RecordsSettled(m, r).groups
         /\ \A new \in RecordsSettled(m, r).records : \E rec \in m.records :
              /\ new.home = rec.home /\ new.user = rec.user /\ new.branch = rec.branch
              /\ new.req = rec.req /\ new.rule = rec.rule /\ new.detached = rec.detached
              /\ new.status = "completed" /\ new.branch = "interest" =>
                   new.home \in RecordsSettled(m, r).groups \/ rec.status = "completed"
         /\ \A rec \in m.records : \E new \in RecordsSettled(m, r).records :
              new.branch = rec.branch /\ new.req = rec.req /\ new.rule = rec.rule
  <1> DEFINE following == {rec \in m.records : Follows(rec, r)}
             ready == {rec \in following : MadeByItsRequest(rec)}
             joining == following \ ready
             updated == {[rec EXCEPT !.status = "completed"] : rec \in ready} \cup {AfterJoin(m, rec) : rec \in joining}
             homes == {rec.home : rec \in joining}
             joined == Joined(m, homes)
             records == (m.records \ following) \cup updated
  <1>1. m.records \subseteq Record
    BY DEF State
  <1>2. homes \subseteq Household
    BY <1>1 DEF Record
  <1>3. /\ joined \in State
        /\ joined.groups = IF m.granted = {} THEN m.groups ELSE m.groups \cup homes
        /\ joined.records = m.records /\ joined.intents = m.intents /\ joined.tombs = m.tombs
        /\ joined.deferred = m.deferred /\ joined.handled = m.handled /\ joined.granted = m.granted
        /\ joined.epoch = m.epoch
    <2> HIDE DEF homes
    <2> QED BY <1>2, JoinedFields
  <1>4. RecordsSettled(m, r) = [joined EXCEPT !.records = records]
    <2>1. RecordsSettled(m, r) = [joined EXCEPT !.records = (@ \ following) \cup updated]
      BY DEF RecordsSettled
    <2> HIDE DEF joined, following, updated
    <2> QED BY <2>1, <1>3 DEF State
  <1>5. \A rec \in ready : LET new == [rec EXCEPT !.status = "completed"]
          IN  /\ new \in Record /\ new.home = rec.home /\ new.user = rec.user /\ new.branch = rec.branch
              /\ new.req = rec.req /\ new.rule = rec.rule /\ new.detached = rec.detached /\ new.status = "completed"
    BY <1>1, StatusFields
  <1>6. \A rec \in joining : LET new == AfterJoin(m, rec)
          IN  /\ new \in Record /\ new.home = rec.home /\ new.user = rec.user /\ new.branch = rec.branch
              /\ new.req = rec.req /\ new.rule = rec.rule /\ new.detached = rec.detached
              /\ m.granted = {} => new.status = rec.status
    BY <1>1, AfterJoinFields
  <1>7. \A rec \in ready : rec.branch = "request"
    BY DEF MadeByItsRequest
  <1>8. \A rec \in joining : ~rec.detached /\ rec.home \in homes
    BY DEF Follows
  <1>9. records \subseteq Record
    BY <1>1, <1>5, <1>6
  <1>10. ready \subseteq m.records /\ joining \subseteq m.records /\ following = ready \cup joining
    OBVIOUS
  <1>11. \A h \in homes : \E rec \in m.records : rec.home = h /\ ~rec.detached
    BY <1>8, <1>10
  <1>12. \A new \in records : \/ new \in m.records
                              \/ \E rec \in ready : new = [rec EXCEPT !.status = "completed"]
                              \/ \E rec \in joining : new = AfterJoin(m, rec)
    OBVIOUS
  <1>13. \A rec \in m.records : \/ rec \in records
                                \/ rec \in ready /\ [rec EXCEPT !.status = "completed"] \in records
                                \/ rec \in joining /\ AfterJoin(m, rec) \in records
    OBVIOUS
  <1> HIDE DEF following, ready, joining, updated, homes, joined, records
  <1>14. /\ RecordsSettled(m, r) \in State
         /\ RecordsSettled(m, r).records = records
         /\ RecordsSettled(m, r).groups = joined.groups
         /\ RecordsSettled(m, r).intents = m.intents /\ RecordsSettled(m, r).tombs = m.tombs
         /\ RecordsSettled(m, r).deferred = m.deferred /\ RecordsSettled(m, r).handled = m.handled
         /\ RecordsSettled(m, r).granted = m.granted /\ RecordsSettled(m, r).epoch = m.epoch
    BY <1>3, <1>4, <1>9 DEF State
  <1>15. \A new \in RecordsSettled(m, r).records : \E rec \in m.records :
              /\ new.home = rec.home /\ new.user = rec.user /\ new.branch = rec.branch
              /\ new.req = rec.req /\ new.rule = rec.rule /\ new.detached = rec.detached
              /\ new.status = "completed" /\ new.branch = "interest" =>
                   new.home \in RecordsSettled(m, r).groups \/ rec.status = "completed"
    <2> SUFFICES ASSUME NEW new \in records
                 PROVE  \E rec \in m.records :
                          /\ new.home = rec.home /\ new.user = rec.user /\ new.branch = rec.branch
                          /\ new.req = rec.req /\ new.rule = rec.rule /\ new.detached = rec.detached
                          /\ new.status = "completed" /\ new.branch = "interest" =>
                               new.home \in joined.groups \/ rec.status = "completed"
      BY <1>14
    <2>1. CASE new \in m.records
      BY <2>1
    <2>2. CASE \E rec \in ready : new = [rec EXCEPT !.status = "completed"]
      BY <2>2, <1>5, <1>7, <1>10
    <2>3. CASE \E rec \in joining : new = AfterJoin(m, rec)
      BY <2>3, <1>3, <1>6, <1>8, <1>10
    <2> QED BY <2>1, <2>2, <2>3, <1>12
  <1>16. \A rec \in m.records : \E new \in records :
              new.branch = rec.branch /\ new.req = rec.req /\ new.rule = rec.rule
    BY <1>5, <1>6, <1>13
  <1> QED BY <1>3, <1>11, <1>14, <1>15, <1>16

-----------------------------------------------------------------------------
(* Which steps change what *)

\* What changes the store in memory.
LEMMA MemActions ==
  ASSUME [Next]_vars
  PROVE  \/ UNCHANGED mem
         \/ DecideRequest \/ Join \/ WriteOutcome \/ Crash
         \/ \E h \in Household : Replace(h)
         \/ \E r \in queue.todo : Rule(r)
         \/ RequestRead \/ Act \/ SettleRecords \/ JobDone
         \/ \E f \in Refresher : \/ \E i \in refresh[f].intents : RefreshIntent(f, i)
                                 \/ RefreshSettle(f)
                                 \/ \E rec \in refresh[f].records : RefreshRecord(f, rec)
  <1>1. CASE CallStep
    BY <1>1 DEF CallStep, CallFails, NothingToDo, Look, DecideJoin, DecideFollow, IntentSaved, IntentNotSaved, RecheckFails,
                RecheckJoin, Send, NoAnswer, Settle, FallBack, RetryAfterCall
  <1>2. CASE GrantStep
    BY <1>2 DEF GrantStep, TakeReady
  <1>3. CASE Outside
    BY <1>3 DEF Outside, Direct, Submit, SeerrMakes, SeerrRefuses, Decline, Available, Hook, Arrive, Recovers
  <1>4. CASE Save \/ Backfill \/ UNCHANGED vars
    BY <1>4 DEF Save, Backfill, vars
  <1>5. ASSUME NEW f \in Refresher, RefreshStep(f)
        PROVE  \/ UNCHANGED mem
               \/ \E i \in refresh[f].intents : RefreshIntent(f, i)
               \/ RefreshSettle(f)
               \/ \E rec \in refresh[f].records : RefreshRecord(f, rec)
    BY <1>5 DEF RefreshStep, RefreshStarts, IntentsRead, RefreshRetries
  <1>6. ASSUME NEW n \in DOMAIN age, Age(n) PROVE UNCHANGED mem
    BY <1>6 DEF Age
  <1> QED BY <1>1, <1>2, <1>3, <1>4, <1>5, <1>6 DEF Next

\* What changes the call in the title's turn.
LEMMA CallActions ==
  ASSUME [Next]_vars
  PROVE  \/ UNCHANGED call
         \/ CallStep \/ Crash
         \/ \E h \in Household : \E u \in Member : Submit(u, h)
         \/ \E f \in flying : SeerrMakes(f) \/ SeerrRefuses(f)
  <1>1. CASE GrantStep
    BY <1>1 DEF GrantStep, Rule, RequestRead, TakeReady, Act, SettleRecords, JobDone
  <1>2. CASE Outside
    BY <1>2 DEF Outside, Direct, Decline, Available, Hook, Arrive, Recovers, Replace
  <1>3. CASE Save \/ Backfill \/ UNCHANGED vars
    BY <1>3 DEF Save, Backfill, vars
  <1>4. ASSUME NEW f \in Refresher, RefreshStep(f) PROVE UNCHANGED call
    BY <1>4 DEF RefreshStep, RefreshStarts, RefreshIntent, RefreshSettle, IntentsRead, RefreshRecord, RefreshRetries
  <1>5. ASSUME NEW n \in DOMAIN age, Age(n) PROVE UNCHANGED call
    BY <1>5 DEF Age
  <1> QED BY <1>1, <1>2, <1>3, <1>4, <1>5 DEF Next

\* What changes the job of the write queue.
LEMMA QueueActions ==
  ASSUME [Next]_vars
  PROVE  \/ UNCHANGED queue
         \/ RetryAfterCall \/ GrantStep \/ Crash \/ Backfill
         \/ \E r \in Made : Hook(r)
         \/ \E f \in Refresher : RefreshRetries(f)
  <1>1. CASE CallStep
    BY <1>1 DEF CallStep, CallFails, NothingToDo, Look, DecideJoin, DecideFollow, DecideRequest, Join, IntentSaved,
                IntentNotSaved, RecheckFails, RecheckJoin, Send, NoAnswer, Settle, FallBack, WriteOutcome
  <1>2. CASE Outside
    BY <1>2 DEF Outside, Direct, Submit, SeerrMakes, SeerrRefuses, Decline, Available, Arrive, Recovers, Replace
  <1>3. CASE Save \/ UNCHANGED vars
    BY <1>3 DEF Save, vars
  <1>4. ASSUME NEW f \in Refresher, RefreshStep(f) PROVE UNCHANGED queue \/ RefreshRetries(f)
    BY <1>4 DEF RefreshStep, RefreshStarts, RefreshIntent, RefreshSettle, IntentsRead, RefreshRecord
  <1>5. ASSUME NEW n \in DOMAIN age, Age(n) PROVE UNCHANGED queue
    BY <1>5 DEF Age
  <1> QED BY <1>1, <1>2, <1>3, <1>4, <1>5 DEF Next

\* What changes a refresh.
LEMMA RefreshActions ==
  ASSUME [Next]_vars
  PROVE  UNCHANGED refresh \/ Crash \/ \E f \in Refresher : RefreshStep(f)
  <1>1. CASE CallStep
    BY <1>1 DEF CallStep, CallFails, NothingToDo, Look, DecideJoin, DecideFollow, DecideRequest, Join, IntentSaved,
                IntentNotSaved, RecheckFails, RecheckJoin, Send, NoAnswer, Settle, FallBack, WriteOutcome, RetryAfterCall
  <1>2. CASE GrantStep
    BY <1>2 DEF GrantStep, Rule, RequestRead, TakeReady, Act, SettleRecords, JobDone
  <1>3. CASE Outside
    BY <1>3 DEF Outside, Direct, Submit, SeerrMakes, SeerrRefuses, Decline, Available, Hook, Arrive, Recovers, Replace
  <1>4. CASE Save \/ Backfill \/ UNCHANGED vars
    BY <1>4 DEF Save, Backfill, vars
  <1>5. ASSUME NEW n \in DOMAIN age, Age(n) PROVE UNCHANGED refresh
    BY <1>5 DEF Age
  <1> QED BY <1>1, <1>2, <1>3, <1>4, <1>5 DEF Next

\* What changes Seerr, Jellyfin, deadlines and what is on its way.
LEMMA OutsideActions ==
  ASSUME [Next]_vars
  PROVE  \/ UNCHANGED <<here, seerr, lapsed, flying, unsaved, asked, spent>>
         \/ DecideRequest \/ Send \/ Save \/ Outside
  <1>1. CASE CallStep
    BY <1>1 DEF CallStep, CallFails, NothingToDo, Look, DecideJoin, DecideFollow, Join, IntentSaved,
                IntentNotSaved, RecheckFails, RecheckJoin, NoAnswer, Settle, FallBack, WriteOutcome, RetryAfterCall,
                world, bounds, history
  <1>2. CASE GrantStep
    BY <1>2 DEF GrantStep, Rule, RequestRead, TakeReady, Act, SettleRecords, JobDone, world, bounds, history
  <1>3. CASE Backfill \/ UNCHANGED vars
    BY <1>3 DEF Backfill, vars, world, bounds, history
  <1>4. ASSUME NEW f \in Refresher, RefreshStep(f) PROVE UNCHANGED <<here, seerr, lapsed, flying, unsaved, asked, spent>>
    BY <1>4 DEF RefreshStep, RefreshStarts, RefreshIntent, RefreshSettle, IntentsRead, RefreshRecord, RefreshRetries,
                Reworks, world, bounds, history
  <1>5. ASSUME NEW n \in DOMAIN age, Age(n) PROVE UNCHANGED <<here, seerr, lapsed, flying, unsaved, asked, spent>>
    BY <1>5 DEF Age, world, bounds, history
  <1> QED BY <1>1, <1>2, <1>3, <1>4, <1>5 DEF Next

\* What adds to the requests whose grant, record or intent went another way than by its turn.
LEMMA SlipsActions ==
  ASSUME [Next]_vars
  PROVE  UNCHANGED slips \/ FallBack \/ RequestRead \/ \E i : Reworks(i)
  <1>1. CASE CallStep
    BY <1>1 DEF CallStep, CallFails, NothingToDo, Look, DecideJoin, DecideFollow, DecideRequest, Join, IntentSaved,
                IntentNotSaved, RecheckFails, RecheckJoin, Send, NoAnswer, Settle, WriteOutcome, RetryAfterCall, history
  <1>2. CASE GrantStep
    BY <1>2 DEF GrantStep, Rule, TakeReady, Act, SettleRecords, JobDone, history
  <1>3. CASE Outside
    BY <1>3 DEF Outside, Direct, Submit, SeerrMakes, SeerrRefuses, Decline, Available, Hook, Arrive, Recovers, Replace,
                Crash, history
  <1>4. CASE Save \/ Backfill \/ UNCHANGED vars
    BY <1>4 DEF Save, Backfill, vars, history
  <1>5. ASSUME NEW f \in Refresher, RefreshStep(f) PROVE UNCHANGED slips \/ \E i : Reworks(i)
    BY <1>5 DEF RefreshStep, RefreshStarts, RefreshIntent, RefreshSettle, IntentsRead, RefreshRecord, RefreshRetries, history
  <1>6. ASSUME NEW n \in DOMAIN age, Age(n) PROVE UNCHANGED slips
    BY <1>6 DEF Age, history
  <1> QED BY <1>1, <1>2, <1>3, <1>4, <1>5, <1>6 DEF Next

\* None of them is forgotten, and each is a request.
LEMMA SlipsKept ==
  ASSUME SeerrTyped, MemTyped, QueueTyped, SlipsTyped, [Next]_vars
  PROVE  SlipsTyped' /\ outpaced \subseteq outpaced' /\ adopted \subseteq adopted' /\ reworked \subseteq reworked'
  <1>1. Made \subseteq Nat /\ Lost \subseteq Made /\ (queue.pc = "read" => queue.req \in Made)
        /\ \A i \in mem.intents : i.req \in Nat
    BY LenProperties DEF SeerrTyped, Made, Lost, QueueTyped, MemTyped, Wish, Intent
  <1>2. CASE UNCHANGED slips
    BY <1>2 DEF slips, SlipsTyped
  <1>3. CASE FallBack
    BY <1>1, <1>3 DEF FallBack, SlipsTyped
  <1>4. CASE RequestRead
    BY <1>1, <1>4 DEF RequestRead, SlipsTyped
  <1>5. ASSUME NEW i, Reworks(i)
        PROVE  SlipsTyped' /\ outpaced \subseteq outpaced' /\ adopted \subseteq adopted' /\ reworked \subseteq reworked'
    BY <1>1, <1>5 DEF Reworks, SlipsTyped
  <1> QED BY <1>2, <1>3, <1>4, <1>5, SlipsActions

-----------------------------------------------------------------------------
(* Seerr and what was asked only grow *)

Grows ==
  /\ Made \subseteq Made'
  /\ \A r \in Made : seerr'[r].by = seerr[r].by /\ seerr'[r].call = seerr[r].call /\ seerr'[r].late = seerr[r].late
  /\ asked \subseteq asked'

\* A request made, or one that changed its status.
LEMMA MakeFields ==
  ASSUME SeerrTyped, NEW u \in Member, NEW n \in 0..MaxCalls, Make(u, n)
  PROVE  /\ seerr' \in Seq(SeerrRequest) /\ Len(seerr') = Len(seerr) + 1
         /\ Made' = Made \cup {Len(seerr) + 1} /\ Len(seerr) + 1 \notin Made
         /\ \A r \in Made : seerr'[r] = seerr[r]
         /\ seerr'[Len(seerr) + 1] = [by |-> u, status |-> "active", call |-> n, late |-> here]
  <1> DEFINE new == [by |-> u, status |-> "active", call |-> n, late |-> here]
  <1>1. new \in SeerrRequest
    BY DEF SeerrTyped, SeerrRequest
  <1>2. seerr \in Seq(SeerrRequest) /\ seerr' = Append(seerr, new)
    BY DEF SeerrTyped, Make
  <1> HIDE DEF new
  <1>3. /\ Append(seerr, new) \in Seq(SeerrRequest)
        /\ Len(Append(seerr, new)) = Len(seerr) + 1
        /\ \A i \in 1..Len(seerr) : Append(seerr, new)[i] = seerr[i]
        /\ Append(seerr, new)[Len(seerr) + 1] = new
    BY <1>1, <1>2, AppendProperties
  <1>4. Made = 1..Len(seerr) /\ Len(seerr) \in Nat
    BY <1>2, LenProperties DEF Made
  <1>5. Made' = 1..Len(seerr')
    <2>1. DOMAIN Append(seerr, new) = 1..Len(Append(seerr, new))
      BY <1>3, LenProperties
    <2> QED BY <1>2, <2>1 DEF Made
  <1> QED BY <1>2, <1>3, <1>4, <1>5 DEF new

\* A request with another status is made by the same member, for the same call, at the same time.
LEMMA StatusKept ==
  ASSUME SeerrTyped, NEW r \in Made, NEW s \in {"declined", "completed"}, seerr' = [seerr EXCEPT ![r].status = s]
  PROVE  /\ seerr' \in Seq(SeerrRequest) /\ Len(seerr') = Len(seerr) /\ Made' = Made
         /\ \A q \in Made : seerr'[q].by = seerr[q].by /\ seerr'[q].call = seerr[q].call /\ seerr'[q].late = seerr[q].late
  <1>1. seerr \in Seq(SeerrRequest) /\ Made = 1..Len(seerr)
    BY LenProperties DEF SeerrTyped, Made
  <1>2. seerr[r] \in SeerrRequest
    BY <1>1, ElementOfSeq
  <1> DEFINE new == [seerr[r] EXCEPT !.status = s]
  <1>3. /\ new \in SeerrRequest
        /\ new.by = seerr[r].by /\ new.call = seerr[r].call /\ new.late = seerr[r].late
    BY <1>2 DEF SeerrRequest
  <1>4. seerr' = [seerr EXCEPT ![r] = new]
    OBVIOUS
  <1> HIDE DEF new
  <1>5. [seerr EXCEPT ![r] = new] \in Seq(SeerrRequest) /\ Len([seerr EXCEPT ![r] = new]) = Len(seerr)
    BY <1>1, <1>3, ExceptSeq
  <1>6. Made' = Made
    BY <1>4 DEF Made
  <1>7. \A q \in Made : seerr'[q] = IF q = r THEN new ELSE seerr[q]
    BY <1>4 DEF Made
  <1> QED BY <1>3, <1>4, <1>5, <1>6, <1>7

\* Every step keeps the types of Seerr, and its requests and who asked only grow.
LEMMA SeerrStep ==
  ASSUME SeerrTyped, CallTyped, [Next]_vars
  PROVE  SeerrTyped' /\ Grows
  <1> USE BoundsAssumption
  <1> DEFINE Spent == [calls : 0..MaxCalls, direct : Nat, declined : Nat, replaced : Nat, crashes : Nat]
  <1>0. spent \in Spent
    BY DEF SeerrTyped
  <1>1. seerr \in Seq(SeerrRequest) /\ Made = 1..Len(seerr) /\ Len(seerr) \in Nat
    BY LenProperties DEF SeerrTyped, Made
  <1>2. CASE UNCHANGED <<here, seerr, lapsed, flying, unsaved, asked, spent>>
    BY <1>2 DEF SeerrTyped, Grows, Made
  <1>3. CASE DecideRequest
    <2>1. call.call \in 1..MaxCalls
      BY <1>3 DEF CallTyped, DecideRequest
    <2>2. UNCHANGED <<here, seerr, flying, asked, spent>> /\ lapsed' \in lapsed..Len(seerr) /\ unsaved' = unsaved \cup {call.call}
      BY <1>3 DEF DecideRequest, bounds, history
    <2>3. lapsed \in 0..Len(seerr) /\ lapsed' \in 0..Len(seerr)
      BY <1>1, <2>2 DEF SeerrTyped
    <2> QED BY <2>1, <2>2, <2>3 DEF SeerrTyped, Grows, Made
  <1>4. CASE Send
    <2>1. UNCHANGED <<here, seerr, lapsed, unsaved, asked, spent>>
      BY <1>4 DEF Send, bounds, history
    <2>2. call.call \in 1..MaxCalls /\ call.user \in Member
      BY <1>4 DEF CallTyped, Send
    <2>3. flying' \subseteq flying \cup {[call |-> call.call, user |-> call.user]}
      BY <1>4 DEF Send
    <2> QED BY <2>1, <2>2, <2>3 DEF SeerrTyped, Grows, Made
  <1>5. CASE Save
    BY <1>5 DEF Save, world, bounds, SeerrTyped, Grows, Made, history
  <1>6. CASE Outside
    <2>1. ASSUME NEW u \in Member, Direct(u) PROVE SeerrTyped' /\ Grows
      <3>1. Make(u, 0) /\ UNCHANGED <<here, lapsed, flying, unsaved, asked>> /\ spent' = [spent EXCEPT !.direct = @ + 1]
        BY <2>1 DEF Direct, history
      <3>2. 0 \in 0..MaxCalls
        OBVIOUS
      <3>3. spent' \in Spent
        BY <1>0, <3>1
      <3>4. /\ seerr' \in Seq(SeerrRequest) /\ Len(seerr') = Len(seerr) + 1
            /\ Made \subseteq Made' /\ \A r \in Made : seerr'[r] = seerr[r]
        BY <3>1, <3>2, MakeFields
      <3>5. lapsed' \in 0..Len(seerr')
        BY <1>1, <3>1, <3>4 DEF SeerrTyped
      <3> QED BY <3>1, <3>3, <3>4, <3>5 DEF SeerrTyped, Grows
    <2>2. ASSUME NEW u \in Member, NEW h \in Household, Submit(u, h) PROVE SeerrTyped' /\ Grows
      <3>1. /\ UNCHANGED <<here, seerr, lapsed, flying, unsaved>> /\ asked \subseteq asked'
            /\ spent.calls < MaxCalls /\ spent' = [spent EXCEPT !.calls = @ + 1]
        BY <2>2 DEF Submit, world
      <3>2. spent' \in Spent
        BY <1>0, <3>1
      <3> QED BY <3>1, <3>2 DEF SeerrTyped, Grows, Made
    <2>3. ASSUME NEW f \in flying, SeerrMakes(f) PROVE SeerrTyped' /\ Grows
      <3>1. Make(f.user, f.call) /\ UNCHANGED <<here, lapsed, unsaved, asked, spent>> /\ flying' \subseteq flying
        BY <2>3 DEF SeerrMakes, bounds, history
      <3>2. f.user \in Member /\ f.call \in 0..MaxCalls
        BY DEF SeerrTyped
      <3>4. /\ seerr' \in Seq(SeerrRequest) /\ Len(seerr') = Len(seerr) + 1
            /\ Made \subseteq Made' /\ \A r \in Made : seerr'[r] = seerr[r]
        BY <3>1, <3>2, MakeFields
      <3>5. lapsed' \in 0..Len(seerr')
        BY <1>1, <3>1, <3>4 DEF SeerrTyped
      <3> QED BY <3>1, <3>4, <3>5 DEF SeerrTyped, Grows
    <2>4. ASSUME NEW f \in flying, SeerrRefuses(f) PROVE SeerrTyped' /\ Grows
      BY <2>4 DEF SeerrRefuses, SeerrTyped, Grows, Made, bounds, history
    <2>5. ASSUME NEW r \in Made, Decline(r) PROVE SeerrTyped' /\ Grows
      <3>1. UNCHANGED <<here, lapsed, flying, unsaved, asked>> /\ spent' = [spent EXCEPT !.declined = @ + 1]
        BY <2>5 DEF Decline, history
      <3>2. seerr' = [seerr EXCEPT ![r].status = "declined"]
        BY <2>5 DEF Decline
      <3>3. spent' \in Spent
        BY <1>0, <3>1
      <3> QED BY <3>1, <3>2, <3>3, StatusKept DEF SeerrTyped, Grows
    <2>6. ASSUME NEW r \in Made, Available(r) PROVE SeerrTyped' /\ Grows
      <3>1. UNCHANGED <<here, lapsed, flying, unsaved, asked, spent>>
        BY <2>6 DEF Available, bounds, history
      <3>2. seerr' = [seerr EXCEPT ![r].status = "completed"]
        BY <2>6 DEF Available
      <3> QED BY <3>1, <3>2, StatusKept DEF SeerrTyped, Grows
    <2>7. ASSUME NEW h \in Household, Replace(h) PROVE SeerrTyped' /\ Grows
      <3>1. UNCHANGED <<here, seerr, lapsed, flying, unsaved, asked>> /\ spent' = [spent EXCEPT !.replaced = @ + 1]
        BY <2>7 DEF Replace, world, history
      <3>2. spent' \in Spent
        BY <1>0, <3>1
      <3> QED BY <3>1, <3>2 DEF SeerrTyped, Grows, Made
    <2>8. CASE Crash
      <3>1. UNCHANGED <<here, seerr, lapsed, flying, asked>> /\ unsaved' = {} /\ spent' = [spent EXCEPT !.crashes = @ + 1]
        BY <2>8 DEF Crash, world, history
      <3>2. spent' \in Spent
        BY <1>0, <3>1
      <3> QED BY <3>1, <3>2 DEF SeerrTyped, Grows, Made
    <2>9. CASE Arrive
      BY <2>9 DEF Arrive, bounds, SeerrTyped, Grows, Made, history
    <2>10. CASE Recovers
      BY <2>10 DEF Recovers, world, SeerrTyped, Grows, Made, history
    <2>11. ASSUME NEW r \in Made, Hook(r) PROVE SeerrTyped' /\ Grows
      BY <2>11 DEF Hook, world, bounds, SeerrTyped, Grows, Made, history
    <2> QED BY <1>6, <2>1, <2>2, <2>3, <2>4, <2>5, <2>6, <2>7, <2>8, <2>9, <2>10, <2>11 DEF Outside
  <1> QED BY <1>2, <1>3, <1>4, <1>5, <1>6, OutsideActions

-----------------------------------------------------------------------------
(* A call *)

\* Records and intents with requests Seerr has stay so when it has more.
LEMMA EntryGrows == ASSUME Grows PROVE Entry \subseteq Entry' /\ Wish \subseteq Wish'
  BY DEF Grows, Entry, Wish

\* Requests are numbers.
LEMMA MadeAreNumbers == ASSUME SeerrTyped PROVE Made \subseteq Nat
  BY LenProperties DEF SeerrTyped, Made

\* The record a call makes is of its member and household, pending and attached.
LEMMA NewRecordFields ==
  ASSUME SeerrTyped, CallTyped, call.pc \notin {"idle", "retry"}, NEW branch \in {"request", "interest", "join"},
         NEW r \in Made \cup {NoRequest}
  PROVE  /\ NewRecord(branch, r) \in Entry
         /\ NewRecord(branch, r).home = call.home /\ NewRecord(branch, r).status = "pending"
         /\ NewRecord(branch, r).branch = branch /\ NewRecord(branch, r).req = r
         /\ ~NewRecord(branch, r).rule /\ NewRecord(branch, r).user = call.user
  <1>1. call.user \in Member /\ call.home \in Homes[call.user] /\ call.home \in Household
    BY HomesAssumption DEF CallTyped
  <1>2. r \in Nat
    BY MadeAreNumbers DEF NoRequest
  <1> QED BY <1>1, <1>2 DEF NewRecord, Entry, Record

\* The outcomes a call may write.
Outcomes == {out \in Outcome : \A rec \in out.add :
               rec \in Entry /\ rec.home = call.home /\ (rec.status = "pending" \/ rec.branch = "join")}

\* A call that goes on, with an outcome of its own, keeps its type and has asked.
LEMMA CallMoves ==
  ASSUME CallTyped, CallAsked, Grows, call.pc \notin {"idle", "retry"},
         NEW pc \in CallStages, NEW req \in Made' \cup {NoRequest}, NEW out \in Outcomes,
         call' = [call EXCEPT !.pc = pc, !.req = req, !.out = out]
  PROVE  CallTyped' /\ CallAsked'
  <1>1. /\ call'.pc = pc /\ call'.req = req /\ call'.out = out /\ call'.call = call.call /\ call'.user = call.user
        /\ call'.home = call.home /\ call'.epoch = call.epoch
        /\ call' \in [pc : CallStages, call : 0..MaxCalls, user : Member \cup {NoMember},
                      home : Household \cup {NoMember}, epoch : Nat, req : Made' \cup {NoRequest}, out : Outcome]
    BY DEF CallTyped, Outcomes
  <1>2. call.call \in 1..MaxCalls /\ call.user \in Member /\ call.home \in Homes[call.user]
    BY DEF CallTyped
  <1>3. \A rec \in out.add : rec \in Entry' /\ rec.home = call.home /\ (rec.status = "pending" \/ rec.branch = "join")
    BY EntryGrows DEF Outcomes
  <1>4. <<call.home, call.epoch>> \in asked'
    BY DEF CallAsked, Grows
  <1> QED BY <1>1, <1>2, <1>3, <1>4 DEF CallTyped, CallAsked

\* A call that is left alone keeps its type and has asked.
LEMMA CallStays ==
  ASSUME CallTyped, CallAsked, Grows, UNCHANGED call
  PROVE  CallTyped' /\ CallAsked'
  BY EntryGrows DEF CallTyped, CallAsked, Grows

\* A call that ends leaves nothing to have asked.
LEMMA CallEnds ==
  ASSUME NEW n \in 0..MaxCalls, call' = NoCall \/ call' = [NoCall EXCEPT !.pc = "retry", !.call = n]
  PROVE  CallTyped' /\ CallAsked'
  <1>1. NoOutcome \in Outcome /\ NoOutcome.add = {}
    BY DEF NoOutcome, Outcome
  <1>2. /\ NoCall \in [pc : CallStages, call : 0..MaxCalls, user : Member \cup {NoMember}, home : Household \cup {NoMember},
                        epoch : Nat, req : {NoRequest}, out : Outcome]
        /\ NoCall.pc = "idle" /\ NoCall.out = NoOutcome
    BY <1>1, BoundsAssumption DEF NoCall, CallStages
  <1>3. /\ call' \in [pc : CallStages, call : 0..MaxCalls, user : Member \cup {NoMember}, home : Household \cup {NoMember},
                       epoch : Nat, req : {NoRequest}, out : Outcome]
        /\ call'.pc \in {"idle", "retry"} /\ call'.out.add = {}
    BY <1>1, <1>2 DEF CallStages
  <1> QED BY <1>3 DEF CallTyped, CallAsked

\* What a call will write, and what it would write to drop its intent, are outcomes of its own.
LEMMA OwnOutcome ==
  ASSUME CallTyped, CallAsked
  PROVE  call.out \in Outcomes /\ (call.pc \notin {"idle", "retry"} => Dropped \in Outcomes)
  BY DEF CallTyped, CallAsked, Outcomes, Dropped, Outcome

\* Settling a call's intent is an outcome of its own.
LEMMA SettledAsFields ==
  ASSUME SeerrTyped, CallTyped, CallAsked, call.pc \notin {"idle", "retry"}, NEW outcome
  PROVE  SettledAs(outcome) \in Outcomes
  <1> DEFINE rec == NewRecord("request", call.req)
  <1>1. rec \in Entry /\ rec.home = call.home /\ rec.status = "pending"
    BY NewRecordFields DEF CallTyped
  <1>2. [rec EXCEPT !.rule = TRUE] \in Entry /\ [rec EXCEPT !.rule = TRUE].home = call.home
        /\ [rec EXCEPT !.rule = TRUE].status = "pending"
    <2> HIDE DEF rec
    <2> QED BY <1>1 DEF Entry, Record
  <1>3. call.user \in Member /\ call.req \in Nat /\ call.call \in Nat
    BY MadeAreNumbers DEF CallTyped, NoRequest
  <1>4. TombstoneFor({call.req}) \in Tombstone
    BY <1>3 DEF TombstoneFor, Tombstone
  <1>5. Dropped \in Outcome /\ call.out \in Outcome
    BY OwnOutcome DEF Outcomes
  <1>6. \A x \in Entry : x \in Record
    BY DEF Entry
  <1>7. CASE outcome = "absent"
    <2> DEFINE add == {rec}
               exempt == {<<call.user, call.req>>}
               out == [Dropped EXCEPT !.add = add, !.exempt = exempt]
    <2>1. SettledAs(outcome) = out
      BY <1>7 DEF SettledAs
    <2>2. add \in SUBSET Record /\ exempt \in SUBSET (Member \X Nat)
      BY <1>1, <1>3, <1>6
    <2>3. out \in Outcome /\ out.add = add
      <3> HIDE DEF add, exempt
      <3> QED BY <1>5, <2>2 DEF Outcome
    <2> HIDE DEF out, rec
    <2> QED BY <1>1, <2>1, <2>3 DEF Outcomes
  <1>8. CASE outcome = "present"
    <2> DEFINE ruled == [rec EXCEPT !.rule = TRUE]
               add == {ruled}
               tombs == {TombstoneFor({call.req})}
               out == [Dropped EXCEPT !.add = add, !.tombs = tombs]
    <2>1. SettledAs(outcome) = out
      BY <1>8 DEF SettledAs
    <2>2. add \in SUBSET Record /\ tombs \in SUBSET Tombstone
      BY <1>2, <1>4, <1>6
    <2>3. out \in Outcome /\ out.add = add
      <3> HIDE DEF add, tombs
      <3> QED BY <1>5, <2>2 DEF Outcome
    <2> HIDE DEF out, rec
    <2> QED BY <1>2, <2>1, <2>3 DEF Outcomes
  <1>9. CASE outcome \notin {"absent", "present"}
    <2> DEFINE add == {rec}
               settle == {<<call.call, call.req>>}
               out == [call.out EXCEPT !.add = add, !.settle = settle]
    <2>1. SettledAs(outcome) = out
      BY <1>9 DEF SettledAs
    <2>2. add \in SUBSET Record /\ settle \in SUBSET (Nat \X Nat)
      BY <1>1, <1>3, <1>6
    <2>3. out \in Outcome /\ out.add = add
      <3> HIDE DEF add, settle
      <3> QED BY <1>5, <2>2 DEF Outcome
    <2> HIDE DEF out, rec
    <2> QED BY <1>1, <2>1, <2>3 DEF Outcomes
  <1> QED BY <1>7, <1>8, <1>9

\* An outcome with one record for the call's household is one of its own.
LEMMA AddedFields ==
  ASSUME NEW out \in Outcomes, NEW rec \in Entry, rec.home = call.home, rec.status = "pending" \/ rec.branch = "join"
  PROVE  [out EXCEPT !.add = {rec}] \in Outcomes
  BY DEF Outcomes, Outcome, Entry

\* Every step keeps the call's type, and that whoever calls asked.
LEMMA CallKept ==
  ASSUME TypeInv, CallAsked, [Next]_vars
  PROVE  CallTyped' /\ CallAsked'
  <1> USE DEF TypeInv
  <1>1. SeerrTyped' /\ Grows
    BY SeerrStep
  <1>2. Made \cup {NoRequest} \subseteq Made' \cup {NoRequest} /\ call.req \in Made' \cup {NoRequest}
    BY <1>1 DEF Grows, CallTyped
  <1>3. call.out \in Outcomes /\ (call.pc \notin {"idle", "retry"} => Dropped \in Outcomes)
    BY OwnOutcome
  <1>4. CASE UNCHANGED call
    BY <1>1, <1>4, CallStays
  <1>5. CASE CallFails \/ NothingToDo \/ RetryAfterCall \/ Crash
    <2>1. call' = NoCall
      BY <1>5 DEF CallFails, NothingToDo, RetryAfterCall, Crash
    <2>2. 0 \in 0..MaxCalls
      BY BoundsAssumption
    <2> QED BY <2>1, <2>2, CallEnds
  <1>6. ASSUME NEW pc \in CallStages \ {"idle", "retry"}, call.pc \notin {"idle", "retry"}, call' = [call EXCEPT !.pc = pc]
        PROVE  CallTyped' /\ CallAsked'
    <2> DEFINE req == call.req
               out == call.out
    <2>1. call' = [call EXCEPT !.pc = pc, !.req = req, !.out = out]
      BY <1>6 DEF CallTyped
    <2>2. req \in Made' \cup {NoRequest} /\ out \in Outcomes
      BY <1>2, <1>3
    <2> HIDE DEF req, out
    <2> QED BY <1>1, <1>6, <2>1, <2>2, CallMoves
  <1>7. ASSUME NEW out \in Outcomes, call.pc \notin {"idle", "retry"}, NEW pc \in CallStages \ {"idle", "retry"},
               call' = [call EXCEPT !.pc = pc, !.out = out]
        PROVE  CallTyped' /\ CallAsked'
    <2>1. call' = [call EXCEPT !.pc = pc, !.req = call.req, !.out = out]
      BY <1>7 DEF CallTyped
    <2> QED BY <1>1, <1>2, <1>7, <2>1, CallMoves
  <1>8. ASSUME NEW req \in Made' \cup {NoRequest}, call.pc \notin {"idle", "retry"}, NEW pc \in CallStages \ {"idle", "retry"},
               call' = [call EXCEPT !.pc = pc, !.req = req]
        PROVE  CallTyped' /\ CallAsked'
    <2>1. call' = [call EXCEPT !.pc = pc, !.req = req, !.out = call.out]
      BY <1>8 DEF CallTyped
    <2> QED BY <1>1, <1>3, <1>8, <2>1, CallMoves
  <1>9. CASE Look
    <2>1. PICK r \in (IF Active = {} THEN {NoRequest} ELSE Active) : call' = [call EXCEPT !.pc = "decide", !.req = r]
      BY <1>9 DEF Look
    <2>2. r \in Made' \cup {NoRequest}
      BY <1>2 DEF Active
    <2> QED BY <1>8, <1>9, <2>1, <2>2 DEF Look, CallStages
  <1>10. CASE DecideJoin
    BY <1>6, <1>10 DEF DecideJoin, CallStages
  <1>11. CASE DecideFollow
    <2>1. Follow(call.req) \in Entry /\ Follow(call.req).home = call.home /\ Follow(call.req).status = "pending"
      BY <1>11, NewRecordFields DEF DecideFollow, Follow, CallTyped
    <2>2. [call.out EXCEPT !.add = {Follow(call.req)}] \in Outcomes
      BY <1>3, <2>1, AddedFields
    <2>3. call' = [call EXCEPT !.pc = "write", !.out = [call.out EXCEPT !.add = {Follow(call.req)}]]
      BY <1>11 DEF DecideFollow, CallTyped
    <2> QED BY <1>7, <1>11, <2>2, <2>3 DEF DecideFollow, CallStages
  <1>12. CASE DecideRequest
    BY <1>6, <1>12 DEF DecideRequest, CallStages
  <1>13. CASE Join
    <2> DEFINE completed == [NewRecord("join", NoRequest) EXCEPT !.status = "completed"]
    <2>1. completed \in Entry /\ completed.home = call.home /\ completed.branch = "join"
      <3>1. /\ NewRecord("join", NoRequest) \in Entry /\ NewRecord("join", NoRequest).home = call.home
            /\ NewRecord("join", NoRequest).branch = "join"
        BY <1>13, NewRecordFields DEF Join
      <3> QED BY <3>1 DEF Entry, Record
    <2> HIDE DEF completed
    <2>2. [call.out EXCEPT !.add = {completed}] \in Outcomes
      BY <1>3, <2>1, AddedFields
    <2>3. [call.out EXCEPT !.add = {}] \in Outcomes
      BY <1>3 DEF Outcomes, Outcome
    <2>4. \/ call' = [call EXCEPT !.pc = "write", !.out = [call.out EXCEPT !.add = {completed}]]
          \/ call' = [call EXCEPT !.pc = "write", !.out = [call.out EXCEPT !.add = {}]]
          \/ call' = [call EXCEPT !.pc = "write"]
      BY <1>13 DEF Join, CallTyped, completed
    <2> QED BY <1>6, <1>7, <1>13, <2>2, <2>3, <2>4 DEF Join, CallStages
  <1>14. CASE IntentSaved \/ IntentNotSaved \/ NoAnswer
    BY <1>6, <1>14 DEF IntentSaved, IntentNotSaved, NoAnswer, CallStages
  <1>15. CASE RecheckFails \/ RecheckJoin
    BY <1>3, <1>7, <1>15 DEF RecheckFails, RecheckJoin, CallStages
  <1>16. CASE Send
    BY <1>3, <1>6, <1>7, <1>16 DEF Send, CallStages
  <1>17. CASE Settle
    <2>1. \A outcome : SettledAs(outcome) \in Outcomes
      BY <1>17, SettledAsFields DEF Settle
    <2> QED BY <1>7, <1>17, <2>1 DEF Settle, CallStages
  <1>18. CASE FallBack
    <2>1. call.pc = "conflict"
      BY <1>18 DEF FallBack
    <2>2. \A branch \in {"request", "interest"}, r \in Made \cup {NoRequest} :
            [Dropped EXCEPT !.add = {NewRecord(branch, r)}] \in Outcomes
      BY <1>3, <2>1, NewRecordFields, AddedFields
    <2>3. \E branch \in {"request", "interest"}, r \in Made \cup {NoRequest} :
            call' = [call EXCEPT !.pc = "write", !.out = [Dropped EXCEPT !.add = {NewRecord(branch, r)}]]
      <3>1. CASE \E r \in (IF Active # {} THEN Active ELSE IF Blocking # {} THEN Blocking ELSE {NoRequest}) :
                   call' = [call EXCEPT !.pc = "write",
                              !.out = [Dropped EXCEPT !.add = {IF r = NoRequest THEN NewRecord("interest", r) ELSE Follow(r)}]]
        <4>1. PICK r \in (IF Active # {} THEN Active ELSE IF Blocking # {} THEN Blocking ELSE {NoRequest}) :
                   call' = [call EXCEPT !.pc = "write",
                              !.out = [Dropped EXCEPT !.add = {IF r = NoRequest THEN NewRecord("interest", r) ELSE Follow(r)}]]
          BY <3>1
        <4>2. r \in Made \cup {NoRequest}
          BY DEF Active, Blocking
        <4> QED BY <4>1, <4>2 DEF Follow
      <3>2. CASE call' = [call EXCEPT !.pc = "write", !.out = [Dropped EXCEPT !.add = {NewRecord("interest", NoRequest)}]]
        BY <3>2
      <3> QED BY <1>18, <3>1, <3>2 DEF FallBack
    <2> QED BY <1>7, <2>1, <2>2, <2>3 DEF CallStages
  <1>19. CASE WriteOutcome
    <2>1. call.call \in 0..MaxCalls /\ 0 \in 0..MaxCalls
      BY BoundsAssumption DEF CallTyped
    <2> QED BY <1>19, <2>1, CallEnds DEF WriteOutcome
  <1>20. ASSUME NEW h \in Household, NEW u \in Member, Submit(u, h)
         PROVE  CallTyped' /\ CallAsked'
    <2>1. /\ call' = [NoCall EXCEPT !.pc = "look", !.call = spent.calls + 1, !.user = u, !.home = h, !.epoch = mem.epoch[h]]
          /\ asked' = asked \cup {<<h, mem.epoch[h]>>} /\ h \in Homes[u] /\ spent.calls < MaxCalls
      BY <1>20 DEF Submit
    <2>2. mem.epoch[h] \in Nat /\ spent.calls + 1 \in 1..MaxCalls
      BY <2>1, BoundsAssumption DEF MemTyped, State, SeerrTyped
    <2>3. NoOutcome \in Outcome /\ NoOutcome.add = {}
      BY DEF NoOutcome, Outcome
    <2>4. call' = [pc |-> "look", call |-> spent.calls + 1, user |-> u, home |-> h, epoch |-> mem.epoch[h],
                   req |-> NoRequest, out |-> NoOutcome]
      BY <2>1 DEF NoCall
    <2>5. 1..MaxCalls \subseteq 0..MaxCalls
      BY BoundsAssumption
    <2>6. /\ call' \in [pc : CallStages, call : 0..MaxCalls, user : Member \cup {NoMember}, home : Household \cup {NoMember},
                        epoch : Nat, req : {NoRequest}, out : Outcome]
          /\ call'.call \in 1..MaxCalls /\ call'.user = u /\ call'.home = h /\ call'.epoch = mem.epoch[h]
          /\ call'.out.add = {}
      BY <2>2, <2>3, <2>4, <2>5 DEF CallStages
    <2> QED BY <2>1, <2>6 DEF CallTyped, CallAsked
  <1>21. ASSUME NEW f \in flying, SeerrMakes(f)
         PROVE  CallTyped' /\ CallAsked'
    <2>1. Make(f.user, f.call) /\ f.user \in Member /\ f.call \in 0..MaxCalls
      BY <1>21 DEF SeerrMakes, SeerrTyped
    <2>2. Len(seerr) + 1 \in Made'
      BY <2>1, MakeFields
    <2> HIDE DEF TypeInv
    <2>3. UNCHANGED call \/ (call.pc = "sent" /\ call' = [call EXCEPT !.pc = "settle", !.req = Len(seerr) + 1])
      <3>1. call' \in IF Waiting(f) THEN {[call EXCEPT !.pc = "settle", !.req = Len(seerr) + 1], call} ELSE {call}
        BY <1>21 DEF SeerrMakes
      <3>2. CASE Waiting(f)
        BY <3>1, <3>2 DEF Waiting
      <3>3. CASE ~Waiting(f)
        BY <3>1, <3>3
      <3> QED BY <3>2, <3>3
    <2> QED BY <1>4, <1>8, <2>2, <2>3 DEF CallStages
  <1>22. ASSUME NEW f \in flying, SeerrRefuses(f)
         PROVE  CallTyped' /\ CallAsked'
    <2>1. \/ UNCHANGED call
          \/ call.pc = "sent" /\ call' = [call EXCEPT !.pc = "write", !.out = Dropped]
          \/ call.pc = "sent" /\ call' = [call EXCEPT !.pc = "conflict"]
      BY <1>22 DEF SeerrRefuses, Waiting
    <2> QED BY <1>3, <1>4, <1>6, <1>7, <2>1 DEF CallStages
  <1> HIDE DEF TypeInv
  <1> QED BY <1>4, <1>5, <1>9, <1>10, <1>11, <1>12, <1>13, <1>14, <1>15, <1>16, <1>17, <1>18, <1>19, <1>20, <1>21, <1>22,
             CallActions DEF CallStep

-----------------------------------------------------------------------------
(* The write queue *)

\* A job stays one when Seerr has more requests.
LEMMA JobGrows == ASSUME Grows PROVE Job \subseteq Job'
  BY DEF Grows, Job

\* Jobs as they begin: nobody is ready to be granted.
LEMMA NoJobFields ==
  /\ NoJob \in Job /\ NoJob.pc = "idle" /\ NoJob.ready = {}
  /\ \A job \in {"hook", "retry", "backfill"} : \A todo \in SUBSET Made :
       LET q == [NoJob EXCEPT !.job = job, !.pc = "next", !.todo = todo] IN q \in Job /\ q.pc = "next" /\ q.ready = {}
  /\ \A r \in Made :
       LET q == [NoJob EXCEPT !.job = "hook", !.pc = "settle", !.req = r]
       IN  q \in Job /\ q.pc = "settle" /\ q.req = r /\ q.ready = {}
  BY DEF NoJob, Job

\* A rule decided leads to the next request, to acting on this one, or to a deferred webhook.
LEMMA RuledFields ==
  ASSUME NEW q \in Job, NEW r \in Made, NEW rule \in {"grant", "join", "defer"}, RuleGiven(q, r, rule)
  PROVE  /\ queue' \in Job /\ queue'.pc \in {"next", "act"}
         /\ queue'.pc = "act" => queue'.req = r /\ queue'.rule = rule /\ rule # "defer"
         /\ queue'.ready \subseteq q.ready \cup (IF rule = "defer" THEN {} ELSE {<<r, rule>>})
         /\ mem' = mem \/ (rule = "defer" /\ mem' = [mem EXCEPT !.deferred = @ \cup {r}])
  <1> DEFINE ruled == Ruled(q, r, rule)
  <1>1. /\ ruled \in Job /\ ruled.pc \in {"next", "act"}
        /\ ruled.pc = "act" => ruled.req = r /\ ruled.rule = rule /\ rule # "defer"
        /\ ruled.ready \subseteq q.ready \cup (IF rule = "defer" THEN {} ELSE {<<r, rule>>})
    <2>1. CASE rule = "defer"
      <3>1. ruled = [q EXCEPT !.pc = "next", !.req = NoRequest]
        BY <2>1 DEF Ruled
      <3> HIDE DEF ruled
      <3> QED BY <2>1, <3>1 DEF Job
    <2>2. CASE rule # "defer" /\ q.job = "retry"
      <3> DEFINE ready == q.ready \cup {<<r, rule>>}
      <3>1. ruled = [q EXCEPT !.pc = "next", !.ready = ready, !.req = NoRequest]
        BY <2>2 DEF Ruled, Job
      <3>2. ready \subseteq Made \X {"grant", "join"}
        BY <2>2 DEF Job
      <3>3. ready \subseteq q.ready \cup (IF rule = "defer" THEN {} ELSE {<<r, rule>>})
        BY <2>2
      <3> HIDE DEF ruled, ready
      <3> QED BY <3>1, <3>2, <3>3 DEF Job
    <2>3. CASE rule # "defer" /\ q.job # "retry"
      <3>1. ruled = [q EXCEPT !.pc = "act", !.req = r, !.rule = rule]
        BY <2>3 DEF Ruled
      <3> HIDE DEF ruled
      <3> QED BY <2>3, <3>1 DEF Job
    <2> QED BY <2>1, <2>2, <2>3
  <1>2. /\ queue' = [ruled EXCEPT !.hadIntents = FALSE, !.wide = {}]
        /\ mem' = IF rule = "defer" /\ q.job = "hook" THEN [mem EXCEPT !.deferred = @ \cup {r}] ELSE mem
    BY DEF RuleGiven
  <1> HIDE DEF ruled
  <1> QED BY <1>1, <1>2 DEF Job

\* Reading a rule passes over the request, waits for Seerr, or decides.
LEMMA RuleFields ==
  ASSUME MemTyped, QueueTyped, NEW r \in queue.todo, Rule(r)
  PROVE  /\ r \in Made /\ UNCHANGED <<seerr, here>>
         /\ \/ /\ UNCHANGED mem /\ queue' \in Job /\ queue'.pc = "next" /\ queue'.ready = queue.ready
            \/ /\ UNCHANGED mem /\ queue' \in Job /\ queue'.pc = "read" /\ queue'.req = r /\ queue'.ready = queue.ready
               /\ r \notin mem.handled
            \/ \E q \in Job, rule \in {"grant", "join", "defer"} :
                 /\ q.ready = queue.ready /\ RuleGiven(q, r, rule) /\ r \notin mem.handled
                 /\ \/ rule = "defer"
                    \/ rule = RuleAtOnce(mem, r)
                    \/ /\ RuleAtOnce(mem, r) = "read"
                       /\ rule = RuleAfterRead(mem, r, seerr[r].by, mem.intents # {}, MemberWide(mem))
  <1> DEFINE q == [queue EXCEPT !.todo = @ \ {r}]
             rule == RuleAtOnce(mem, r)
             after == RuleAfterRead(mem, r, seerr[r].by, mem.intents # {}, MemberWide(mem))
  <1>1. r \in Made /\ queue \in Job /\ queue.pc = "next"
    BY DEF QueueTyped, Job, Rule
  <1>2. q \in Job /\ q.pc = "next" /\ q.ready = queue.ready
    BY <1>1 DEF Job
  <1>3. rule \in {"grant", "join", "read"} /\ after \in {"grant", "join", "defer"}
    BY DEF RuleAtOnce, RuleAfterRead
  <1>4. UNCHANGED <<seerr, here>>
    BY DEF Rule, world
  <1>5. \/ r \in mem.handled /\ queue' = [q EXCEPT !.done = @ \cup {r}] /\ UNCHANGED mem
        \/ r \notin mem.handled /\ rule # "read" /\ RuleGiven(q, r, rule)
        \/ /\ r \notin mem.handled /\ UNCHANGED mem
           /\ queue' = [q EXCEPT !.pc = "read", !.req = r, !.hadIntents = mem.intents # {}, !.wide = MemberWide(mem)]
        \/ r \notin mem.handled /\ rule = "read" /\ RuleGiven(q, r, after)
    BY DEF Rule
  <1>6. MemberWide(mem) \subseteq Tombstone
    BY DEF MemberWide, MemTyped, State
  <1> HIDE DEF rule, after
  <1>7. ASSUME r \in mem.handled, queue' = [q EXCEPT !.done = @ \cup {r}]
        PROVE  queue' \in Job /\ queue'.pc = "next" /\ queue'.ready = queue.ready
    <2> HIDE DEF q
    <2>1. q.done \cup {r} \in SUBSET Made
      BY <1>1, <1>2 DEF Job
    <2> QED BY <1>2, <1>7, <2>1 DEF Job
  <1>8. ASSUME queue' = [q EXCEPT !.pc = "read", !.req = r, !.hadIntents = mem.intents # {}, !.wide = MemberWide(mem)]
        PROVE  queue' \in Job /\ queue'.pc = "read" /\ queue'.req = r /\ queue'.ready = queue.ready
    <2> DEFINE had == mem.intents # {}
               wide == MemberWide(mem)
    <2>1. had \in BOOLEAN
      OBVIOUS
    <2>2. wide \in SUBSET Tombstone
      BY <1>6
    <2>3. queue' = [q EXCEPT !.pc = "read", !.req = r, !.hadIntents = had, !.wide = wide]
      BY <1>8
    <2> HIDE DEF q, had, wide
    <2> QED BY <1>1, <1>2, <2>1, <2>2, <2>3 DEF Job
  <1> HIDE DEF q
  <1>9. \A x \in {"grant", "join", "defer"} :
           RuleGiven(q, r, x) /\ r \notin mem.handled /\ (x = "defer" \/ x = rule \/ (rule = "read" /\ x = after)) =>
             \E p \in Job, y \in {"grant", "join", "defer"} :
                 /\ p.ready = queue.ready /\ RuleGiven(p, r, y) /\ r \notin mem.handled
                 /\ y = "defer" \/ y = rule \/ (rule = "read" /\ y = after)
    BY <1>2
  <1> QED BY <1>1, <1>3, <1>4, <1>5, <1>7, <1>8, <1>9 DEF rule, after

\* Seerr's late answer decides the rule of the request that waited for it.
LEMMA RequestReadFields ==
  ASSUME QueueTyped, RequestRead
  PROVE  /\ UNCHANGED <<seerr, here>> /\ queue.pc = "read" /\ queue.req \in Made /\ queue \in Job
         /\ \E rule \in {"grant", "join", "defer"} : RuleGiven(queue, queue.req, rule)
  <1>1. \A m, r, by, hadIntents, wide : RuleAfterRead(m, r, by, hadIntents, wide) \in {"grant", "join", "defer"}
    BY DEF RuleAfterRead
  <1>2. /\ UNCHANGED <<seerr, here>> /\ queue.pc = "read"
        /\ \/ RuleGiven(queue, queue.req, RuleAfterRead(mem, queue.req, seerr[queue.req].by, queue.hadIntents, queue.wide))
           \/ RuleGiven(queue, queue.req, "defer")
    BY DEF RequestRead, RuleThen, world
  <1> QED BY <1>1, <1>2 DEF QueueTyped

\* Every step keeps the type of the job.
LEMMA QueueKept ==
  ASSUME TypeInv, [Next]_vars
  PROVE  QueueTyped'
  <1>1. Grows /\ MemTyped /\ QueueTyped /\ SeerrTyped
    BY SeerrStep DEF TypeInv
  <1>2. Job \subseteq Job' /\ Made \subseteq Made'
    BY <1>1, JobGrows DEF Grows
  <1>3. ASSUME queue' \in Job, queue'.pc \in {"read", "act", "settle"} => queue'.req \in Made
        PROVE  QueueTyped'
    BY <1>2, <1>3 DEF QueueTyped
  <1>4. CASE UNCHANGED queue
    BY <1>1, <1>3, <1>4 DEF QueueTyped
  <1>5. mem.deferred \in SUBSET Made
    BY <1>1 DEF MemTyped
  <1>6. CASE RetryAfterCall \/ Crash \/ \E f \in Refresher : RefreshRetries(f)
    <2>1. queue' = NoJob \/ queue' = RetryJob
      BY <1>6 DEF RetryAfterCall, Crash, RefreshRetries
    <2>2. RetryJob \in Job /\ RetryJob.pc = "next"
      BY <1>5, NoJobFields DEF RetryJob
    <2> QED BY <1>3, <2>1, <2>2, NoJobFields
  <1>7. CASE Backfill
    <2> DEFINE missed == {r \in Made : seerr[r].status = "completed" /\ r \notin mem.handled}
    <2>1. queue' = [NoJob EXCEPT !.job = "backfill", !.pc = "next", !.todo = missed]
      BY <1>7 DEF Backfill
    <2>2. missed \in SUBSET Made
      OBVIOUS
    <2> HIDE DEF missed
    <2> QED BY <1>3, <2>1, <2>2, NoJobFields
  <1>8. ASSUME NEW r \in Made, Hook(r) PROVE QueueTyped'
    <2>1. \/ queue' = [NoJob EXCEPT !.job = "hook", !.pc = "next", !.todo = {r}]
          \/ queue' = [NoJob EXCEPT !.job = "hook", !.pc = "settle", !.req = r]
          \/ queue' = NoJob
      BY <1>8 DEF Hook
    <2> DEFINE todo == {r}
    <2>2. todo \in SUBSET Made
      OBVIOUS
    <2>3. ASSUME queue' = [NoJob EXCEPT !.job = "hook", !.pc = "next", !.todo = todo] PROVE QueueTyped'
      <3> HIDE DEF todo
      <3> QED BY <1>3, <2>2, <2>3, NoJobFields
    <2>4. ASSUME queue' = [NoJob EXCEPT !.job = "hook", !.pc = "settle", !.req = r] PROVE QueueTyped'
      BY <1>3, <2>4, NoJobFields
    <2> QED BY <1>3, <2>1, <2>3, <2>4, NoJobFields
  <1>9. ASSUME NEW r \in queue.todo, Rule(r) PROVE QueueTyped'
    BY <1>1, <1>3, <1>9, RuleFields, RuledFields
  <1>10. CASE RequestRead
    BY <1>1, <1>3, <1>10, RequestReadFields, RuledFields
  <1>11. CASE TakeReady
    <2>1. PICK x \in queue.ready : queue' = [queue EXCEPT !.pc = "act", !.ready = @ \ {x}, !.req = x[1], !.rule = x[2]]
      BY <1>11 DEF TakeReady
    <2>2. queue \in Job /\ x \in Made \X {"grant", "join"}
      BY <1>1 DEF QueueTyped, Job
    <2>3. queue' \in Job /\ queue'.req = x[1]
      BY <2>1, <2>2 DEF Job
    <2> QED BY <1>3, <2>2, <2>3
  <1>12. CASE Act
    <2>1. queue \in Job /\ queue.pc = "act" /\ queue.req \in Made
      BY <1>1, <1>12 DEF QueueTyped, Act
    <2>2. \/ queue' = [queue EXCEPT !.pc = "settle"]
          \/ queue' = [queue EXCEPT !.pc = "next", !.req = NoRequest, !.rule = "none"]
      BY <1>12 DEF Act
    <2>3. queue' \in Job /\ (queue'.pc = "next" \/ queue'.req = queue.req)
      BY <2>1, <2>2 DEF Job
    <2> QED BY <1>3, <2>1, <2>3
  <1>13. CASE SettleRecords
    <2> DEFINE after == [queue EXCEPT !.pc = "next", !.req = NoRequest, !.rule = "none"]
    <2>1. queue \in Job /\ queue.req \in Made
      BY <1>1, <1>13 DEF QueueTyped, SettleRecords
    <2>2. queue' = after \/ queue' = [after EXCEPT !.done = @ \cup {queue.req}]
      BY <1>13 DEF SettleRecords
    <2>3. after \in Job /\ after.pc = "next" /\ after.done \cup {queue.req} \in SUBSET Made
      BY <2>1 DEF Job
    <2> HIDE DEF after
    <2>4. queue' \in Job /\ queue'.pc = "next"
      BY <2>2, <2>3 DEF Job
    <2> QED BY <1>3, <2>4
  <1>14. CASE JobDone
    BY <1>3, <1>14, NoJobFields DEF JobDone
  <1> QED BY <1>4, <1>6, <1>7, <1>8, <1>9, <1>10, <1>11, <1>12, <1>13, <1>14, QueueActions DEF GrantStep

-----------------------------------------------------------------------------
(* The refresh *)

\* A refresh done with an intent goes on with the others.
LEMMA DoneFields ==
  ASSUME RefreshTyped, RefreshAsked, NEW f \in Refresher, NEW i
  PROVE  /\ Done(f, i).pc = "intents" /\ Done(f, i).intents = refresh[f].intents \ {i}
         /\ Done(f, i).records = refresh[f].records /\ Done(f, i).intent = NoIntent /\ Done(f, i).made = NoRequest
         /\ Done(f, i) \in [pc : {"idle", "intents", "settle", "records"}, intents : SUBSET Wish,
                            records : SUBSET Entry, intent : Wish \cup {NoIntent}, made : Nat]
  BY DEF RefreshTyped, Done, NoRequest

\* One refresh moves on.
LEMMA RefreshMoves ==
  ASSUME RefreshTyped, RefreshAsked, Grows, NEW f \in Refresher,
         NEW new \in [pc : {"idle", "intents", "settle", "records"}, intents : SUBSET Wish,
                      records : SUBSET Entry, intent : Wish \cup {NoIntent}, made : Nat],
         new.pc = "settle" => /\ new.intent \in Wish /\ <<new.intent.home, new.intent.epoch>> \in asked
                              /\ new.intent.status = "submitting" => new.made \in Made,
         \A i \in new.intents : <<i.home, i.epoch>> \in asked,
         \A rec \in new.records : rec.status = "pending",
         refresh' = [refresh EXCEPT ![f] = new]
  PROVE  RefreshTyped' /\ RefreshAsked'
  <1>1. Entry \subseteq Entry' /\ Wish \subseteq Wish' /\ Made \subseteq Made' /\ asked \subseteq asked'
    BY EntryGrows DEF Grows
  <1>2. \A g \in Refresher : refresh'[g] = IF g = f THEN new ELSE refresh[g]
    BY DEF RefreshTyped
  <1>3. refresh' \in [Refresher -> [pc : {"idle", "intents", "settle", "records"}, intents : SUBSET Wish',
                                    records : SUBSET Entry', intent : Wish' \cup {NoIntent}, made : Nat]]
    <2>1. new \in [pc : {"idle", "intents", "settle", "records"}, intents : SUBSET Wish',
                   records : SUBSET Entry', intent : Wish' \cup {NoIntent}, made : Nat]
      BY <1>1
    <2>2. \A g \in Refresher :
            refresh[g] \in [pc : {"idle", "intents", "settle", "records"}, intents : SUBSET Wish',
                            records : SUBSET Entry', intent : Wish' \cup {NoIntent}, made : Nat]
      BY <1>1 DEF RefreshTyped
    <2> QED BY <2>1, <2>2 DEF RefreshTyped
  <1>4. \A g \in Refresher : refresh'[g].pc = "settle" =>
          /\ refresh'[g].intent \in Wish'
          /\ refresh'[g].intent.status = "submitting" => refresh'[g].made \in Made'
    BY <1>1, <1>2 DEF RefreshTyped
  <1>5. \A g \in Refresher :
          /\ \A i \in refresh'[g].intents : <<i.home, i.epoch>> \in asked'
          /\ refresh'[g].pc = "settle" => <<refresh'[g].intent.home, refresh'[g].intent.epoch>> \in asked'
          /\ \A rec \in refresh'[g].records : rec.status = "pending"
    BY <1>1, <1>2 DEF RefreshAsked
  <1> QED BY <1>3, <1>4, <1>5 DEF RefreshTyped, RefreshAsked

\* What the refresh decides for an intent it listed.
LEMMA RefreshIntentFields ==
  ASSUME SeerrTyped, RefreshTyped, NEW f \in Refresher, NEW i \in refresh[f].intents, RefreshIntent(f, i)
  PROVE  /\ UNCHANGED <<unsaved, here, seerr, lapsed, flying, call, queue, asked, spent>>
         /\ \/ Leave(f, i)
            \/ /\ i.call \notin Live /\ i.status = "submitting"
               /\ \E reqs \in SUBSET Candidates(i) : Retire(f, i, reqs)
            \/ /\ i.call \notin Live /\ UNCHANGED mem
               /\ \E r \in Nat :
                    /\ refresh' = [refresh EXCEPT ![f] = [Done(f, i) EXCEPT !.pc = "settle", !.intent = i, !.made = r]]
                    /\ i.status = "submitting" => r \in Candidates(i)
                    /\ i.status = "settling" => r = i.req
  <1> DEFINE Settles(r) == refresh' = [refresh EXCEPT ![f] = [Done(f, i) EXCEPT !.pc = "settle", !.intent = i, !.made = r]]
             Retires == \E reqs \in SUBSET Candidates(i) : Retire(f, i, reqs)
  <1>1. UNCHANGED <<unsaved, here, seerr, lapsed, flying, call, queue, asked, spent>>
    BY DEF RefreshIntent, Reworks, world, bounds
  <1>2. \/ Leave(f, i)
        \/ i.call \notin Live /\ i.status = "submitting" /\ Recover(f, i)
        \/ i.call \notin Live /\ i.status = "submitting" /\ (Leave(f, i) \/ Retire(f, i, {}))
        \/ i.call \notin Live /\ i.status = "settling" /\ Settles(i.req) /\ UNCHANGED mem
    BY DEF RefreshIntent
  <1>3. Retire(f, i, {}) => Retires
    OBVIOUS
  <1>4. Recover(f, i) => \/ Leave(f, i)
                         \/ Retires
                         \/ UNCHANGED mem /\ \E r \in Candidates(i) : Settles(r)
    <2> DEFINE found == Candidates(i)
               made == CHOOSE r \in found : TRUE
    <2>1. found # {} => made \in found
      OBVIOUS
    <2>2. Recover(f, i) => \/ Leave(f, i)
                           \/ Retire(f, i, {})
                           \/ Retire(f, i, found)
                           \/ found # {} /\ UNCHANGED mem /\ Settles(made)
      BY DEF Recover
    <2> HIDE DEF Settles, made
    <2>3. Retire(f, i, found) => Retires
      OBVIOUS
    <2> HIDE DEF found, Retires
    <2> QED BY <1>3, <2>1, <2>2, <2>3 DEF found
  <1>5. Candidates(i) \subseteq Nat /\ i.req \in Nat
    BY MadeAreNumbers DEF Candidates, RefreshTyped, Wish, Intent
  <1> HIDE DEF Settles
  <1>6. i.status = "settling" => i.status # "submitting"
    OBVIOUS
  <1>7. \A r \in Nat : Settles(r) /\ (i.status = "submitting" => r \in Candidates(i)) /\ (i.status = "settling" => r = i.req)
          => \E q \in Nat : /\ Settles(q)
                            /\ i.status = "submitting" => q \in Candidates(i)
                            /\ i.status = "settling" => q = i.req
    OBVIOUS
  <1>8. CASE Leave(f, i)
    BY <1>1, <1>8
  <1>9. CASE i.call \notin Live /\ i.status = "submitting" /\ Retires
    BY <1>1, <1>9
  <1>10. CASE i.call \notin Live /\ i.status = "submitting" /\ UNCHANGED mem /\ \E r \in Candidates(i) : Settles(r)
    BY <1>1, <1>5, <1>7, <1>10 DEF Settles
  <1>11. CASE i.call \notin Live /\ i.status = "settling" /\ Settles(i.req) /\ UNCHANGED mem
    BY <1>1, <1>5, <1>7, <1>11 DEF Settles
  <1> HIDE DEF Retires
  <1> QED BY <1>2, <1>3, <1>4, <1>8, <1>9, <1>10, <1>11

\* A resting refresh, field by field.
LEMMA RestingFields ==
  Resting \in [pc : {"idle", "intents", "settle", "records"}, intents : SUBSET Wish, records : SUBSET Entry,
               intent : Wish \cup {NoIntent}, made : Nat]
  BY DEF Resting, NoRequest

\* Every step keeps the types of the refreshes, and that those they list asked.
LEMMA RefreshKept ==
  ASSUME TypeInv, MemAsked, RefreshAsked, [Next]_vars
  PROVE  RefreshTyped' /\ RefreshAsked'
  <1> DEFINE Run == [pc : {"idle", "intents", "settle", "records"}, intents : SUBSET Wish, records : SUBSET Entry,
                     intent : Wish \cup {NoIntent}, made : Nat]
  <1>1. Grows /\ SeerrTyped /\ MemTyped /\ RefreshTyped
    BY SeerrStep DEF TypeInv
  <1>2. \A f \in Refresher : refresh[f] \in Run /\ refresh \in [Refresher -> Run]
    BY <1>1 DEF RefreshTyped
  <1>3. ASSUME NEW f \in Refresher, NEW new \in Run, refresh' = [refresh EXCEPT ![f] = new], new.pc # "settle",
               \A i \in new.intents : <<i.home, i.epoch>> \in asked, \A rec \in new.records : rec.status = "pending"
        PROVE  RefreshTyped' /\ RefreshAsked'
    BY <1>1, <1>3, RefreshMoves
  <1>4. CASE UNCHANGED refresh
    <2>1. Entry \subseteq Entry' /\ Wish \subseteq Wish' /\ Made \subseteq Made' /\ asked \subseteq asked'
      BY <1>1, EntryGrows DEF Grows
    <2> QED BY <1>1, <1>4, <2>1 DEF RefreshTyped, RefreshAsked
  <1>5. CASE Crash
    <2>1. refresh' = [f \in Refresher |-> Resting] /\ \A f \in Refresher : refresh'[f] = Resting
      BY <1>5 DEF Crash
    <2>2. Resting \in [pc : {"idle", "intents", "settle", "records"}, intents : SUBSET Wish', records : SUBSET Entry',
                       intent : Wish' \cup {NoIntent}, made : Nat]
          /\ Resting.pc = "idle" /\ Resting.intents = {} /\ Resting.records = {}
      BY DEF Resting, NoRequest
    <2> QED BY <2>1, <2>2 DEF RefreshTyped, RefreshAsked
  <1>6. ASSUME NEW f \in Refresher, NEW i, refresh' = [refresh EXCEPT ![f] = Done(f, i)]
        PROVE  RefreshTyped' /\ RefreshAsked'
    <2>1. /\ Done(f, i) \in Run /\ Done(f, i).pc = "intents" /\ Done(f, i).intents \subseteq refresh[f].intents
          /\ Done(f, i).records = refresh[f].records
      BY <1>1, DoneFields
    <2>2. /\ \A x \in refresh[f].intents : <<x.home, x.epoch>> \in asked
          /\ \A rec \in refresh[f].records : rec.status = "pending"
      BY DEF RefreshAsked
    <2> QED BY <1>3, <1>6, <2>1, <2>2
  <1>7. ASSUME NEW f \in Refresher, RefreshStarts(f) PROVE RefreshTyped' /\ RefreshAsked'
    <2> DEFINE new == [refresh[f] EXCEPT !.pc = "intents", !.intents = mem.intents]
    <2>1. refresh' = [refresh EXCEPT ![f] = new]
      BY <1>2, <1>7 DEF RefreshStarts
    <2>2. mem.intents \in SUBSET Wish
      BY <1>1 DEF MemTyped
    <2>3. new \in Run /\ new.pc = "intents" /\ new.intents = mem.intents /\ new.records = refresh[f].records
      BY <1>2, <2>2
    <2> HIDE DEF new
    <2> QED BY <1>3, <2>1, <2>3 DEF MemAsked, RefreshAsked
  <1>8. ASSUME NEW f \in Refresher, NEW i \in refresh[f].intents, RefreshIntent(f, i) PROVE RefreshTyped' /\ RefreshAsked'
    <2>1. \/ refresh' = [refresh EXCEPT ![f] = Done(f, i)]
          \/ \E r \in Nat :
               /\ refresh' = [refresh EXCEPT ![f] = [Done(f, i) EXCEPT !.pc = "settle", !.intent = i, !.made = r]]
               /\ i.status = "submitting" => r \in Candidates(i)
      BY <1>1, <1>8, RefreshIntentFields DEF Leave, Retire
    <2>2. ASSUME NEW r \in Nat, i.status = "submitting" => r \in Candidates(i),
                 refresh' = [refresh EXCEPT ![f] = [Done(f, i) EXCEPT !.pc = "settle", !.intent = i, !.made = r]]
          PROVE  RefreshTyped' /\ RefreshAsked'
      <3> DEFINE new == [Done(f, i) EXCEPT !.pc = "settle", !.intent = i, !.made = r]
      <3>1. i \in Wish
        BY <1>2
      <3>2. new \in Run /\ new.pc = "settle" /\ new.intent = i /\ new.made = r
            /\ new.intents \subseteq refresh[f].intents /\ new.records = refresh[f].records
        <4> DEFINE done == Done(f, i)
        <4>1. done \in Run /\ done.intents = refresh[f].intents \ {i} /\ done.records = refresh[f].records
          BY <1>1, DoneFields
        <4>2. new = [done EXCEPT !.pc = "settle", !.intent = i, !.made = r]
          OBVIOUS
        <4> HIDE DEF done, new
        <4> QED BY <3>1, <4>1, <4>2
      <3>3. i.status = "submitting" => r \in Made
        BY <2>2 DEF Candidates
      <3>4. /\ \A x \in refresh[f].intents : <<x.home, x.epoch>> \in asked
            /\ \A rec \in refresh[f].records : rec.status = "pending"
        BY DEF RefreshAsked
      <3>5. refresh' = [refresh EXCEPT ![f] = new]
        BY <2>2
      <3> HIDE DEF new
      <3> QED BY <1>1, <3>1, <3>2, <3>3, <3>4, <3>5, RefreshMoves
    <2> QED BY <1>6, <2>1, <2>2
  <1>9. ASSUME NEW f \in Refresher, RefreshSettle(f) PROVE RefreshTyped' /\ RefreshAsked'
    <2>1. refresh' = [refresh EXCEPT ![f] = Done(f, refresh[f].intent)]
      BY <1>9 DEF RefreshSettle, SettleRead, Leave, Retire
    <2> QED BY <1>6, <2>1
  <1>10. ASSUME NEW f \in Refresher, IntentsRead(f) PROVE RefreshTyped' /\ RefreshAsked'
    <2> DEFINE pending == {rec \in mem.records : rec.status = "pending"}
               new == [refresh[f] EXCEPT !.pc = "records", !.records = pending]
    <2>1. refresh' = [refresh EXCEPT ![f] = new]
      BY <1>2, <1>10 DEF IntentsRead
    <2>2. pending \in SUBSET Entry /\ \A rec \in pending : rec.status = "pending"
      BY <1>1 DEF MemTyped
    <2> HIDE DEF pending
    <2>3. new \in Run /\ new.pc = "records" /\ new.intents = refresh[f].intents /\ new.records = pending
      BY <1>2, <2>2
    <2> HIDE DEF new
    <2> QED BY <1>3, <2>1, <2>2, <2>3 DEF RefreshAsked
  <1>11. ASSUME NEW f \in Refresher, NEW rec \in refresh[f].records, RefreshRecord(f, rec)
         PROVE  RefreshTyped' /\ RefreshAsked'
    <2> DEFINE new == [refresh[f] EXCEPT !.records = @ \ {rec}]
    <2>1. refresh' = [refresh EXCEPT ![f] = new] /\ refresh[f].pc = "records"
      BY <1>2, <1>11 DEF RefreshRecord
    <2>2. new \in Run /\ new.pc = "records" /\ new.intents = refresh[f].intents /\ new.records \subseteq refresh[f].records
      BY <1>2, <2>1
    <2> HIDE DEF new
    <2> QED BY <1>3, <2>1, <2>2 DEF RefreshAsked
  <1>12. ASSUME NEW f \in Refresher, RefreshRetries(f) PROVE RefreshTyped' /\ RefreshAsked'
    <2>1. refresh' = [refresh EXCEPT ![f] = Resting]
      BY <1>12 DEF RefreshRetries
    <2>2. Resting.pc = "idle" /\ Resting.intents = {} /\ Resting.records = {}
      BY DEF Resting
    <2> QED BY <1>3, <2>1, <2>2, RestingFields
  <1> QED BY <1>4, <1>5, <1>7, <1>8, <1>9, <1>10, <1>11, <1>12, RefreshActions DEF RefreshStep

-----------------------------------------------------------------------------
(* The store *)

\* A store left alone keeps its types, and that those in it asked.
LEMMA MemStays ==
  ASSUME MemTyped, MemAsked, Grows, UNCHANGED mem
  PROVE  MemTyped' /\ MemAsked'
  <1>1. Entry \subseteq Entry' /\ Wish \subseteq Wish' /\ Made \subseteq Made' /\ asked \subseteq asked'
    BY EntryGrows DEF Grows
  <1>2. MemTyped'
    BY <1>1 DEF MemTyped
  <1>3. \A r \in mem.granted : seerr'[r].by = seerr[r].by
    BY DEF MemTyped, Grows
  <1>4. MemAsked'
    BY <1>1, <1>3 DEF MemAsked, InterestReadyIsHeld
  <1> QED BY <1>2, <1>4

\* What a call or a refresh writes for a household that asked.
LEMMA WrittenKeeps ==
  ASSUME MemTyped, MemAsked, NEW epoch \in Nat, NEW out \in Outcome, NEW m, m = Written(mem, epoch, out),
         out.add \subseteq Entry, \A rec \in out.add : <<rec.home, epoch>> \in asked,
         \A rec \in out.add : rec.status = "pending" \/ rec.branch = "join"
  PROVE  /\ m \in State /\ m.records \subseteq Entry /\ m.intents \subseteq Wish
         /\ \A rec \in m.records : ~rec.detached => <<rec.home, m.epoch[rec.home]>> \in asked
         /\ \A i \in m.intents : <<i.home, i.epoch>> \in asked
         /\ \A rec \in m.records : rec.status = "completed" /\ rec.branch = "interest" /\ ~rec.detached => rec.home \in m.groups
         /\ m.deferred = mem.deferred /\ m.handled = mem.handled /\ m.granted = mem.granted
         /\ m.groups = mem.groups /\ m.epoch = mem.epoch
  <1> DEFINE left == {j \in mem.intents : j.call \notin out.remove}
  <1>1. /\ m.records = mem.records \cup {Attributed(mem, epoch, rec) : rec \in out.add}
        /\ m.tombs = {Exempted(t, out.exempt) : t \in mem.tombs \cup out.tombs}
        /\ m.intents = {Settling(i, out.settle) : i \in left}
        /\ m.deferred = mem.deferred /\ m.handled = mem.handled /\ m.granted = mem.granted
        /\ m.groups = mem.groups /\ m.epoch = mem.epoch
    BY WrittenFields DEF MemTyped
  <1>2. \A rec \in out.add : LET new == Attributed(mem, epoch, rec)
          IN  /\ new \in Entry /\ new.home = rec.home /\ new.branch = rec.branch /\ new.status = rec.status
              /\ ~new.detached => <<new.home, mem.epoch[new.home]>> \in asked
    <2> SUFFICES ASSUME NEW rec \in out.add
                 PROVE  LET new == Attributed(mem, epoch, rec)
                        IN  /\ new \in Entry /\ new.home = rec.home /\ new.branch = rec.branch /\ new.status = rec.status
                            /\ ~new.detached => <<new.home, mem.epoch[new.home]>> \in asked
      OBVIOUS
    <2> DEFINE new == Attributed(mem, epoch, rec)
    <2>1. rec \in Record /\ rec \in Entry /\ mem \in State
      BY DEF Entry, MemTyped
    <2>2. /\ new \in Record /\ new.home = rec.home /\ new.user = rec.user /\ new.branch = rec.branch
          /\ new.status = rec.status /\ new.req = rec.req
          /\ ~new.detached => mem.epoch[rec.home] = epoch
      BY <2>1, AttributedFields
    <2> HIDE DEF new
    <2>3. new \in Entry
      BY <2>1, <2>2 DEF Entry
    <2> QED BY <2>2, <2>3 DEF new
  <1>3. \A i \in left : LET new == Settling(i, out.settle)
          IN  new \in Wish /\ <<new.home, new.epoch>> \in asked
    <2> SUFFICES ASSUME NEW i \in left
                 PROVE  LET new == Settling(i, out.settle)
                        IN  new \in Wish /\ <<new.home, new.epoch>> \in asked
      OBVIOUS
    <2>1. i \in Intent /\ i \in Wish /\ out.settle \in SUBSET (Nat \X Nat) /\ <<i.home, i.epoch>> \in asked
      BY DEF Wish, Outcome, MemTyped, MemAsked
    <2> DEFINE new == Settling(i, out.settle)
    <2>2. /\ new \in Intent /\ new.call = i.call /\ new.user = i.user /\ new.home = i.home /\ new.epoch = i.epoch
          /\ new.old = i.old
      BY <2>1, SettlingFields
    <2> HIDE DEF new
    <2>3. new \in Wish
      BY <2>1, <2>2 DEF Wish
    <2> QED BY <2>1, <2>2, <2>3 DEF new
  <1>4. m.tombs \subseteq Tombstone
    <2>1. \A t \in mem.tombs \cup out.tombs : t \in Tombstone
      BY DEF MemTyped, State, Outcome
    <2>2. out.exempt \in SUBSET (Member \X Nat)
      BY DEF Outcome
    <2> QED BY <1>1, <2>1, <2>2, ExemptedFields
  <1> HIDE DEF left
  <1>5. m.records \subseteq Entry /\ m.intents \subseteq Wish
    BY <1>1, <1>2, <1>3 DEF MemTyped
  <1>6. m \in State
    <2>1. m.records \subseteq Record /\ m.intents \subseteq Intent
      BY <1>5 DEF Entry, Wish
    <2>2. m = [intents |-> m.intents, records |-> m.records, tombs |-> m.tombs, deferred |-> mem.deferred,
               handled |-> mem.handled, granted |-> mem.granted, groups |-> mem.groups, epoch |-> mem.epoch]
      BY <1>1 DEF MemTyped, State, Written
    <2> QED BY <1>4, <2>1, <2>2 DEF MemTyped, State
  <1>7. \A rec \in m.records : ~rec.detached => <<rec.home, m.epoch[rec.home]>> \in asked
    BY <1>1, <1>2 DEF MemAsked
  <1>8. \A rec \in m.records : rec.status = "completed" /\ rec.branch = "interest" /\ ~rec.detached => rec.home \in m.groups
    <2>1. \A rec \in mem.records : rec.status = "completed" /\ rec.branch = "interest" /\ ~rec.detached => rec.home \in mem.groups
      BY DEF MemAsked, InterestReadyIsHeld
    <2>2. \A rec \in out.add : ~(Attributed(mem, epoch, rec).status = "completed" /\ Attributed(mem, epoch, rec).branch = "interest")
      BY <1>2
    <2> QED BY <1>1, <2>1, <2>2
  <1>9. \A i \in m.intents : <<i.home, i.epoch>> \in asked
    BY <1>1, <1>3
  <1> QED BY <1>1, <1>5, <1>6, <1>7, <1>8, <1>9

\* The store's typed fields after a step that leaves Seerr and what was asked alone.
LEMMA MemMoves ==
  ASSUME MemTyped, MemAsked, UNCHANGED <<seerr, asked>>, mem' \in State, mem'.records \subseteq Entry,
         mem'.intents \subseteq Wish,
         \A rec \in mem'.records : ~rec.detached => <<rec.home, mem'.epoch[rec.home]>> \in asked,
         \A i \in mem'.intents : <<i.home, i.epoch>> \in asked,
         \A rec \in mem'.records :
           rec.status = "completed" /\ rec.branch = "interest" /\ ~rec.detached => rec.home \in mem'.groups,
         mem'.deferred \subseteq Made, mem'.handled \subseteq Made, mem'.granted \subseteq mem'.handled,
         \A h \in mem'.groups : <<h, mem'.epoch[h]>> \in asked \/ \E r \in mem'.granted : h \in Homes[seerr[r].by]
  PROVE  MemTyped' /\ MemAsked'
  <1>1. Entry' = Entry /\ Wish' = Wish /\ Made' = Made
    BY DEF Entry, Wish, Made
  <1> QED BY <1>1 DEF MemTyped, MemAsked, InterestReadyIsHeld

\* Writing an outcome of a household that asked keeps the store's types and that those in it asked.
LEMMA WriteStepKeeps ==
  ASSUME MemTyped, MemAsked, UNCHANGED <<seerr, asked>>, NEW epoch \in Nat, NEW out \in Outcome,
         mem' = Written(mem, epoch, out),
         out.add \subseteq Entry, \A rec \in out.add : <<rec.home, epoch>> \in asked,
         \A rec \in out.add : rec.status = "pending" \/ rec.branch = "join"
  PROVE  MemTyped' /\ MemAsked'
  <1>1. PICK m : m = mem'
    OBVIOUS
  <1>2. /\ m \in State /\ m.records \subseteq Entry /\ m.intents \subseteq Wish
        /\ \A rec \in m.records : ~rec.detached => <<rec.home, m.epoch[rec.home]>> \in asked
        /\ \A i \in m.intents : <<i.home, i.epoch>> \in asked
        /\ \A rec \in m.records : rec.status = "completed" /\ rec.branch = "interest" /\ ~rec.detached => rec.home \in m.groups
        /\ m.deferred = mem.deferred /\ m.handled = mem.handled /\ m.granted = mem.granted
        /\ m.groups = mem.groups /\ m.epoch = mem.epoch
    BY <1>1, WrittenKeeps
  <1>3. /\ mem.deferred \subseteq Made /\ mem.handled \subseteq Made /\ mem.granted \subseteq mem.handled
        /\ \A h \in mem.groups : <<h, mem.epoch[h]>> \in asked \/ \E r \in mem.granted : h \in Homes[seerr[r].by]
    BY DEF MemTyped, MemAsked
  <1> QED BY <1>1, <1>2, <1>3, MemMoves

\* A member's tombstone names the requests given, and exempts the member's genuine ones.
LEMMA MemberTombstoneFields ==
  ASSUME SeerrTyped, MemTyped, NEW i \in Wish, NEW reqs \in SUBSET Made, NEW exempt \in SUBSET Made
  PROVE  /\ MemberTombstone(i, reqs, exempt) \in Tombstone
         /\ MemberTombstone(i, reqs, exempt).reqs = reqs /\ MemberTombstone(i, reqs, exempt).user = i.user
         /\ MemberTombstone(i, reqs, exempt).old = i.old
         /\ MemberTombstone(i, reqs, exempt).exempt = GenuineRequests(mem, i.user) \cup exempt
         /\ GenuineRequests(mem, i.user) \subseteq Made
  <1>1. Made \subseteq Nat
    BY MadeAreNumbers
  <1>2. GenuineRequests(mem, i.user) \subseteq Made
    BY DEF GenuineRequests, MemTyped, Entry
  <1>3. i.user \in Member /\ i.old \in SUBSET Nat
    BY DEF Wish, Intent
  <1> DEFINE spared == GenuineRequests(mem, i.user) \cup exempt
  <1>4. MemberTombstone(i, reqs, exempt) = [reqs |-> reqs, user |-> i.user, old |-> i.old, exempt |-> spared]
    BY DEF MemberTombstone
  <1>5. spared \in SUBSET Nat /\ reqs \in SUBSET Nat
    BY <1>1, <1>2
  <1> HIDE DEF spared
  <1> QED BY <1>2, <1>3, <1>4, <1>5 DEF Tombstone, spared

Retired(i, reqs) == [NoOutcome EXCEPT !.remove = {i.call}, !.tombs = {MemberTombstone(i, reqs, {})}]

\* Retiring an intent removes it and leaves a tombstone.
LEMMA RetiredFields ==
  ASSUME SeerrTyped, MemTyped, NEW i \in Wish, NEW reqs \in SUBSET Made
  PROVE  /\ Retired(i, reqs) \in Outcome /\ Retired(i, reqs).add = {} /\ Retired(i, reqs).remove = {i.call}
         /\ Retired(i, reqs).settle = {} /\ Retired(i, reqs).exempt = {}
         /\ Retired(i, reqs).tombs = {MemberTombstone(i, reqs, {})}
  <1> DEFINE tombs == {MemberTombstone(i, reqs, {})}
             remove == {i.call}
  <1>1. tombs \in SUBSET Tombstone
    <2> DEFINE none == {}
    <2>1. none \in SUBSET Made /\ tombs = {MemberTombstone(i, reqs, none)}
      OBVIOUS
    <2> HIDE DEF none, tombs
    <2>2. MemberTombstone(i, reqs, none) \in Tombstone
      BY <2>1, MemberTombstoneFields
    <2> QED BY <2>1, <2>2
  <1>2. remove \in SUBSET Nat
    BY DEF Wish, Intent
  <1>3. Retired(i, reqs) = [NoOutcome EXCEPT !.remove = remove, !.tombs = tombs]
    BY DEF Retired
  <1> HIDE DEF tombs, remove
  <1>4. /\ Retired(i, reqs) \in Outcome /\ Retired(i, reqs).add = {} /\ Retired(i, reqs).remove = remove
        /\ Retired(i, reqs).settle = {} /\ Retired(i, reqs).exempt = {}
        /\ Retired(i, reqs).tombs = tombs
    BY <1>1, <1>2, <1>3 DEF NoOutcome, Outcome
  <1> QED BY <1>4 DEF tombs, remove

\* The record the recovery makes: the request's own, unless Jellyfin has the title already.
LEMMA RecoveredAdds ==
  ASSUME NEW i, NEW r, NEW present
  PROVE  \A rec \in Recovered(i, r, present).add :
           rec.home = i.home /\ rec.user = i.user /\ rec.status = "pending" /\ rec.branch = "request" /\ rec.req = r
  <1> DEFINE rec == [home |-> i.home, user |-> i.user, branch |-> "request", status |-> "pending", req |-> r,
                     rule |-> present, awaiting |-> FALSE, detached |-> FALSE]
             add == {rec}
  <1>1. \A x \in add : x.home = i.home /\ x.user = i.user /\ x.status = "pending" /\ x.branch = "request" /\ x.req = r
    OBVIOUS
  <1>2. Recovered(i, r, present) = [NoOutcome EXCEPT !.add = add, !.remove = {i.call},
                        !.tombs = {MemberTombstone(i, IF present THEN {r} ELSE {}, IF present THEN {} ELSE {r})}]
    BY DEF Recovered
  <1> HIDE DEF add
  <1>3. Recovered(i, r, present).add = add
    BY <1>2 DEF NoOutcome
  <1> QED BY <1>1, <1>3

\* Recovering an intent's request removes the intent, leaves a tombstone and may add a record.
LEMMA RecoveredFields ==
  ASSUME SeerrTyped, MemTyped, NEW i \in Wish, NEW r \in Made, NEW present \in BOOLEAN
  PROVE  /\ Recovered(i, r, present) \in Outcome
         /\ Recovered(i, r, present).remove = {i.call}
         /\ Recovered(i, r, present).settle = {} /\ Recovered(i, r, present).exempt = {}
         /\ Recovered(i, r, present).tombs =
              {MemberTombstone(i, IF present THEN {r} ELSE {}, IF present THEN {} ELSE {r})}
         /\ Recovered(i, r, present).add \subseteq Entry
         /\ \A rec \in Recovered(i, r, present).add :
              /\ rec.home = i.home /\ rec.user = i.user /\ rec.status = "pending" /\ rec.branch = "request" /\ rec.req = r
              /\ present => rec.rule
         /\ Recovered(i, r, present).add # {}
  <1> DEFINE rec == [home |-> i.home, user |-> i.user, branch |-> "request", status |-> "pending", req |-> r,
                     rule |-> present, awaiting |-> FALSE, detached |-> FALSE]
             tombs == {MemberTombstone(i, IF present THEN {r} ELSE {}, IF present THEN {} ELSE {r})}
             remove == {i.call}
             add == {rec}
  <1>1. r \in Nat /\ i.home \in Household /\ i.user \in Member /\ i.home \in Homes[i.user] /\ i.call \in Nat
    BY MadeAreNumbers DEF Wish, Intent
  <1>2. rec \in Entry
    BY <1>1 DEF Entry, Record
  <1>3. tombs \in SUBSET Tombstone
    <2> DEFINE named == IF present THEN {r} ELSE {}
               spared == IF present THEN {} ELSE {r}
    <2>1. named \in SUBSET Made /\ spared \in SUBSET Made /\ tombs = {MemberTombstone(i, named, spared)}
      OBVIOUS
    <2> HIDE DEF named, spared, tombs
    <2>2. MemberTombstone(i, named, spared) \in Tombstone
      BY <2>1, MemberTombstoneFields
    <2> QED BY <2>1, <2>2
  <1>4. Recovered(i, r, present) = [NoOutcome EXCEPT !.add = add, !.remove = remove, !.tombs = tombs]
    BY DEF Recovered
  <1>5. add \in SUBSET Record /\ add \subseteq Entry /\ remove \in SUBSET Nat
    BY <1>1, <1>2 DEF Entry
  <1>6. \A x \in add : /\ x.home = i.home /\ x.user = i.user /\ x.status = "pending" /\ x.branch = "request" /\ x.req = r
                       /\ present => x.rule
    OBVIOUS
  <1>7. add # {}
    OBVIOUS
  <1> HIDE DEF tombs, remove, add
  <1>8. /\ Recovered(i, r, present) \in Outcome /\ Recovered(i, r, present).add = add
        /\ Recovered(i, r, present).remove = remove /\ Recovered(i, r, present).settle = {}
        /\ Recovered(i, r, present).exempt = {} /\ Recovered(i, r, present).tombs = tombs
    BY <1>3, <1>4, <1>5 DEF NoOutcome, Outcome
  <1> QED BY <1>5, <1>6, <1>7, <1>8 DEF tombs, remove

ResettledAs(i, follow) ==
  [NoOutcome EXCEPT !.remove = {i.call}, !.tombs = IF follow THEN {TombstoneFor({i.req})} ELSE {},
                    !.exempt = IF follow THEN {} ELSE {<<i.user, i.req>>}]

\* Settling an intent late removes it, and leaves a tombstone or exempts its request.
LEMMA ResettledFields ==
  ASSUME SeerrTyped, MemTyped, MemAsked, NEW i \in Wish, NEW follow \in BOOLEAN
  PROVE  /\ ResettledAs(i, follow) \in Outcome
         /\ ResettledAs(i, follow).add = {} /\ ResettledAs(i, follow).remove = {i.call}
         /\ ResettledAs(i, follow).settle = {}
         /\ ResettledAs(i, follow).tombs = IF follow THEN {TombstoneFor({i.req})} ELSE {}
         /\ ResettledAs(i, follow).exempt = IF follow THEN {} ELSE {<<i.user, i.req>>}
         /\ LET w == Written(mem, 0, ResettledAs(i, follow))
                m == Resettled(mem, i, follow)
            IN  /\ m \in State /\ m.intents = w.intents /\ m.tombs = w.tombs /\ m.deferred = mem.deferred
                /\ m.handled = mem.handled /\ m.granted = mem.granted /\ m.groups = mem.groups /\ m.epoch = mem.epoch
                /\ m.intents \subseteq Wish /\ \A j \in m.intents : <<j.home, j.epoch>> \in asked
                /\ m.records \subseteq Entry
                /\ m.records = {IF follow /\ rec.branch = "request" /\ rec.req = i.req
                                THEN [rec EXCEPT !.rule = TRUE] ELSE rec : rec \in mem.records}
  <1> DEFINE out == ResettledAs(i, follow)
             w == Written(mem, 0, out)
             ruled(rec) == rec.branch = "request" /\ rec.req = i.req
             changed(rec) == IF follow /\ ruled(rec) THEN [rec EXCEPT !.rule = TRUE] ELSE rec
             records == {changed(rec) : rec \in mem.records}
  <1>1. /\ out \in Outcome /\ out.add = {} /\ out.remove = {i.call} /\ out.settle = {}
        /\ out.tombs = IF follow THEN {TombstoneFor({i.req})} ELSE {}
        /\ out.exempt = IF follow THEN {} ELSE {<<i.user, i.req>>}
    <2> DEFINE remove == {i.call}
               tombs == IF follow THEN {TombstoneFor({i.req})} ELSE {}
               exempt == IF follow THEN {} ELSE {<<i.user, i.req>>}
    <2>1. i.call \in Nat /\ i.req \in Nat /\ i.user \in Member
      BY DEF Wish, Intent
    <2>2. TombstoneFor({i.req}) \in Tombstone
      BY <2>1 DEF TombstoneFor, Tombstone
    <2>3. remove \in SUBSET Nat /\ tombs \in SUBSET Tombstone /\ exempt \in SUBSET (Member \X Nat)
      BY <2>1, <2>2
    <2>4. out = [NoOutcome EXCEPT !.remove = remove, !.tombs = tombs, !.exempt = exempt]
      BY DEF ResettledAs
    <2> HIDE DEF remove, tombs, exempt, out
    <2>5. /\ out \in Outcome /\ out.add = {} /\ out.remove = remove /\ out.settle = {} /\ out.tombs = tombs
          /\ out.exempt = exempt
      BY <2>3, <2>4 DEF NoOutcome, Outcome
    <2> QED BY <2>5 DEF remove, tombs, exempt
  <1>2. Resettled(mem, i, follow) = [w EXCEPT !.records = {changed(rec) : rec \in @}]
    BY DEF Resettled, ResettledAs
  <1> HIDE DEF out
  <1>3. /\ w \in State /\ w.intents \subseteq Wish /\ \A j \in w.intents : <<j.home, j.epoch>> \in asked
        /\ w.deferred = mem.deferred /\ w.handled = mem.handled /\ w.granted = mem.granted
        /\ w.groups = mem.groups /\ w.epoch = mem.epoch
    BY <1>1, WrittenKeeps
  <1>4. w.records = mem.records
    <2>1. w.records = mem.records \cup {Attributed(mem, 0, rec) : rec \in out.add}
      BY <1>1, WrittenFields DEF MemTyped
    <2> HIDE DEF w
    <2> QED BY <1>1, <2>1
  <1>5. \A rec \in mem.records :
          LET new == changed(rec)
          IN  /\ new \in Entry /\ new.home = rec.home /\ new.user = rec.user /\ new.branch = rec.branch
              /\ new.req = rec.req /\ new.detached = rec.detached /\ new.status = rec.status
              /\ ~new.rule => ~rec.rule
              /\ rec.rule => new.rule
    <2> SUFFICES ASSUME NEW rec \in mem.records
                 PROVE  LET new == changed(rec)
                        IN  /\ new \in Entry /\ new.home = rec.home /\ new.user = rec.user /\ new.branch = rec.branch
                            /\ new.req = rec.req /\ new.detached = rec.detached /\ new.status = rec.status
                            /\ ~new.rule => ~rec.rule
                            /\ rec.rule => new.rule
      OBVIOUS
    <2>1. rec \in Entry
      BY DEF MemTyped
    <2>2. LET new == [rec EXCEPT !.rule = TRUE]
          IN  /\ new \in Entry /\ new.home = rec.home /\ new.user = rec.user /\ new.branch = rec.branch
              /\ new.req = rec.req /\ new.detached = rec.detached /\ new.status = rec.status
              /\ new.rule
      BY <2>1 DEF Entry, Record
    <2> QED BY <2>1, <2>2
  <1>6. records \subseteq Entry /\ records \subseteq Record
    <2>1. \A rec \in mem.records : changed(rec) \in Entry
      BY <1>5
    <2> HIDE DEF changed
    <2>2. records \subseteq Entry
      BY <2>1
    <2> HIDE DEF records
    <2> QED BY <2>2 DEF Entry
  <1>8. Resettled(mem, i, follow) = [w EXCEPT !.records = records]
    BY <1>2, <1>4
  <1> HIDE DEF w, records
  <1>9. LET m == Resettled(mem, i, follow)
        IN  /\ m \in State /\ m.records = records /\ m.intents = w.intents /\ m.tombs = w.tombs /\ m.deferred = w.deferred
            /\ m.handled = w.handled /\ m.granted = w.granted /\ m.groups = w.groups /\ m.epoch = w.epoch
    BY <1>3, <1>6, <1>8 DEF State
  <1> QED BY <1>1, <1>3, <1>6, <1>9 DEF w, out, records

\* Its records are those there were, some of them ruled by the join rules now.
LEMMA ResettledRecords ==
  ASSUME SeerrTyped, MemTyped, MemAsked, NEW i \in Wish, NEW follow \in BOOLEAN
  PROVE  /\ \A new \in Resettled(mem, i, follow).records : \E rec \in mem.records :
              /\ new.home = rec.home /\ new.user = rec.user /\ new.branch = rec.branch
              /\ new.req = rec.req /\ new.detached = rec.detached /\ new.status = rec.status
              /\ rec.rule => new.rule
         /\ \A rec \in mem.records : \E new \in Resettled(mem, i, follow).records :
              /\ new.branch = rec.branch /\ new.req = rec.req
              /\ rec.rule => new.rule
  <1> DEFINE changed(rec) == IF follow /\ rec.branch = "request" /\ rec.req = i.req THEN [rec EXCEPT !.rule = TRUE] ELSE rec
  <1>1. Resettled(mem, i, follow).records = {changed(rec) : rec \in mem.records}
    <2>1. Resettled(mem, i, follow).records
            = {IF follow /\ rec.branch = "request" /\ rec.req = i.req THEN [rec EXCEPT !.rule = TRUE] ELSE rec : rec \in mem.records}
      BY ResettledFields
    <2> QED BY <2>1
  <1>2. \A rec \in mem.records :
          LET new == changed(rec)
          IN  /\ new.home = rec.home /\ new.user = rec.user /\ new.branch = rec.branch
              /\ new.req = rec.req /\ new.detached = rec.detached /\ new.status = rec.status
              /\ rec.rule => new.rule
    <2> SUFFICES ASSUME NEW rec \in mem.records
                 PROVE  LET new == changed(rec)
                        IN  /\ new.home = rec.home /\ new.user = rec.user /\ new.branch = rec.branch
                            /\ new.req = rec.req /\ new.detached = rec.detached /\ new.status = rec.status
                            /\ rec.rule => new.rule
      OBVIOUS
    <2>1. rec \in Record
      BY DEF MemTyped, State
    <2>2. LET new == [rec EXCEPT !.rule = TRUE]
          IN  /\ new.home = rec.home /\ new.user = rec.user /\ new.branch = rec.branch
              /\ new.req = rec.req /\ new.detached = rec.detached /\ new.status = rec.status
              /\ new.rule
      BY <2>1 DEF Record
    <2> QED BY <2>1, <2>2
  <1> HIDE DEF changed
  <1> QED BY <1>1, <1>2

\* A record the refresh completes is the same record, and one that follows another's request is on the
\* grant.
LEMMA NowIsFields ==
  ASSUME NEW rec \in Entry, rec.status = "pending"
  PROVE  /\ NowIs(rec) \in Entry /\ NowIs(rec).home = rec.home /\ NowIs(rec).user = rec.user
         /\ NowIs(rec).branch = rec.branch /\ NowIs(rec).req = rec.req /\ NowIs(rec).rule = rec.rule
         /\ NowIs(rec).detached = rec.detached
         /\ NowIs(rec).status = "completed" /\ ~MadeByItsRequest(rec) => ~rec.detached /\ mem.granted # {}
  <1> DEFINE joined == [rec EXCEPT !.status = "completed", !.awaiting = FALSE]
             waiting == [rec EXCEPT !.awaiting = TRUE]
             declined == [rec EXCEPT !.status = "declined"]
             completed == [rec EXCEPT !.status = "completed"]
             Same(x) == /\ x \in Entry /\ x.home = rec.home /\ x.user = rec.user /\ x.branch = rec.branch
                        /\ x.req = rec.req /\ x.rule = rec.rule /\ x.detached = rec.detached
             joins == ~rec.detached /\ here /\ mem.granted # {}
  <1>1. Same(joined) /\ Same(waiting) /\ Same(declined) /\ Same(completed) /\ Same(rec)
    BY DEF Entry, Record
  <1>2. waiting.status = "pending" /\ declined.status = "declined"
    BY DEF Entry, Record
  <1>3. \/ NowIs(rec) = joined /\ joins
        \/ NowIs(rec) \in {waiting, declined, rec}
        \/ NowIs(rec) = completed /\ MadeByItsRequest(rec)
    BY DEF NowIs
  <1> HIDE DEF joined, waiting, declined, completed
  <1> QED BY <1>1, <1>2, <1>3

\* A record as it was read, and what it became: the household joins only if the record still waits.
LEMMA RefreshRecordFields ==
  ASSUME MemTyped, RefreshTyped, RefreshAsked, NEW f \in Refresher, NEW rec \in refresh[f].records, RefreshRecord(f, rec)
  PROVE  /\ UNCHANGED <<unsaved, here, seerr, lapsed, flying, call, queue, asked, spent>>
         /\ rec \in Entry /\ rec.status = "pending"
         /\ \/ UNCHANGED mem
            \/ \E m \in State :
                 /\ mem' = m
                 /\ m.intents = mem.intents /\ m.tombs = mem.tombs /\ m.deferred = mem.deferred
                 /\ m.handled = mem.handled /\ m.granted = mem.granted /\ m.epoch = mem.epoch
                 /\ mem.groups \subseteq m.groups
                 /\ \A h \in m.groups : h \in mem.groups \/ \E x \in mem.records : x.home = h /\ ~x.detached
                 /\ \/ m.records = mem.records
                    \/ /\ rec \in mem.records /\ m.records = (mem.records \ {rec}) \cup {NowIs(rec)}
                       /\ NowIs(rec).status = "completed" /\ ~MadeByItsRequest(rec) => rec.home \in m.groups
  <1> DEFINE now == NowIs(rec)
             joins == now.status = "completed" /\ ~MadeByItsRequest(rec)
             joined == IF joins /\ Still(rec) # {} THEN Joined(mem, {rec.home}) ELSE mem
             updated == [joined EXCEPT !.records = (@ \ {rec}) \cup {now}]
  <1>1. UNCHANGED <<unsaved, here, seerr, lapsed, flying, call, queue, asked, spent>>
    BY DEF RefreshRecord, world, bounds, history
  <1>2. rec \in Entry /\ rec.status = "pending" /\ rec \in Record /\ mem \in State
    BY DEF RefreshTyped, RefreshAsked, Entry, MemTyped
  <1>3. \/ UNCHANGED mem
        \/ mem' = joined
        \/ mem' = updated /\ rec \in mem.records
    BY DEF RefreshRecord
  <1>4. /\ now \in Entry /\ now \in Record
        /\ joins => ~rec.detached /\ mem.granted # {}
    BY <1>2, NowIsFields DEF Entry
  <1>5. \A x \in Still(rec) : x \in mem.records /\ x.home = rec.home /\ x.detached = rec.detached
    BY <1>2 DEF Still, Record
  <1>6. rec \in mem.records => rec \in Still(rec)
    BY <1>2 DEF Still, Record
  <1> DEFINE homes == {rec.home}
  <1>7. homes \in SUBSET Household
    BY <1>2 DEF Record
  <1> HIDE DEF now
  <1>8. /\ joined \in State
        /\ joined.intents = mem.intents /\ joined.tombs = mem.tombs /\ joined.deferred = mem.deferred
        /\ joined.handled = mem.handled /\ joined.granted = mem.granted /\ joined.epoch = mem.epoch
        /\ joined.records = mem.records
        /\ joined.groups = IF joins /\ Still(rec) # {} THEN mem.groups \cup {rec.home} ELSE mem.groups
    <2>1. CASE joins /\ Still(rec) # {}
      <3>1. joined = Joined(mem, homes)
        BY <2>1
      <3> HIDE DEF homes, joined
      <3>2. /\ joined \in State
            /\ joined.intents = mem.intents /\ joined.tombs = mem.tombs /\ joined.deferred = mem.deferred
            /\ joined.handled = mem.handled /\ joined.granted = mem.granted /\ joined.epoch = mem.epoch
            /\ joined.records = mem.records
            /\ joined.groups = mem.groups \cup homes
        BY <1>2, <1>4, <1>7, <2>1, <3>1, JoinedFields
      <3> QED BY <2>1, <3>2 DEF homes
    <2>2. CASE ~(joins /\ Still(rec) # {})
      BY <1>2, <2>2
    <2> QED BY <2>1, <2>2
  <1> HIDE DEF joined, homes
  <1>9. \A h \in joined.groups : h \in mem.groups \/ \E x \in mem.records : x.home = h /\ ~x.detached
    BY <1>4, <1>5, <1>8
  <1>10. CASE mem' = joined
    <2>1. mem' \in State /\ mem'.records = mem.records /\ mem.groups \subseteq mem'.groups
      BY <1>8, <1>10
    <2> QED BY <1>1, <1>2, <1>8, <1>9, <1>10, <2>1
  <1>11. CASE mem' = updated /\ rec \in mem.records
    <2> DEFINE records == (mem.records \ {rec}) \cup {now}
    <2>1. records \in SUBSET Record
      BY <1>2, <1>4 DEF State
    <2>2. updated = [joined EXCEPT !.records = records]
      BY <1>8
    <2> HIDE DEF records, updated
    <2>3. /\ updated \in State /\ updated.records = records
          /\ updated.intents = mem.intents /\ updated.tombs = mem.tombs /\ updated.deferred = mem.deferred
          /\ updated.handled = mem.handled /\ updated.granted = mem.granted /\ updated.epoch = mem.epoch
          /\ updated.groups = joined.groups
      BY <1>8, <2>1, <2>2 DEF State
    <2>4. mem.groups \subseteq updated.groups /\ (joins => rec.home \in updated.groups)
      BY <1>6, <1>8, <1>11, <2>3
    <2> QED BY <1>1, <1>2, <1>9, <1>11, <2>3, <2>4 DEF records, now
  <1> QED BY <1>1, <1>2, <1>3, <1>10, <1>11

\* Every step keeps the store's types, and that those in it asked.
LEMMA MemKept ==
  ASSUME AskInv, [Next]_vars
  PROVE  MemTyped' /\ MemAsked'
  <1>1. Grows /\ SeerrTyped /\ MemTyped /\ CallTyped /\ QueueTyped /\ RefreshTyped /\ MemAsked /\ CallAsked /\ RefreshAsked
    BY SeerrStep DEF AskInv, TypeInv
  <1>2. /\ mem \in State /\ mem.records \subseteq Entry /\ mem.intents \subseteq Wish
        /\ mem.deferred \subseteq Made /\ mem.handled \subseteq Made /\ mem.granted \subseteq mem.handled
        /\ \A rec \in mem.records : ~rec.detached => <<rec.home, mem.epoch[rec.home]>> \in asked
        /\ \A i \in mem.intents : <<i.home, i.epoch>> \in asked
        /\ \A h \in mem.groups : <<h, mem.epoch[h]>> \in asked \/ \E r \in mem.granted : h \in Homes[seerr[r].by]
        /\ \A rec \in mem.records : rec.status = "completed" /\ rec.branch = "interest" /\ ~rec.detached => rec.home \in mem.groups
    BY <1>1 DEF MemTyped, MemAsked, InterestReadyIsHeld
  <1>3. CASE UNCHANGED mem
    BY <1>1, <1>3, MemStays
  <1>4. CASE DecideRequest
    <2> DEFINE i == [call |-> call.call, user |-> call.user, home |-> call.home, epoch |-> call.epoch, old |-> 1..lapsed',
                     status |-> "submitting", req |-> NoRequest]
               intents == mem.intents \cup {i}
    <2>1. UNCHANGED <<seerr, asked>> /\ lapsed' \in lapsed..Len(seerr) /\ mem' = [mem EXCEPT !.intents = intents]
      BY <1>4 DEF DecideRequest, history
    <2>2. i \in Wish
      <3>1. call.call \in 1..MaxCalls /\ call.user \in Member /\ call.home \in Homes[call.user] /\ call.epoch \in Nat
            /\ call.home \in Household
        BY <1>1, <1>4, HomesAssumption DEF DecideRequest, CallTyped
      <3>2. 1..lapsed' \subseteq Made /\ 1..lapsed' \subseteq Nat
        <4>1. Made = 1..Len(seerr) /\ Len(seerr) \in Nat /\ lapsed \in 0..Len(seerr)
          BY <1>1, LenProperties DEF SeerrTyped, Made
        <4> QED BY <2>1, <4>1
      <3> DEFINE old == 1..lapsed'
      <3>3. old \subseteq Made /\ old \in SUBSET Nat
        BY <3>2
      <3>4. i = [call |-> call.call, user |-> call.user, home |-> call.home, epoch |-> call.epoch, old |-> old,
                 status |-> "submitting", req |-> 0]
        BY DEF NoRequest
      <3>5. call.call \in Nat /\ 0 \in Nat
        BY <3>1
      <3> HIDE DEF i, old
      <3>6. i \in Intent /\ i.call = call.call /\ i.home = call.home /\ i.user = call.user /\ i.old = old
        BY <3>1, <3>3, <3>4, <3>5 DEF Intent
      <3> QED BY <3>1, <3>3, <3>6 DEF Wish
    <2>3. <<i.home, i.epoch>> \in asked
      BY <1>1, <1>4 DEF DecideRequest, CallAsked
    <2> HIDE DEF i
    <2>4. intents \subseteq Wish /\ intents \in SUBSET Intent /\ \A j \in intents : <<j.home, j.epoch>> \in asked
      BY <1>2, <2>2, <2>3 DEF Wish
    <2> HIDE DEF intents
    <2>5. /\ mem' \in State /\ mem'.intents = intents /\ mem'.records = mem.records /\ mem'.deferred = mem.deferred
          /\ mem'.handled = mem.handled /\ mem'.granted = mem.granted /\ mem'.groups = mem.groups /\ mem'.epoch = mem.epoch
      BY <1>2, <2>1, <2>4 DEF State
    <2> QED BY <1>1, <1>2, <2>1, <2>4, <2>5, MemMoves
  <1>5. CASE Join
    <2> DEFINE homes == {call.home}
    <2>1. UNCHANGED <<seerr, asked>>
          /\ (UNCHANGED mem \/ (mem.epoch[call.home] = call.epoch /\ mem' = Joined(mem, homes)))
      BY <1>5 DEF Join, world, history
    <2>2. <<call.home, call.epoch>> \in asked /\ homes \in SUBSET Household
      BY <1>1, <1>5, HomesAssumption DEF Join, CallAsked, CallTyped
    <2>3. ASSUME mem' = Joined(mem, homes), mem.epoch[call.home] = call.epoch PROVE MemTyped' /\ MemAsked'
      <3>1. \A h \in homes : h = call.home
        OBVIOUS
      <3> HIDE DEF homes
      <3>2. /\ mem' \in State /\ mem'.records = mem.records /\ mem'.intents = mem.intents
            /\ mem'.deferred = mem.deferred /\ mem'.handled = mem.handled /\ mem'.granted = mem.granted
            /\ mem'.epoch = mem.epoch
            /\ mem'.groups = IF mem.granted = {} THEN mem.groups ELSE mem.groups \cup homes
        BY <1>2, <2>2, <2>3, JoinedFields
      <3> QED BY <1>1, <1>2, <2>1, <2>2, <2>3, <3>1, <3>2, MemMoves
    <2> QED BY <1>3, <2>1, <2>3
  <1>6. CASE WriteOutcome
    <2>1. UNCHANGED <<seerr, asked>> /\ mem' = Written(mem, call.epoch, call.out) /\ call.pc = "write"
      BY <1>6 DEF WriteOutcome, world, history
    <2>2. /\ call.epoch \in Nat /\ call.out \in Outcome /\ call.out.add \subseteq Entry
          /\ \A rec \in call.out.add : /\ <<rec.home, call.epoch>> \in asked
                                       /\ rec.status = "pending" \/ rec.branch = "join"
      BY <1>1, <2>1 DEF CallTyped, CallAsked
    <2> QED BY <1>1, <2>1, <2>2, WriteStepKeeps
  <1>7. CASE Crash
    <2> DEFINE intents == {i \in mem.intents : i.call \notin unsaved}
    <2>1. UNCHANGED <<seerr, asked>> /\ mem' = [mem EXCEPT !.intents = intents]
      BY <1>7 DEF Crash, OnDisk, world, history
    <2>2. intents \subseteq mem.intents /\ intents \in SUBSET Intent
      BY <1>2 DEF State
    <2> HIDE DEF intents
    <2>3. /\ mem' \in State /\ mem'.intents = intents /\ mem'.records = mem.records /\ mem'.deferred = mem.deferred
          /\ mem'.handled = mem.handled /\ mem'.granted = mem.granted /\ mem'.groups = mem.groups /\ mem'.epoch = mem.epoch
      BY <1>2, <2>1, <2>2 DEF State
    <2> QED BY <1>1, <1>2, <2>1, <2>2, <2>3, MemMoves
  <1>8. ASSUME NEW h \in Household, Replace(h) PROVE MemTyped' /\ MemAsked'
    <2>1. UNCHANGED <<seerr, asked>> /\ mem' = Replaced(mem, h)
      BY <1>8 DEF Replace, world, history
    <2> DEFINE gone(rec) == IF rec.home = h THEN [rec EXCEPT !.detached = TRUE] ELSE rec
    <2>2. /\ mem' \in State /\ mem'.epoch = [mem.epoch EXCEPT ![h] = @ + 1]
          /\ mem'.groups = mem.groups \ {h} /\ mem'.records = {gone(rec) : rec \in mem.records}
          /\ mem'.intents = mem.intents /\ mem'.deferred = mem.deferred /\ mem'.handled = mem.handled
          /\ mem'.granted = mem.granted
      BY <1>2, <2>1, ReplacedFields
    <2>3. \A rec \in mem.records : /\ gone(rec) \in Entry /\ gone(rec).home = rec.home /\ gone(rec).status = rec.status
                                   /\ gone(rec).branch = rec.branch
                                   /\ ~gone(rec).detached => rec.home # h /\ ~rec.detached
      BY <1>2 DEF Entry, Record
    <2>4. \A g \in Household : g # h => mem'.epoch[g] = mem.epoch[g]
      BY <1>2, <2>2 DEF State
    <2>5. \A rec \in mem.records : rec.home \in Household
      BY <1>2 DEF Entry, Record
    <2> HIDE DEF gone
    <2>6. mem'.records \subseteq Entry
      BY <2>2, <2>3
    <2>7. \A rec \in mem'.records : ~rec.detached => <<rec.home, mem'.epoch[rec.home]>> \in asked
      BY <1>2, <2>2, <2>3, <2>4, <2>5
    <2>8. \A rec \in mem'.records :
            rec.status = "completed" /\ rec.branch = "interest" /\ ~rec.detached => rec.home \in mem'.groups
      BY <1>2, <2>2, <2>3
    <2>9. \A g \in mem'.groups : <<g, mem'.epoch[g]>> \in asked \/ \E r \in mem'.granted : g \in Homes[seerr[r].by]
      BY <1>2, <2>2, <2>4 DEF State
    <2> QED BY <1>1, <1>2, <2>1, <2>2, <2>6, <2>7, <2>8, <2>9, MemMoves
  <1>9. ASSUME NEW r \in Made, UNCHANGED <<seerr, asked>>, mem' = [mem EXCEPT !.deferred = @ \cup {r}]
        PROVE  MemTyped' /\ MemAsked'
    <2> DEFINE deferred == mem.deferred \cup {r}
    <2>1. deferred \subseteq Made /\ deferred \in SUBSET Nat
      BY <1>1, <1>2, MadeAreNumbers
    <2>2. mem' = [mem EXCEPT !.deferred = deferred]
      BY <1>9
    <2> HIDE DEF deferred
    <2>3. /\ mem' \in State /\ mem'.intents = mem.intents /\ mem'.records = mem.records /\ mem'.deferred = deferred
          /\ mem'.handled = mem.handled /\ mem'.granted = mem.granted /\ mem'.groups = mem.groups /\ mem'.epoch = mem.epoch
      BY <1>2, <2>1, <2>2 DEF State
    <2> QED BY <1>1, <1>2, <1>9, <2>1, <2>3, MemMoves
  <1>10. ASSUME NEW r \in queue.todo, Rule(r) PROVE MemTyped' /\ MemAsked'
    <2>1. UNCHANGED asked
      BY <1>10 DEF Rule, history
    <2>2. r \in Made /\ UNCHANGED seerr /\ (UNCHANGED mem \/ mem' = [mem EXCEPT !.deferred = @ \cup {r}])
      BY <1>1, <1>10, RuleFields, RuledFields
    <2> QED BY <1>3, <1>9, <2>1, <2>2
  <1>11. CASE RequestRead
    <2>1. UNCHANGED asked
      BY <1>11 DEF RequestRead
    <2>2. queue.req \in Made /\ UNCHANGED seerr /\ (UNCHANGED mem \/ mem' = [mem EXCEPT !.deferred = @ \cup {queue.req}])
      BY <1>1, <1>11, RequestReadFields, RuledFields
    <2> QED BY <1>3, <1>9, <2>1, <2>2
  <1>12. CASE Act
    <2> DEFINE r == queue.req
               homes == Homes[seerr[r].by]
    <2>1. /\ UNCHANGED <<seerr, asked>> /\ r \in Made
          /\ UNCHANGED mem \/ mem' = Handled(mem, r) \/ mem' = GrantedTo(mem, r, homes)
      BY <1>1, <1>12 DEF Act, QueueTyped, world, history
    <2>2. r \in Nat /\ seerr[r].by \in Member /\ homes \in SUBSET Household
      <3>1. seerr[r] \in SeerrRequest /\ r \in Nat
        BY <1>1, <2>1, LenProperties, ElementOfSeq DEF SeerrTyped, Made
      <3> QED BY <3>1, HomesAssumption DEF SeerrRequest
    <2> HIDE DEF r
    <2>3. ASSUME mem' = Handled(mem, r) PROVE MemTyped' /\ MemAsked'
      <3>1. /\ mem' \in State /\ mem'.intents = mem.intents /\ mem'.records = mem.records /\ mem'.deferred = mem.deferred
            /\ mem'.handled = mem.handled \cup {r} /\ mem'.granted = mem.granted /\ mem'.groups = mem.groups
            /\ mem'.epoch = mem.epoch
        BY <1>2, <2>2, <2>3 DEF Handled, State
      <3> QED BY <1>1, <1>2, <2>1, <3>1, MemMoves
    <2>4. ASSUME mem' = GrantedTo(mem, r, homes) PROVE MemTyped' /\ MemAsked'
      <3>1. /\ mem' \in State /\ mem'.intents = mem.intents /\ mem'.records = mem.records /\ mem'.deferred = mem.deferred
            /\ mem'.handled = mem.handled \cup {r} /\ mem'.granted = mem.granted \cup {r}
            /\ mem'.groups = mem.groups \cup homes /\ mem'.epoch = mem.epoch
        <4> HIDE DEF homes
        <4> QED BY <1>2, <2>2, <2>4 DEF GrantedTo, State
      <3> QED BY <1>1, <1>2, <2>1, <3>1, MemMoves
    <2> QED BY <1>3, <2>1, <2>3, <2>4
  <1>13. CASE SettleRecords
    <2>1. UNCHANGED <<seerr, asked>> /\ (UNCHANGED mem \/ mem' = RecordsSettled(mem, queue.req))
      BY <1>13 DEF SettleRecords, world, history
    <2>2. ASSUME mem' = RecordsSettled(mem, queue.req) PROVE MemTyped' /\ MemAsked'
      <3>1. PICK m : m = mem'
        OBVIOUS
      <3>2. /\ m \in State
            /\ m.intents = mem.intents /\ m.deferred = mem.deferred /\ m.handled = mem.handled
            /\ m.granted = mem.granted /\ m.epoch = mem.epoch
            /\ \A h \in m.groups : h \in mem.groups \/ \E rec \in mem.records : rec.home = h /\ ~rec.detached
            /\ mem.groups \subseteq m.groups
            /\ \A new \in m.records : \E rec \in mem.records :
                 /\ new.home = rec.home /\ new.user = rec.user /\ new.branch = rec.branch
                 /\ new.req = rec.req /\ new.rule = rec.rule /\ new.detached = rec.detached
                 /\ new.status = "completed" /\ new.branch = "interest" => new.home \in m.groups \/ rec.status = "completed"
        BY <1>2, <2>2, <3>1, RecordsSettledFields
      <3>3. m.records \subseteq Entry
        BY <1>2, <3>2 DEF Entry, State
      <3>4. \A rec \in m.records : ~rec.detached => <<rec.home, m.epoch[rec.home]>> \in asked
        BY <1>2, <3>2
      <3>5. \A rec \in m.records : rec.status = "completed" /\ rec.branch = "interest" /\ ~rec.detached => rec.home \in m.groups
        BY <1>2, <3>2
      <3>6. \A h \in m.groups : <<h, m.epoch[h]>> \in asked \/ \E r \in m.granted : h \in Homes[seerr[r].by]
        BY <1>2, <3>2
      <3> QED BY <1>1, <1>2, <2>1, <3>1, <3>2, <3>3, <3>4, <3>5, <3>6, MemMoves
    <2> QED BY <1>3, <2>1, <2>2
  <1>14. CASE JobDone
    <2> DEFINE deferred == mem.deferred \ queue.done
    <2>1. UNCHANGED <<seerr, asked>> /\ (UNCHANGED mem \/ mem' = [mem EXCEPT !.deferred = deferred])
      BY <1>14 DEF JobDone, world, history
    <2>2. deferred \subseteq Made /\ deferred \in SUBSET Nat
      BY <1>1, <1>2, MadeAreNumbers
    <2> HIDE DEF deferred
    <2>3. ASSUME mem' = [mem EXCEPT !.deferred = deferred] PROVE MemTyped' /\ MemAsked'
      <3>1. /\ mem' \in State /\ mem'.intents = mem.intents /\ mem'.records = mem.records /\ mem'.deferred = deferred
            /\ mem'.handled = mem.handled /\ mem'.granted = mem.granted /\ mem'.groups = mem.groups /\ mem'.epoch = mem.epoch
        BY <1>2, <2>2, <2>3 DEF State
      <3> QED BY <1>1, <1>2, <2>1, <2>2, <3>1, MemMoves
    <2> QED BY <1>3, <2>1, <2>3
  <1>15. ASSUME NEW i \in Wish, NEW reqs \in SUBSET Made, NEW f, Retire(f, i, reqs), UNCHANGED <<seerr, asked>>
         PROVE  MemTyped' /\ MemAsked'
    <2>1. mem' = Written(mem, 0, Retired(i, reqs))
      BY <1>15 DEF Retire, Retired
    <2>2. Retired(i, reqs) \in Outcome /\ Retired(i, reqs).add = {}
      BY <1>1, <1>15, RetiredFields
    <2> QED BY <1>1, <1>15, <2>1, <2>2, WriteStepKeeps
  <1>16. ASSUME NEW f \in Refresher, NEW i \in refresh[f].intents, RefreshIntent(f, i) PROVE MemTyped' /\ MemAsked'
    <2>1. i \in Wish
      BY <1>1 DEF RefreshTyped
    <2>2. /\ UNCHANGED <<seerr, asked>>
          /\ UNCHANGED mem \/ \E reqs \in SUBSET Candidates(i) : Retire(f, i, reqs)
      BY <1>1, <1>16, RefreshIntentFields DEF Leave
    <2>3. Candidates(i) \subseteq Made
      BY DEF Candidates
    <2>4. (\E reqs \in SUBSET Candidates(i) : Retire(f, i, reqs)) => \E reqs \in SUBSET Made : Retire(f, i, reqs)
      BY <2>3
    <2> QED BY <1>3, <1>15, <2>1, <2>2, <2>4
  <1>17. ASSUME NEW i \in Wish, NEW follow \in BOOLEAN, mem' = Resettled(mem, i, follow), UNCHANGED <<seerr, asked>>
         PROVE  MemTyped' /\ MemAsked'
    <2> DEFINE m == Resettled(mem, i, follow)
    <2>1. m = mem'
      BY <1>17
    <2>2. /\ m \in State /\ m.deferred = mem.deferred
          /\ m.handled = mem.handled /\ m.granted = mem.granted /\ m.groups = mem.groups /\ m.epoch = mem.epoch
          /\ m.intents \subseteq Wish /\ \A j \in m.intents : <<j.home, j.epoch>> \in asked
          /\ m.records \subseteq Entry
          /\ \A new \in m.records : \E rec \in mem.records :
               /\ new.home = rec.home /\ new.user = rec.user /\ new.branch = rec.branch
               /\ new.req = rec.req /\ new.detached = rec.detached /\ new.status = rec.status
      <3>1. SeerrTyped /\ MemTyped /\ MemAsked
        BY <1>1
      <3>2. m \in State
        BY <3>1, <1>17, ResettledFields
      <3>3. m.deferred = mem.deferred
            /\ m.handled = mem.handled /\ m.granted = mem.granted /\ m.groups = mem.groups /\ m.epoch = mem.epoch
        BY <3>1, <1>17, ResettledFields
      <3>4. m.intents \subseteq Wish /\ m.records \subseteq Entry
        BY <3>1, <1>17, ResettledFields
      <3>5. \A j \in m.intents : <<j.home, j.epoch>> \in asked
        BY <3>1, <1>17, ResettledFields
      <3>6. \A new \in m.records : \E rec \in mem.records :
              /\ new.home = rec.home /\ new.user = rec.user /\ new.branch = rec.branch
              /\ new.req = rec.req /\ new.detached = rec.detached /\ new.status = rec.status
              /\ rec.rule => new.rule
        BY <3>1, <1>17, ResettledRecords
      <3> HIDE DEF m
      <3> QED BY <3>2, <3>3, <3>4, <3>5, <3>6
    <2> HIDE DEF m
    <2>3. \A rec \in m.records : ~rec.detached => <<rec.home, m.epoch[rec.home]>> \in asked
      BY <1>2, <2>2
    <2>4. \A rec \in m.records : rec.status = "completed" /\ rec.branch = "interest" /\ ~rec.detached => rec.home \in m.groups
      BY <1>2, <2>2
    <2> QED BY <1>1, <1>2, <1>17, <2>1, <2>2, <2>3, <2>4, MemMoves
  <1>18. ASSUME NEW f \in Refresher, RefreshSettle(f) PROVE MemTyped' /\ MemAsked'
    <2> DEFINE i == refresh[f].intent
               r == refresh[f].made
    <2>1. /\ i \in Wish /\ <<i.home, i.epoch>> \in asked /\ (i.status = "submitting" => r \in Made)
          /\ i.status \in {"submitting", "settling"} /\ i.epoch \in Nat
      BY <1>1, <1>18 DEF RefreshSettle, RefreshTyped, RefreshAsked, Wish, Intent
    <2>2. UNCHANGED <<seerr, asked>>
      BY <1>18 DEF RefreshSettle, world, Reworks
    <2>3. \/ UNCHANGED mem
          \/ i.status = "submitting" /\ mem' = Written(mem, i.epoch, Recovered(i, r, here))
          \/ mem' = Resettled(mem, i, here)
          \/ i.status = "submitting" /\ Retire(f, i, {r})
          \/ mem' = Resettled(mem, i, TRUE)
      BY <1>18 DEF RefreshSettle, SettleRead, Leave
    <2>4. here \in BOOLEAN
      BY <1>1 DEF SeerrTyped
    <2> HIDE DEF i, r
    <2>5. CASE i.status = "submitting" /\ mem' = Written(mem, i.epoch, Recovered(i, r, here))
      <3>1. /\ Recovered(i, r, here) \in Outcome /\ Recovered(i, r, here).add \subseteq Entry
            /\ \A rec \in Recovered(i, r, here).add : rec.home = i.home /\ rec.status = "pending"
        <4>1. PICK present \in BOOLEAN : present = here
          BY <2>4
        <4>2. /\ Recovered(i, r, present) \in Outcome /\ Recovered(i, r, present).add \subseteq Entry
              /\ \A rec \in Recovered(i, r, present).add : rec.home = i.home /\ rec.status = "pending"
          <5>1. SeerrTyped /\ MemTyped /\ r \in Made /\ i \in Wish
            BY <1>1, <2>1, <2>5
          <5>2. Recovered(i, r, present) \in Outcome
            BY <5>1, RecoveredFields
          <5>3. Recovered(i, r, present).add \subseteq Entry
            BY <5>1, RecoveredFields
          <5>4. \A rec \in Recovered(i, r, present).add :
                  rec.home = i.home /\ rec.user = i.user /\ rec.status = "pending" /\ rec.branch = "request" /\ rec.req = r
            BY RecoveredAdds
          <5> QED BY <5>2, <5>3, <5>4
        <4> QED BY <4>1, <4>2
      <3> QED BY <1>1, <2>1, <2>2, <2>5, <3>1, WriteStepKeeps
    <2>6. CASE i.status = "submitting" /\ Retire(f, i, {r})
      <3> DEFINE reqs == {r}
      <3>1. reqs \in SUBSET Made /\ Retire(f, i, reqs)
        BY <2>1, <2>6
      <3> HIDE DEF reqs
      <3> QED BY <1>15, <2>1, <2>2, <3>1
    <2> QED BY <1>3, <1>17, <2>1, <2>2, <2>3, <2>4, <2>5, <2>6
  <1>19. ASSUME NEW f \in Refresher, NEW rec \in refresh[f].records, RefreshRecord(f, rec) PROVE MemTyped' /\ MemAsked'
    <2>1. UNCHANGED <<seerr, asked>> /\ rec \in Entry /\ rec.status = "pending"
      BY <1>1, <1>19, RefreshRecordFields
    <2>2. ASSUME NEW m \in State, mem' = m,
                 m.intents = mem.intents, m.deferred = mem.deferred, m.handled = mem.handled, m.granted = mem.granted,
                 m.epoch = mem.epoch, mem.groups \subseteq m.groups,
                 \A h \in m.groups : h \in mem.groups \/ \E x \in mem.records : x.home = h /\ ~x.detached,
                 \/ m.records = mem.records
                 \/ /\ rec \in mem.records /\ m.records = (mem.records \ {rec}) \cup {NowIs(rec)}
                    /\ NowIs(rec).status = "completed" /\ ~MadeByItsRequest(rec) => rec.home \in m.groups
          PROVE  MemTyped' /\ MemAsked'
      <3> DEFINE now == NowIs(rec)
      <3>1. now \in Entry /\ now.home = rec.home /\ now.branch = rec.branch /\ now.detached = rec.detached
        BY <2>1, NowIsFields
      <3>2. m.records \subseteq Entry
        BY <1>2, <2>2, <3>1
      <3>3. \A x \in m.records : ~x.detached => <<x.home, m.epoch[x.home]>> \in asked
        BY <1>2, <2>2, <3>1
      <3>4. rec.branch = "interest" => ~MadeByItsRequest(rec)
        BY DEF MadeByItsRequest
      <3>5. \A x \in m.records : x.status = "completed" /\ x.branch = "interest" /\ ~x.detached => x.home \in m.groups
        BY <1>2, <2>2, <3>1, <3>4
      <3>6. \A h \in m.groups : <<h, m.epoch[h]>> \in asked \/ \E r \in m.granted : h \in Homes[seerr[r].by]
        BY <1>2, <2>2
      <3> QED BY <1>1, <1>2, <2>1, <2>2, <3>2, <3>3, <3>5, <3>6, MemMoves
    <2>3. \/ UNCHANGED mem
          \/ \E m \in State :
                 /\ mem' = m
                 /\ m.intents = mem.intents /\ m.tombs = mem.tombs /\ m.deferred = mem.deferred
                 /\ m.handled = mem.handled /\ m.granted = mem.granted /\ m.epoch = mem.epoch
                 /\ mem.groups \subseteq m.groups
                 /\ \A h \in m.groups : h \in mem.groups \/ \E x \in mem.records : x.home = h /\ ~x.detached
                 /\ \/ m.records = mem.records
                    \/ /\ rec \in mem.records /\ m.records = (mem.records \ {rec}) \cup {NowIs(rec)}
                       /\ NowIs(rec).status = "completed" /\ ~MadeByItsRequest(rec) => rec.home \in m.groups
      BY <1>1, <1>19, RefreshRecordFields
    <2> QED BY <1>3, <2>2, <2>3
  <1> QED BY <1>3, <1>4, <1>5, <1>6, <1>7, <1>8, <1>10, <1>11, <1>12, <1>13, <1>14, <1>16, <1>18, <1>19, MemActions

-----------------------------------------------------------------------------
(* What holds for every member, household and call *)

\* The invariant of who asked holds at the start.
LEMMA InitAsk == ASSUME Init PROVE AskInv
  <1> USE BoundsAssumption
  <1>1. seerr \in Seq(SeerrRequest) /\ Len(seerr) = 0 /\ Made = {}
    BY EmptySeq DEF Init, Made
  <1>2. SeerrTyped
    BY <1>1 DEF Init, SeerrTyped
  <1>3. mem = NewState /\ NewState \in State /\ mem.records = {} /\ mem.intents = {} /\ mem.deferred = {}
        /\ mem.handled = {} /\ mem.granted = {} /\ mem.groups = {}
    BY DEF Init, NewState, State
  <1>4. MemTyped /\ MemAsked
    BY <1>3 DEF MemTyped, MemAsked, InterestReadyIsHeld
  <1>5. CallTyped /\ CallAsked
    <2>1. call = NoCall /\ NoOutcome \in Outcome /\ NoOutcome.add = {}
      BY DEF Init, NoOutcome, Outcome
    <2> QED BY <2>1 DEF CallTyped, CallAsked, NoCall, CallStages
  <1>6. QueueTyped
    BY NoJobFields DEF Init, QueueTyped
  <1>7. RefreshTyped /\ RefreshAsked
    <2>1. refresh = [f \in Refresher |-> Resting] /\ \A f \in Refresher : refresh[f] = Resting
      BY DEF Init
    <2>2. Resting.pc = "idle" /\ Resting.intents = {} /\ Resting.records = {}
      BY DEF Resting
    <2> QED BY <2>1, <2>2, RestingFields DEF RefreshTyped, RefreshAsked
  <1>8. SlipsTyped
    BY DEF Init, SlipsTyped
  <1> QED BY <1>2, <1>4, <1>5, <1>6, <1>7, <1>8 DEF AskInv, TypeInv

\* Every step keeps the invariant of who asked.
LEMMA AskKept == AskInv /\ [Next]_vars => AskInv'
  <1> SUFFICES ASSUME AskInv, [Next]_vars PROVE AskInv'
    OBVIOUS
  <1>1. SeerrTyped'
    BY SeerrStep DEF AskInv, TypeInv
  <1>2. MemTyped' /\ MemAsked'
    BY MemKept
  <1>3. CallTyped' /\ CallAsked'
    BY CallKept DEF AskInv
  <1>4. QueueTyped'
    BY QueueKept DEF AskInv
  <1>5. RefreshTyped' /\ RefreshAsked'
    BY RefreshKept DEF AskInv
  <1>6. SlipsTyped'
    BY SlipsKept DEF AskInv, TypeInv
  <1> QED BY <1>1, <1>2, <1>3, <1>4, <1>5, <1>6 DEF AskInv, TypeInv

\* What is done is for those who asked, through every order of calls, webhooks, refreshes, failures and restarts.
THEOREM AskInvariant == Spec => []AskInv
  <1>1. Init => AskInv
    BY InitAsk
  <1> QED BY <1>1, AskKept, PTL DEF Spec

\* A household is on the title's grant only because it asked, as it is now, or because of a member's granted request:
\* what joinHousehold, #settleRecords and the refresh join is never a household deleted since.
THEOREM OnlyAskersAlways == Spec => []OnlyAskers
  <1>1. AskInv => OnlyAskers
    <2> SUFFICES ASSUME AskInv PROVE OnlyAskers
      OBVIOUS
    <2>1. SeerrTyped /\ MemTyped /\ MemAsked /\ SlipsTyped
      BY DEF AskInv, TypeInv
    <2>2. \A i \in mem.intents : i \in Intent /\ i.home \in Homes[i.user] /\ i.call \in 1..MaxCalls
      BY <2>1 DEF MemTyped, Wish
    <2>3. \A rec \in mem.records : rec \in Record /\ rec.home \in Homes[rec.user] /\ rec.req \in Made \cup {NoRequest}
      BY <2>1 DEF MemTyped, Entry
    <2>4. mem.tombs \subseteq Tombstone /\ mem.groups \subseteq Household /\ mem.epoch \in [Household -> Nat]
      BY <2>1 DEF MemTyped, State
    <2>5. TypeOK
      BY <2>1, <2>2, <2>3, <2>4 DEF TypeOK, SeerrTyped, MemTyped, SlipsTyped
    <2> QED BY <2>1, <2>5 DEF OnlyAskers, MemAsked
  <1> QED BY <1>1, AskInvariant, PTL

\* An interest is ready only while its household is on the grant: no order of joins, settled grants and replaced
\* households tells somebody a title is there for them that they cannot see.
THEOREM InterestReadyIsHeldAlways == Spec => []InterestReadyIsHeld
  <1>1. AskInv => InterestReadyIsHeld
    BY DEF AskInv, MemAsked
  <1> QED BY <1>1, AskInvariant, PTL
-----------------------------------------------------------------------------
(* What protects a late request until its intent is resolved out of turn:  *)
(* taken by a duplicate's fallback, or by a refresh that listed it before  *)
(* its call settled                                                        *)

Free == adopted \cup reworked

\* A late request, but for those set free.
Watched(r, free) == Late(r) /\ r \notin free

\* The call sent nothing that Seerr made or may make yet.
Unsent(n) == (\A r \in Made : seerr[r].call # n) /\ \A f \in flying : f.call # n

\* One request at most for a call, and none before its intent is on disk.
Numbered ==
  /\ \A r \in Made : seerr[r].call \in 0..spent.calls /\ (seerr[r].late => here)
  /\ \A q, r \in Made : seerr[r].call # 0 /\ seerr[q].call = seerr[r].call => q = r
  /\ \A f \in flying : f.call \in 1..spent.calls /\ \A r \in Made : seerr[r].call # f.call
  /\ \A f, g \in flying : g.call = f.call => g = f
  /\ call.pc # "idle" => call.call = spent.calls
  /\ call.pc \in {"look", "decide", "join", "save", "recheck", "conflict"} => Unsent(call.call)
  /\ \A n \in unsaved : Unsent(n)

\* An intent is of the member whose requests its call makes, and older than they are.
Faithful(i) ==
  /\ i.call \in 1..spent.calls
  /\ \A r \in Made : seerr[r].call = i.call => seerr[r].by = i.user /\ r \notin i.old
  /\ \A f \in flying : f.call = i.call => f.user = i.user
  /\ i.status = "settling" => i.req \in Made /\ seerr[i.req].call = i.call
  /\ i.call = call.call => /\ call.pc \notin {"look", "decide"}
                           /\ call.pc \notin {"idle", "retry"} => i.user = call.user /\ i.status = "submitting"

IntentsFaithful ==
  /\ \A i \in mem.intents : Faithful(i)
  /\ \A i, j \in mem.intents : j.call = i.call => j = i

\* A refresh has each intent as it still is, as it was until its call settled, or one that is gone.
AsStored(i) ==
  Faithful(i) /\ \A j \in mem.intents : j.call = i.call => j = i \/ (i.status = "submitting" /\ j.status = "settling")
Listed(f) == refresh[f].intents \cup {i \in {refresh[f].intent} : refresh[f].pc = "settle"}

ListedFaithful == \A f \in Refresher : \A i \in Listed(f) : AsStored(i)

\* What nothing takes away again.
Settled(m, r) ==
  \/ GrantsAsJoin(m, r)
  \/ NamedByTombstone(m, r)
  \/ \E t \in MemberWide(m) : Covers(t, r, seerr[r].by)
  \/ r \in m.handled

\* The record makes the request its member's own, as the request's grant sees it.
Takes(rec, r) == rec.branch = "request" /\ rec.req = r /\ ~rec.rule

\* A late request is nobody's own before the intent it was made for is settled.
NotTaken(m, free) ==
  \A rec \in m.records : \A r \in Made : Watched(r, free) /\ Takes(rec, r) =>
    \A i \in m.intents : i.call = seerr[r].call => i.status = "settling"

\* A late request whose intent is gone has something else; so has one that is still to be made.
LateKept(m, free) ==
  \A r \in Made : Watched(r, free) => Settled(m, r) \/ \E i \in m.intents : i.call = seerr[r].call
FlyingKept(m) ==
  \A f \in flying : (\E t \in MemberWide(m) : t.user = f.user) \/ \E i \in m.intents : i.call = f.call
TombsOfMade(m) == \A t \in m.tombs : t.old \subseteq Made /\ t.exempt \subseteq Made

Keeps(m, free) == LateKept(m, free) /\ FlyingKept(m) /\ TombsOfMade(m) /\ NotTaken(m, free)

\* What the running call will write.
OutSafe(out) ==
  /\ out.remove \subseteq {call.call}
  /\ \A s \in out.settle : s[1] = call.call /\ s[2] \in Made /\ seerr[s[2]].call = call.call
  /\ \A e \in out.exempt : e[2] \in Made /\ ~Watched(e[2], Free)
  /\ \A t \in out.tombs : t.old \subseteq Made /\ t.exempt \subseteq Made
  /\ \A rec \in out.add : \A r \in Made : Watched(r, Free) /\ Takes(rec, r) =>
       \/ \A i \in mem.intents : i.call # seerr[r].call
       \/ seerr[r].call = call.call /\ (out.remove # {} \/ out.settle # {})

\* It releases the intent only when nothing is under way for it, and a late request is named.
Releases(out) ==
  out.remove # {} => /\ \A f \in flying : f.call # call.call
                     /\ \A r \in Made : Watched(r, Free) /\ seerr[r].call = call.call => \E t \in out.tombs : r \in t.reqs

CallSafe ==
  /\ OutSafe(call.out) /\ Releases(call.out)
  /\ call.pc \notin {"join", "write"} => call.out = NoOutcome
  /\ call.pc = "settle" => call.req \in Made /\ seerr[call.req].call = call.call

ProtectInv == Numbered /\ IntentsFaithful /\ ListedFaithful /\ Keeps(mem, Free) /\ CallSafe

\* What is granted, or about to be, as a new private grant is not late, unless it was set free or its rule outpaced.
Excused(r) == Late(r) => r \in outpaced \cup Free
GrantInv ==
  /\ queue.pc = "read" => queue.req \notin mem.handled
  /\ queue.pc = "act" /\ queue.rule # "join" => Excused(queue.req)
  /\ \A x \in queue.ready : x[2] = "grant" => Excused(x[1])
  /\ NeverPrivate

-----------------------------------------------------------------------------
(* A late request stays protected by what the store is left with *)

\* Records of the same requests, ruled by the join rules where they were or by more.
MoreRuled(w, m) ==
  /\ m.tombs = w.tombs /\ m.intents = w.intents /\ w.handled \subseteq m.handled
  /\ \A new \in m.records : \E rec \in w.records : new.branch = rec.branch /\ new.req = rec.req /\ (rec.rule => new.rule)
  /\ \A rec \in w.records : \E new \in m.records : new.branch = rec.branch /\ new.req = rec.req /\ (rec.rule => new.rule)

\* What protects the requests watched protects them when fewer are.
LEMMA KeepsFewer ==
  ASSUME NEW m, NEW free, NEW more, free \subseteq more, Keeps(m, free)
  PROVE  Keeps(m, more)
  <1>1. \A r : Watched(r, more) => Watched(r, free)
    BY DEF Watched
  <1>2. LateKept(m, more)
    BY <1>1 DEF Keeps, LateKept
  <1>3. NotTaken(m, more)
    BY <1>1 DEF Keeps, NotTaken
  <1> QED BY <1>2, <1>3 DEF Keeps

\* What names every late request still does when only more is named.
LEMMA KeepsRuled ==
  ASSUME NEW w, NEW m, NEW free, Keeps(w, free), MoreRuled(w, m)
  PROVE  Keeps(m, free)
  <1>1. \A r \in Made : Settled(w, r) => Settled(m, r)
    <2> SUFFICES ASSUME NEW r \in Made, Settled(w, r) PROVE Settled(m, r)
      OBVIOUS
    <2>1. CASE GrantsAsJoin(w, r)
      <3>1. PICK rec \in w.records : rec.branch = "request" /\ rec.req = r /\ rec.rule
        BY <2>1 DEF GrantsAsJoin
      <3>2. PICK new \in m.records : new.branch = rec.branch /\ new.req = rec.req /\ (rec.rule => new.rule)
        BY DEF MoreRuled
      <3> QED BY <3>1, <3>2 DEF Settled, GrantsAsJoin
    <2>2. CASE NamedByTombstone(w, r)
      BY <2>2 DEF Settled, MoreRuled, NamedByTombstone
    <2>3. CASE \E t \in MemberWide(w) : Covers(t, r, seerr[r].by)
      BY <2>3 DEF Settled, MoreRuled, MemberWide
    <2>4. CASE r \in w.handled
      BY <2>4 DEF Settled, MoreRuled
    <2> QED BY <2>1, <2>2, <2>3, <2>4 DEF Settled
  <1>2. m.intents = w.intents /\ m.tombs = w.tombs
    BY DEF MoreRuled
  <1>3. LateKept(m, free)
    BY <1>1, <1>2 DEF Keeps, LateKept
  <1>4. FlyingKept(m) /\ TombsOfMade(m)
    BY <1>2 DEF Keeps, FlyingKept, TombsOfMade, MemberWide
  <1>5. NotTaken(m, free)
    <2> SUFFICES ASSUME NEW new \in m.records, NEW r \in Made, Watched(r, free), Takes(new, r),
                        NEW i \in m.intents, i.call = seerr[r].call
                 PROVE  i.status = "settling"
      BY DEF NotTaken
    <2>1. PICK rec \in w.records : new.branch = rec.branch /\ new.req = rec.req /\ (rec.rule => new.rule)
      BY DEF MoreRuled
    <2>2. Takes(rec, r)
      BY <2>1 DEF Takes
    <2> QED BY <1>2, <2>2 DEF Keeps, NotTaken
  <1> QED BY <1>3, <1>4, <1>5 DEF Keeps

\* The write of an outcome, whether a call's or a refresh's.
LEMMA KeepsWritten ==
  ASSUME SeerrTyped, NEW m \in State, NEW epoch \in Nat, NEW out \in Outcome, NEW free, Keeps(m, free),
         \A e \in out.exempt : e[2] \in Made /\ ~Watched(e[2], free),
         \A t \in out.tombs : t.old \subseteq Made /\ t.exempt \subseteq Made,
         \A rec \in out.add : \A r \in Made : Watched(r, free) /\ Takes(rec, r) =>
           \A i \in m.intents : i.call = seerr[r].call => i.call \in out.remove \/ \E s \in out.settle : s[1] = i.call,
         \A i \in m.intents : i.call \in out.remove =>
           /\ \A r \in Made : Watched(r, free) /\ seerr[r].call = i.call =>
                \E t \in out.tombs : r \in t.reqs \/ (t.user # NoMember /\ Covers(t, r, seerr[r].by))
           /\ \A f \in flying : f.call = i.call => \E t \in out.tombs : t.user # NoMember /\ t.user = f.user
  PROVE  Keeps(Written(m, epoch, out), free)
  <1> DEFINE w == Written(m, epoch, out)
  <1>1. /\ w.records = m.records \cup {Attributed(m, epoch, rec) : rec \in out.add}
        /\ w.tombs = {Exempted(t, out.exempt) : t \in m.tombs \cup out.tombs}
        /\ w.intents = {Settling(i, out.settle) : i \in {j \in m.intents : j.call \notin out.remove}}
        /\ w.handled = m.handled
    BY WrittenFields
  <1> HIDE DEF w
  <1>2. /\ m.intents \subseteq Intent /\ m.records \subseteq Record /\ m.tombs \subseteq Tombstone
        /\ out.add \subseteq Record /\ out.tombs \subseteq Tombstone /\ out.settle \in SUBSET (Nat \X Nat)
        /\ out.exempt \in SUBSET (Member \X Nat)
    BY DEF State, Outcome
  <1>3. \A t \in m.tombs \cup out.tombs : \E x \in w.tombs :
          /\ x.reqs = t.reqs /\ x.user = t.user /\ x.old = t.old
          /\ \A r \in x.exempt : r \in t.exempt \/ \E e \in out.exempt : e[2] = r
    <2> SUFFICES ASSUME NEW t \in m.tombs \cup out.tombs
                 PROVE  \E x \in w.tombs : /\ x.reqs = t.reqs /\ x.user = t.user /\ x.old = t.old
                                           /\ \A r \in x.exempt : r \in t.exempt \/ \E e \in out.exempt : e[2] = r
      OBVIOUS
    <2>1. t \in Tombstone
      BY <1>2
    <2> QED BY <1>1, <1>2, <2>1, ExemptedFields
  <1>4. \A x \in w.tombs : \E t \in m.tombs \cup out.tombs :
          x.old = t.old /\ \A r \in x.exempt : r \in t.exempt \/ \E e \in out.exempt : e[2] = r
    <2> SUFFICES ASSUME NEW t \in m.tombs \cup out.tombs
                 PROVE  /\ Exempted(t, out.exempt).old = t.old
                        /\ \A r \in Exempted(t, out.exempt).exempt : r \in t.exempt \/ \E e \in out.exempt : e[2] = r
      BY <1>1
    <2>1. t \in Tombstone
      BY <1>2
    <2> QED BY <1>2, <2>1, ExemptedFields
  <1>5. TombsOfMade(w)
    <2>1. \A t \in m.tombs \cup out.tombs : t.old \subseteq Made /\ t.exempt \subseteq Made
      BY DEF Keeps, TombsOfMade
    <2> QED BY <1>4, <2>1 DEF TombsOfMade
  <1>6. \A t \in m.tombs \cup out.tombs : \A r \in Made :
          Watched(r, free) /\ t.user # NoMember /\ Covers(t, r, seerr[r].by) => Settled(w, r)
    <2> SUFFICES ASSUME NEW t \in m.tombs \cup out.tombs, NEW r \in Made,
                        Watched(r, free), t.user # NoMember, Covers(t, r, seerr[r].by)
                 PROVE  Settled(w, r)
      OBVIOUS
    <2>1. PICK x \in w.tombs : /\ x.reqs = t.reqs /\ x.user = t.user /\ x.old = t.old
                               /\ \A q \in x.exempt : q \in t.exempt \/ \E e \in out.exempt : e[2] = q
      BY <1>3
    <2>2. r \notin x.exempt
      BY <2>1 DEF Covers
    <2>3. Covers(x, r, seerr[r].by) /\ x.user # NoMember
      BY <2>1, <2>2 DEF Covers
    <2> QED BY <2>3 DEF Settled, MemberWide
  <1>7. \A t \in m.tombs \cup out.tombs : \A r \in Made : r \in t.reqs => Settled(w, r)
    <2> SUFFICES ASSUME NEW t \in m.tombs \cup out.tombs, NEW r \in Made, r \in t.reqs
                 PROVE  Settled(w, r)
      OBVIOUS
    <2>1. PICK x \in w.tombs : x.reqs = t.reqs
      BY <1>3
    <2> QED BY <2>1 DEF Settled, NamedByTombstone
  <1>8. \A r \in Made : Watched(r, free) /\ Settled(m, r) => Settled(w, r)
    <2> SUFFICES ASSUME NEW r \in Made, Watched(r, free), Settled(m, r) PROVE Settled(w, r)
      OBVIOUS
    <2>1. CASE GrantsAsJoin(m, r)
      BY <1>1, <2>1 DEF Settled, GrantsAsJoin
    <2>2. CASE NamedByTombstone(m, r)
      BY <1>7, <2>2 DEF NamedByTombstone
    <2>3. CASE \E t \in MemberWide(m) : Covers(t, r, seerr[r].by)
      BY <1>6, <2>3 DEF MemberWide
    <2>4. CASE r \in m.handled
      BY <1>1, <2>4 DEF Settled
    <2> QED BY <2>1, <2>2, <2>3, <2>4 DEF Settled
  <1>9. \A i \in m.intents : i.call \notin out.remove => \E j \in w.intents : j.call = i.call
    <2> SUFFICES ASSUME NEW i \in m.intents, i.call \notin out.remove PROVE \E j \in w.intents : j.call = i.call
      OBVIOUS
    <2>1. Settling(i, out.settle) \in w.intents
      BY <1>1
    <2>2. Settling(i, out.settle).call = i.call
      BY <1>2, SettlingFields
    <2> QED BY <2>1, <2>2
  <1>10. LateKept(w, free)
    <2> SUFFICES ASSUME NEW r \in Made, Watched(r, free), ~Settled(w, r) PROVE \E j \in w.intents : j.call = seerr[r].call
      BY DEF LateKept
    <2>1. PICK i \in m.intents : i.call = seerr[r].call
      BY <1>8 DEF Keeps, LateKept
    <2>2. i.call \notin out.remove
      BY <1>6, <1>7, <2>1
    <2> QED BY <1>9, <2>1, <2>2
  <1>11. FlyingKept(w)
    <2> SUFFICES ASSUME NEW f \in flying
                 PROVE  (\E t \in MemberWide(w) : t.user = f.user) \/ \E i \in w.intents : i.call = f.call
      BY DEF FlyingKept
    <2>1. (\E t \in m.tombs \cup out.tombs : t.user # NoMember /\ t.user = f.user) => \E t \in MemberWide(w) : t.user = f.user
      BY <1>3 DEF MemberWide
    <2>2. (\E t \in MemberWide(m) : t.user = f.user) \/ \E i \in m.intents : i.call = f.call
      BY DEF Keeps, FlyingKept
    <2>3. CASE \E t \in MemberWide(m) : t.user = f.user
      BY <2>1, <2>3 DEF MemberWide
    <2>4. CASE \E i \in m.intents : i.call = f.call
      <3>1. PICK i \in m.intents : i.call = f.call
        BY <2>4
      <3>2. CASE i.call \notin out.remove
        BY <1>9, <3>1, <3>2
      <3>3. CASE i.call \in out.remove
        <4>1. \E t \in out.tombs : t.user # NoMember /\ t.user = f.user
          BY <3>1, <3>3
        <4> QED BY <2>1, <4>1
      <3> QED BY <3>2, <3>3
    <2> QED BY <2>2, <2>3, <2>4
  <1>12. \A j \in w.intents : \E i \in m.intents :
           /\ i.call = j.call /\ i.call \notin out.remove
           /\ (\E s \in out.settle : s[1] = i.call) => j.status = "settling"
           /\ i.status = "settling" => j.status = "settling"
    <2> SUFFICES ASSUME NEW i \in m.intents, i.call \notin out.remove
                 PROVE  LET j == Settling(i, out.settle)
                        IN  /\ i.call = j.call
                            /\ (\E s \in out.settle : s[1] = i.call) => j.status = "settling"
                            /\ i.status = "settling" => j.status = "settling"
      BY <1>1
    <2>1. i \in Intent
      BY <1>2
    <2>2. (\A s \in out.settle : s[1] # i.call) => Settling(i, out.settle) = i
      BY <1>2, <2>1, SettlingFields
    <2>3. Settling(i, out.settle).call = i.call
      BY <1>2, <2>1, SettlingFields
    <2>4. (\E s \in out.settle : s[1] = i.call) => Settling(i, out.settle).status = "settling"
      BY <1>2, <2>1, SettlingFields
    <2> QED BY <2>2, <2>3, <2>4
  <1>13. NotTaken(w, free)
    <2> SUFFICES ASSUME NEW rec \in w.records, NEW r \in Made, Watched(r, free), Takes(rec, r),
                        NEW j \in w.intents, j.call = seerr[r].call
                 PROVE  j.status = "settling"
      BY DEF NotTaken
    <2>1. PICK i \in m.intents : /\ i.call = j.call /\ i.call \notin out.remove
                                 /\ (\E s \in out.settle : s[1] = i.call) => j.status = "settling"
                                 /\ i.status = "settling" => j.status = "settling"
      BY <1>12
    <2>2. CASE rec \in m.records
      BY <2>1, <2>2 DEF Keeps, NotTaken
    <2>3. ASSUME NEW x \in out.add, rec = Attributed(m, epoch, x) PROVE j.status = "settling"
      <3>1. x \in Record
        BY <1>2
      <3>2. rec.branch = x.branch /\ rec.req = x.req /\ rec.rule = x.rule
        BY <2>3, <3>1, AttributedFields
      <3>3. Takes(x, r)
        BY <3>2 DEF Takes
      <3> QED BY <2>1, <3>3
    <2> QED BY <1>1, <2>2, <2>3
  <1> QED BY <1>5, <1>10, <1>11, <1>13 DEF Keeps, w

\* A late request of an open intent counts as no member's own.
LEMMA NotGenuine ==
  ASSUME MemTyped, NEW free, NotTaken(mem, free), NEW i \in mem.intents, i.status = "submitting",
         NEW r \in Made, Watched(r, free), seerr[r].call = i.call
  PROVE  r \notin GenuineRequests(mem, i.user)
  <1> SUFFICES ASSUME r \in GenuineRequests(mem, i.user) PROVE FALSE
    OBVIOUS
  <1>1. PICK rec \in mem.records : rec.branch = "request" /\ ~rec.rule /\ rec.req = r
    BY DEF GenuineRequests
  <1>2. Takes(rec, r)
    BY <1>1 DEF Takes
  <1> QED BY <1>2 DEF NotTaken

\* A member's tombstone covers what the intent it retires made, and may make yet.
CoversIntent(t, i, free) ==
  /\ t.user # NoMember /\ t.old \subseteq Made /\ t.exempt \subseteq Made
  /\ \A j \in mem.intents : j.call = i.call =>
       /\ \A r \in Made : Watched(r, free) /\ seerr[r].call = j.call => Covers(t, r, seerr[r].by)
       /\ \A f \in flying : f.call = j.call => t.user = f.user

\* The request of an intent that settled since it was listed.
Released(i) == {j.req : j \in {x \in mem.intents : x.call = i.call /\ x.status = "settling"}}

\* A member's tombstone covers an open intent of the member.
LEMMA TombstoneCovers ==
  ASSUME SeerrTyped, MemTyped, Numbered, IntentsFaithful, NEW free, NotTaken(mem, free),
         NEW i \in Wish, AsStored(i), i.status = "submitting", Released(i) \subseteq free,
         NEW reqs \in SUBSET Made, NEW exempt \in SUBSET Made, \A r \in exempt : ~Watched(r, free)
  PROVE  CoversIntent(MemberTombstone(i, reqs, exempt), i, free)
  <1> DEFINE t == MemberTombstone(i, reqs, exempt)
  <1>1. /\ t.user = i.user /\ t.old = i.old /\ t.exempt = GenuineRequests(mem, i.user) \cup exempt
        /\ GenuineRequests(mem, i.user) \subseteq Made
    BY MemberTombstoneFields
  <1> HIDE DEF t
  <1>2. i.user \in Member /\ i.user # NoMember /\ i.old \subseteq Made
    BY NoMemberAssumption DEF Wish, Intent
  <1>3. ASSUME NEW j \in mem.intents, j.call = i.call, NEW r \in Made, Watched(r, free), seerr[r].call = j.call
        PROVE  Covers(t, r, seerr[r].by)
    <2>1. i \in mem.intents
      <3>1. SUFFICES ASSUME j.status = "settling" PROVE FALSE
        BY <1>3 DEF AsStored
      <3>2. j.req \in Made /\ seerr[j.req].call = j.call /\ j.call # 0
        BY <3>1 DEF IntentsFaithful, Faithful
      <3>3. j.req = r /\ j.req \in free
        BY <1>3, <3>1, <3>2 DEF Numbered, Released
      <3> QED BY <1>3, <3>3 DEF Watched
    <2>2. r \notin GenuineRequests(mem, i.user)
      BY <1>3, <2>1, NotGenuine
    <2>3. seerr[r].by = i.user /\ r \notin i.old
      BY <1>3 DEF AsStored, Faithful
    <2> QED BY <1>1, <1>3, <2>2, <2>3 DEF Covers
  <1>4. \A f \in flying : f.call = i.call => t.user = f.user
    BY <1>1 DEF AsStored, Faithful
  <1>5. CoversIntent(t, i, free)
    BY <1>1, <1>2, <1>3, <1>4 DEF CoversIntent
  <1> QED BY <1>5 DEF t

\* A retired intent leaves every late request named.
LEMMA RetireKeeps ==
  ASSUME SeerrTyped, MemTyped, Numbered, IntentsFaithful, NEW free, Keeps(mem, free),
         NEW i \in Wish, AsStored(i), i.status = "submitting", Released(i) \subseteq free, NEW reqs \in SUBSET Made
  PROVE  Keeps(Written(mem, 0, Retired(i, reqs)), free)
  <1> DEFINE out == Retired(i, reqs)
             t == MemberTombstone(i, reqs, {})
  <1>1. /\ out \in Outcome /\ out.add = {} /\ out.remove = {i.call} /\ out.settle = {} /\ out.exempt = {}
        /\ out.tombs = {t}
    BY RetiredFields
  <1>2. /\ t.user # NoMember /\ t.old \subseteq Made /\ t.exempt \subseteq Made
        /\ \A j \in mem.intents : j.call = i.call =>
             /\ \A r \in Made : Watched(r, free) /\ seerr[r].call = j.call => Covers(t, r, seerr[r].by)
             /\ \A f \in flying : f.call = j.call => t.user = f.user
    <2> DEFINE none == {}
    <2>1. none \in SUBSET Made /\ (\A r \in none : ~Watched(r, free)) /\ t = MemberTombstone(i, reqs, none)
      OBVIOUS
    <2> HIDE DEF none, out
    <2>2. NotTaken(mem, free)
      BY DEF Keeps
    <2>3. CoversIntent(MemberTombstone(i, reqs, none), i, free)
      BY <2>1, <2>2, TombstoneCovers
    <2> HIDE DEF t
    <2> QED BY <2>1, <2>3 DEF CoversIntent
  <1>3. mem \in State /\ 0 \in Nat
    BY DEF MemTyped
  <1> HIDE DEF out, t
  <1>4. \A e \in out.exempt : e[2] \in Made /\ ~Watched(e[2], free)
    BY <1>1
  <1>5. \A x \in out.tombs : x.old \subseteq Made /\ x.exempt \subseteq Made
    BY <1>1, <1>2
  <1>6. \A rec \in out.add : \A r \in Made : Watched(r, free) /\ Takes(rec, r) =>
          \A j \in mem.intents : j.call = seerr[r].call => j.call \in out.remove \/ \E s \in out.settle : s[1] = j.call
    BY <1>1
  <1>7. \A j \in mem.intents : j.call \in out.remove =>
          /\ \A r \in Made : Watched(r, free) /\ seerr[r].call = j.call =>
               \E x \in out.tombs : r \in x.reqs \/ (x.user # NoMember /\ Covers(x, r, seerr[r].by))
          /\ \A f \in flying : f.call = j.call => \E x \in out.tombs : x.user # NoMember /\ x.user = f.user
    BY <1>1, <1>2
  <1>8. Keeps(Written(mem, 0, out), free)
    BY <1>1, <1>3, <1>4, <1>5, <1>6, <1>7, KeepsWritten
  <1> QED BY <1>8 DEF out

\* Recovered for its household: late, it follows the join rules; in time, nothing is late.
LEMMA RecoveredKeeps ==
  ASSUME SeerrTyped, MemTyped, Numbered, IntentsFaithful, NEW free, Keeps(mem, free),
         NEW i \in Wish, AsStored(i), i.status = "submitting", Released(i) \subseteq free, NEW r \in Made
  PROVE  Keeps(Written(mem, i.epoch, Recovered(i, r, here)), free)
  <1> DEFINE named == IF here THEN {r} ELSE {}
             spared == IF here THEN {} ELSE {r}
             out == Recovered(i, r, here)
             t == MemberTombstone(i, named, spared)
  <1>1. PICK present \in BOOLEAN : present = here
    BY DEF SeerrTyped
  <1>2. ~here => \A q \in Made : ~Watched(q, free)
    BY DEF Numbered, Late, Watched
  <1>3. /\ out \in Outcome /\ out.remove = {i.call} /\ out.settle = {} /\ out.exempt = {}
        /\ out.tombs = {t} /\ out.add \subseteq Entry
    <2>1. Recovered(i, r, present) \in Outcome /\ Recovered(i, r, present).add \subseteq Entry
      BY RecoveredFields
    <2>2. Recovered(i, r, present).remove = {i.call}
      BY DEF Recovered, NoOutcome
    <2>3. Recovered(i, r, present).settle = {} /\ Recovered(i, r, present).exempt = {}
      BY RecoveredFields
    <2>4. Recovered(i, r, present).tombs =
               {MemberTombstone(i, IF present THEN {r} ELSE {}, IF present THEN {} ELSE {r})}
      BY RecoveredFields
    <2> QED BY <1>1, <2>1, <2>2, <2>3, <2>4
  <1>4. /\ t.user # NoMember /\ t.old \subseteq Made /\ t.exempt \subseteq Made
        /\ \A j \in mem.intents : j.call = i.call =>
             /\ \A q \in Made : Watched(q, free) /\ seerr[q].call = j.call => Covers(t, q, seerr[q].by)
             /\ \A f \in flying : f.call = j.call => t.user = f.user
    <2>1. named \in SUBSET Made /\ spared \in SUBSET Made /\ \A q \in spared : ~Watched(q, free)
      BY <1>2
    <2> HIDE DEF named, spared, out
    <2>2. CoversIntent(MemberTombstone(i, named, spared), i, free)
      BY <2>1, TombstoneCovers DEF Keeps
    <2> QED BY <2>2 DEF CoversIntent
  <1>5. \A rec \in out.add : \A q \in Made : Watched(q, free) /\ Takes(rec, q) => FALSE
    <2>1. \A rec \in out.add : rec.rule = here
      BY DEF Recovered, NoOutcome
    <2> HIDE DEF out
    <2> QED BY <1>2, <2>1 DEF Takes
  <1>6. mem \in State /\ i.epoch \in Nat
    BY DEF MemTyped, Wish, Intent
  <1> HIDE DEF out, t, named, spared
  <1>7. \A e \in out.exempt : e[2] \in Made /\ ~Watched(e[2], free)
    BY <1>3
  <1>8. \A x \in out.tombs : x.old \subseteq Made /\ x.exempt \subseteq Made
    BY <1>3, <1>4
  <1>9. \A rec \in out.add : \A q \in Made : Watched(q, free) /\ Takes(rec, q) =>
          \A j \in mem.intents : j.call = seerr[q].call => j.call \in out.remove \/ \E s \in out.settle : s[1] = j.call
    BY <1>5
  <1>10. \A j \in mem.intents : j.call \in out.remove =>
          /\ \A q \in Made : Watched(q, free) /\ seerr[q].call = j.call =>
               \E x \in out.tombs : q \in x.reqs \/ (x.user # NoMember /\ Covers(x, q, seerr[q].by))
          /\ \A f \in flying : f.call = j.call => \E x \in out.tombs : x.user # NoMember /\ x.user = f.user
    BY <1>3, <1>4
  <1>11. Keeps(Written(mem, i.epoch, out), free)
    BY <1>3, <1>6, <1>7, <1>8, <1>9, <1>10, KeepsWritten
  <1> QED BY <1>11 DEF out

\* The settle pass names the request, unless it was made in time.
LEMMA ResettledKeeps ==
  ASSUME SeerrTyped, MemTyped, MemAsked, Numbered, NEW free, Keeps(mem, free), NEW i \in Wish, AsStored(i), i.status = "settling",
         NEW follow \in BOOLEAN, here => follow
  PROVE  Keeps(Resettled(mem, i, follow), free)
  <1> DEFINE out == ResettledAs(i, follow)
             w == Written(mem, 0, out)
             m == Resettled(mem, i, follow)
  <1>1. i.req \in Made /\ seerr[i.req].call = i.call /\ i.call # 0
    BY DEF AsStored, Faithful, Wish
  <1>2. ~follow => \A r \in Made : ~Watched(r, free)
    BY DEF Numbered, Late, Watched
  <1>3. /\ out \in Outcome /\ out.add = {} /\ out.remove = {i.call} /\ out.settle = {}
        /\ out.tombs = IF follow THEN {TombstoneFor({i.req})} ELSE {}
        /\ out.exempt = IF follow THEN {} ELSE {<<i.user, i.req>>}
    BY ResettledFields
  <1>4. \A r \in Made : seerr[r].call = i.call => r = i.req
    BY <1>1 DEF Numbered
  <1>5. \A f \in flying : f.call # i.call
    BY <1>1 DEF Numbered
  <1>6. mem \in State /\ 0 \in Nat
    BY DEF MemTyped
  <1> HIDE DEF out, w, m
  <1>7. \A e \in out.exempt : e[2] \in Made /\ ~Watched(e[2], free)
    BY <1>1, <1>2, <1>3
  <1>8. \A x \in out.tombs : x.old \subseteq Made /\ x.exempt \subseteq Made
    BY <1>3 DEF TombstoneFor
  <1>9. \A rec \in out.add : \A r \in Made : Watched(r, free) /\ Takes(rec, r) =>
          \A j \in mem.intents : j.call = seerr[r].call => j.call \in out.remove \/ \E s \in out.settle : s[1] = j.call
    BY <1>3
  <1>10. \A j \in mem.intents : j.call \in out.remove =>
          /\ \A r \in Made : Watched(r, free) /\ seerr[r].call = j.call =>
               \E x \in out.tombs : r \in x.reqs \/ (x.user # NoMember /\ Covers(x, r, seerr[r].by))
          /\ \A f \in flying : f.call = j.call => \E x \in out.tombs : x.user # NoMember /\ x.user = f.user
    <2> SUFFICES ASSUME NEW j \in mem.intents, j.call \in out.remove
                 PROVE  /\ \A r \in Made : Watched(r, free) /\ seerr[r].call = j.call => \E x \in out.tombs : r \in x.reqs
                        /\ \A f \in flying : f.call # j.call
      OBVIOUS
    <2>1. j.call = i.call
      BY <1>3
    <2>2. ASSUME NEW r \in Made, Watched(r, free), seerr[r].call = j.call PROVE \E x \in out.tombs : r \in x.reqs
      <3>1. r = i.req /\ follow
        BY <1>2, <1>4, <2>1, <2>2
      <3>2. TombstoneFor({i.req}) \in out.tombs
        BY <1>3, <3>1
      <3>3. r \in TombstoneFor({i.req}).reqs
        BY <3>1 DEF TombstoneFor
      <3> QED BY <3>2, <3>3
    <2> QED BY <1>5, <2>1, <2>2
  <1>11. Keeps(w, free)
    <2>1. Keeps(Written(mem, 0, out), free)
      BY <1>3, <1>6, <1>7, <1>8, <1>9, <1>10, KeepsWritten
    <2> QED BY <2>1 DEF w
  <1>12. w.records = mem.records /\ w.handled = mem.handled
    <2>1. /\ w.records = mem.records \cup {Attributed(mem, 0, rec) : rec \in out.add}
          /\ w.handled = mem.handled
      BY <1>6, WrittenFields DEF w
    <2> QED BY <1>3, <2>1
  <1>13. m.intents = w.intents /\ m.tombs = w.tombs /\ m.handled = mem.handled
    BY ResettledFields DEF m, w, out
  <1>14. /\ \A new \in m.records : \E rec \in w.records :
               new.branch = rec.branch /\ new.req = rec.req /\ (rec.rule => new.rule)
         /\ \A rec \in w.records : \E new \in m.records :
               new.branch = rec.branch /\ new.req = rec.req /\ (rec.rule => new.rule)
    <2>1. \A new \in m.records : \E rec \in mem.records :
              /\ new.home = rec.home /\ new.user = rec.user /\ new.branch = rec.branch
              /\ new.req = rec.req /\ new.detached = rec.detached /\ new.status = rec.status
              /\ rec.rule => new.rule
      BY ResettledRecords DEF m
    <2>2. \A rec \in mem.records : \E new \in m.records :
              /\ new.branch = rec.branch /\ new.req = rec.req
              /\ rec.rule => new.rule
      BY ResettledRecords DEF m
    <2> QED BY <1>12, <2>1, <2>2
  <1>15. MoreRuled(w, m)
    BY <1>12, <1>13, <1>14 DEF MoreRuled
  <1>16. Keeps(m, free)
    BY <1>11, <1>15, KeepsRuled
  <1> QED BY <1>16 DEF m

-----------------------------------------------------------------------------
(* Calls are numbered, and one request at most is made for each *)

Same == Made' = Made /\ \A r \in Made : seerr'[r].by = seerr[r].by /\ seerr'[r].call = seerr[r].call /\ seerr'[r].late = seerr[r].late

\* What a step does outside the store: nothing to requests, or one of a few things.
LEMMA WorldKinds ==
  ASSUME SeerrTyped, [Next]_vars
  PROVE  \/ /\ Same /\ flying' \subseteq flying /\ unsaved' \subseteq unsaved /\ spent'.calls = spent.calls
            /\ here => here'
         \/ DecideRequest \/ Send
         \/ \E u \in Member : Direct(u) \/ \E h \in Household : Submit(u, h)
         \/ \E f \in flying : SeerrMakes(f)
  <1> DEFINE Quiet == /\ Same /\ flying' \subseteq flying /\ unsaved' \subseteq unsaved /\ spent'.calls = spent.calls
                      /\ here => here'
  <1>1. CASE UNCHANGED <<here, seerr, lapsed, flying, unsaved, asked, spent>>
    BY <1>1 DEF Same, Made
  <1>2. CASE Save
    BY <1>2 DEF Save, world, bounds, Same, Made
  <1>3. ASSUME NEW f \in flying, SeerrRefuses(f) PROVE Quiet
    BY <1>3 DEF SeerrRefuses, bounds, Same, Made
  <1>4. ASSUME NEW r \in Made, Decline(r) PROVE Quiet
    <2>1. /\ UNCHANGED <<here, flying, unsaved>> /\ spent' = [spent EXCEPT !.declined = @ + 1]
          /\ seerr' = [seerr EXCEPT ![r].status = "declined"]
      BY <1>4 DEF Decline
    <2>2. Same
      BY <2>1, StatusKept DEF Same
    <2>3. spent'.calls = spent.calls
      BY <2>1 DEF SeerrTyped
    <2> QED BY <2>1, <2>2, <2>3
  <1>5. ASSUME NEW r \in Made, Available(r) PROVE Quiet
    <2>1. /\ UNCHANGED <<here, flying, unsaved, spent>> /\ seerr' = [seerr EXCEPT ![r].status = "completed"]
      BY <1>5 DEF Available, bounds
    <2>2. Same
      BY <2>1, StatusKept DEF Same
    <2> QED BY <2>1, <2>2
  <1>6. ASSUME NEW h \in Household, Replace(h) PROVE Quiet
    BY <1>6 DEF Replace, world, SeerrTyped, Same, Made
  <1>7. CASE Crash
    BY <1>7 DEF Crash, world, SeerrTyped, Same, Made
  <1>8. CASE Arrive \/ Recovers
    BY <1>8 DEF Arrive, Recovers, world, bounds, Same, Made
  <1>9. ASSUME NEW r \in Made, Hook(r) PROVE Quiet
    BY <1>9 DEF Hook, world, bounds, Same, Made
  <1>10. CASE Outside
    BY <1>3, <1>4, <1>5, <1>6, <1>7, <1>8, <1>9, <1>10 DEF Outside
  <1> QED BY <1>1, <1>2, <1>10, OutsideActions

\* The running call goes on.
Moves ==
  /\ call.pc \notin {"idle", "retry", "write"} /\ call'.pc \notin {"idle", "look", "retry"}
  /\ call'.call = call.call /\ call'.user = call.user /\ call'.home = call.home /\ call'.epoch = call.epoch
  /\ call'.pc = "decide" => call.pc = "look"
  /\ call'.pc \in {"join", "save", "recheck"} => call.pc \in {"decide", "join", "save", "recheck"}
  /\ call'.pc = "conflict" => \E f \in flying : SeerrRefuses(f) /\ Waiting(f)

\* What a step does to the call: nothing, its end, its next stage or a new call.
LEMMA CallKinds ==
  ASSUME CallTyped, [Next]_vars
  PROVE  \/ UNCHANGED call
         \/ call' = NoCall
         \/ WriteOutcome /\ call' = [NoCall EXCEPT !.pc = "retry", !.call = call.call]
         \/ Moves
         \/ \E h \in Household : \E u \in Member : Submit(u, h)
  <1>1. CASE CallFails \/ NothingToDo \/ RetryAfterCall \/ Crash
    BY <1>1 DEF CallFails, NothingToDo, RetryAfterCall, Crash
  <1>2. CASE WriteOutcome
    BY <1>2 DEF WriteOutcome
  <1>3. CASE Look \/ DecideJoin \/ DecideFollow \/ DecideRequest
    <2>1. CASE Look
      BY <2>1 DEF CallTyped, Moves, Look
    <2>2. CASE DecideJoin
      BY <2>2 DEF CallTyped, Moves, DecideJoin
    <2>3. CASE DecideFollow
      BY <2>3 DEF CallTyped, Moves, DecideFollow
    <2>4. CASE DecideRequest
      BY <2>4 DEF CallTyped, Moves, DecideRequest
    <2> QED BY <1>3, <2>1, <2>2, <2>3, <2>4
  <1>4. CASE Join
    <2> DEFINE joins == mem.epoch[call.home] = call.epoch /\ mem.granted # {}
               completed == [NewRecord("join", NoRequest) EXCEPT !.status = "completed"]
               add == IF joins THEN {completed} ELSE {}
    <2>1. call.pc = "join" /\ (call' = [call EXCEPT !.pc = "write", !.out.add = add] \/ call' = [call EXCEPT !.pc = "write"])
      BY <1>4 DEF Join
    <2> HIDE DEF add
    <2> QED BY <2>1 DEF CallTyped, Moves
  <1>5. CASE IntentSaved \/ IntentNotSaved \/ RecheckFails \/ RecheckJoin \/ Send \/ NoAnswer
    BY <1>5 DEF CallTyped, Moves, IntentSaved, IntentNotSaved, RecheckFails, RecheckJoin, Send, NoAnswer
  <1>6. CASE Settle
    <2>1. call.pc = "settle" /\ \E o : call' = [call EXCEPT !.pc = "write", !.out = o]
      BY <1>6 DEF Settle
    <2> QED BY <2>1 DEF CallTyped, Moves
  <1>7. CASE FallBack
    <2>1. call.pc = "conflict" /\ \E o : call' = [call EXCEPT !.pc = "write", !.out = o]
      BY <1>7 DEF FallBack
    <2> QED BY <2>1 DEF CallTyped, Moves
  <1>8. ASSUME NEW f \in flying, SeerrMakes(f) PROVE UNCHANGED call \/ Moves
    BY <1>8 DEF CallTyped, Moves, SeerrMakes, Waiting
  <1>9. ASSUME NEW f \in flying, SeerrRefuses(f) PROVE UNCHANGED call \/ Moves
    <2>1. \/ UNCHANGED call
          \/ Waiting(f) /\ \E o : call' = [call EXCEPT !.pc = "write", !.out = o]
          \/ Waiting(f) /\ call' = [call EXCEPT !.pc = "conflict"]
      BY <1>9 DEF SeerrRefuses
    <2> QED BY <1>9, <2>1 DEF CallTyped, Moves, Waiting
  <1> QED BY <1>1, <1>2, <1>3, <1>4, <1>5, <1>6, <1>7, <1>8, <1>9, CallActions DEF CallStep

\* What is made and under way in a step that changes it.
LEMMA DecideRequestWorld ==
  ASSUME DecideRequest
  PROVE  /\ Same /\ UNCHANGED <<here, flying, spent>> /\ unsaved' = unsaved \cup {call.call}
         /\ call.pc = "decide" /\ call'.pc = "save" /\ call'.call = call.call
  BY DEF DecideRequest, bounds, Same, Made

\* Sending puts a request under way for an intent that is on disk, or gives up.
LEMMA SendWorld ==
  ASSUME CallTyped, Send
  PROVE  /\ Same /\ UNCHANGED <<here, unsaved, spent>> /\ call.pc = "recheck" /\ call'.call = call.call
         /\ \/ /\ flying' = flying \cup {[call |-> call.call, user |-> call.user]} /\ call.call \notin unsaved
               /\ call'.pc = "sent" /\ (\E i \in mem.intents : i.call = call.call) /\ UNCHANGED mem
            \/ UNCHANGED <<flying, mem>> /\ call'.pc = "write"
  BY DEF Send, bounds, Same, Made, IntentOnDisk, CallTyped

\* A request made in Seerr itself belongs to no call.
LEMMA DirectWorld ==
  ASSUME SeerrTyped, NEW u \in Member, Direct(u)
  PROVE  /\ Made' = Made \cup {Len(seerr) + 1} /\ Len(seerr) + 1 \notin Made
         /\ \A r \in Made : seerr'[r] = seerr[r]
         /\ seerr'[Len(seerr) + 1].call = 0 /\ seerr'[Len(seerr) + 1].late = here
         /\ UNCHANGED <<mem, unsaved, here, flying, call, queue, refresh>> /\ spent'.calls = spent.calls
  <1>1. Make(u, 0) /\ UNCHANGED <<mem, unsaved, here, flying, call, queue, refresh>> /\ spent' = [spent EXCEPT !.direct = @ + 1]
    BY DEF Direct
  <1>2. 0 \in 0..MaxCalls
    BY BoundsAssumption
  <1>3. /\ Made' = Made \cup {Len(seerr) + 1} /\ Len(seerr) + 1 \notin Made
        /\ \A r \in Made : seerr'[r] = seerr[r]
        /\ seerr'[Len(seerr) + 1] = [by |-> u, status |-> "active", call |-> 0, late |-> here]
    BY <1>1, <1>2, MakeFields
  <1>4. spent'.calls = spent.calls
    BY <1>1 DEF SeerrTyped
  <1> QED BY <1>1, <1>3, <1>4

\* Seerr makes one request for one that was under way, late if the title is public by then.
LEMMA MakesWorld ==
  ASSUME SeerrTyped, CallTyped, NEW f \in flying, SeerrMakes(f)
  PROVE  /\ Made' = Made \cup {Len(seerr) + 1} /\ Len(seerr) + 1 \notin Made
         /\ \A r \in Made : seerr'[r] = seerr[r]
         /\ seerr'[Len(seerr) + 1].by = f.user /\ seerr'[Len(seerr) + 1].call = f.call
         /\ seerr'[Len(seerr) + 1].late = here
         /\ flying' = flying \ {f} /\ UNCHANGED <<mem, unsaved, here, queue, refresh, spent>>
         /\ \/ UNCHANGED call
            \/ Waiting(f) /\ call' = [call EXCEPT !.pc = "settle", !.req = Len(seerr) + 1]
  <1>1. Make(f.user, f.call) /\ flying' = flying \ {f} /\ UNCHANGED <<mem, unsaved, here, queue, refresh, spent>>
    BY DEF SeerrMakes, bounds
  <1>2. f.user \in Member /\ f.call \in 0..MaxCalls
    BY BoundsAssumption DEF SeerrTyped
  <1>3. /\ Made' = Made \cup {Len(seerr) + 1} /\ Len(seerr) + 1 \notin Made
        /\ \A r \in Made : seerr'[r] = seerr[r]
        /\ seerr'[Len(seerr) + 1] = [by |-> f.user, status |-> "active", call |-> f.call, late |-> here]
    BY <1>1, <1>2, MakeFields
  <1>4. \/ UNCHANGED call
        \/ Waiting(f) /\ call' = [call EXCEPT !.pc = "settle", !.req = Len(seerr) + 1]
    BY DEF SeerrMakes
  <1> QED BY <1>1, <1>3, <1>4

\* A new call has a number no call had.
LEMMA SubmitWorld ==
  ASSUME SeerrTyped, NEW u \in Member, NEW h \in Household, Submit(u, h)
  PROVE  /\ Same /\ UNCHANGED <<mem, here, flying, unsaved, queue, refresh>> /\ spent'.calls = spent.calls + 1
         /\ call.pc = "idle" /\ call'.pc = "look" /\ call'.call = spent.calls + 1 /\ call'.out = NoOutcome
  <1>1. /\ UNCHANGED <<mem, here, seerr, flying, unsaved, queue, refresh>> /\ spent' = [spent EXCEPT !.calls = @ + 1] /\ call.pc = "idle"
        /\ call' = [NoCall EXCEPT !.pc = "look", !.call = spent.calls + 1, !.user = u, !.home = h, !.epoch = mem.epoch[h]]
    BY DEF Submit, world
  <1>2. call'.pc = "look" /\ call'.call = spent.calls + 1 /\ call'.out = NoOutcome
    BY <1>1 DEF NoCall
  <1>3. spent'.calls = spent.calls + 1
    BY <1>1 DEF SeerrTyped
  <1> QED BY <1>1, <1>2, <1>3 DEF Same, Made

\* A call that sent nothing, and is not sending, has no request.
LEMMA UnsentStays ==
  ASSUME SeerrTyped, CallTyped, [Next]_vars, NEW n, n # 0, Unsent(n), Send => n # call.call
  PROVE  (\A r \in Made' : seerr'[r].call # n) /\ \A f \in flying' : f.call # n
  <1>1. CASE Same /\ flying' \subseteq flying
    BY <1>1 DEF Same, Unsent
  <1>2. CASE DecideRequest
    BY <1>1, <1>2, DecideRequestWorld
  <1>3. CASE Send
    BY <1>3, SendWorld DEF Same, Unsent
  <1>4. ASSUME NEW u \in Member, Direct(u) PROVE (\A r \in Made' : seerr'[r].call # n) /\ \A f \in flying' : f.call # n
    BY <1>4, DirectWorld DEF Unsent
  <1>5. ASSUME NEW u \in Member, NEW h \in Household, Submit(u, h)
        PROVE  (\A r \in Made' : seerr'[r].call # n) /\ \A f \in flying' : f.call # n
    BY <1>1, <1>5, SubmitWorld
  <1>6. ASSUME NEW f \in flying, SeerrMakes(f) PROVE (\A r \in Made' : seerr'[r].call # n) /\ \A g \in flying' : g.call # n
    BY <1>6, MakesWorld DEF Unsent
  <1> QED BY <1>1, <1>2, <1>3, <1>4, <1>5, <1>6, WorldKinds

\* Every step keeps one request at most for each call, and none before its intent is on disk.
LEMMA NumberedKept ==
  ASSUME SeerrTyped, CallTyped, Numbered, [Next]_vars
  PROVE  Numbered'
  <1> USE BoundsAssumption
  <1>1. spent.calls \in Nat
    BY DEF SeerrTyped
  <1>2. call.pc # "idle" => call.call = spent.calls
    BY DEF Numbered
  <1>3. /\ \A r \in Made' : seerr'[r].call \in 0..spent'.calls /\ (seerr'[r].late => here')
        /\ \A q, r \in Made' : seerr'[r].call # 0 /\ seerr'[q].call = seerr'[r].call => q = r
        /\ \A f \in flying' : f.call \in 1..spent'.calls /\ \A r \in Made' : seerr'[r].call # f.call
        /\ \A f, g \in flying' : g.call = f.call => g = f
    <2> DEFINE Goal == /\ \A r \in Made' : seerr'[r].call \in 0..spent'.calls /\ (seerr'[r].late => here')
                       /\ \A q, r \in Made' : seerr'[r].call # 0 /\ seerr'[q].call = seerr'[r].call => q = r
                       /\ \A f \in flying' : f.call \in 1..spent'.calls /\ \A r \in Made' : seerr'[r].call # f.call
                       /\ \A f, g \in flying' : g.call = f.call => g = f
    <2>1. ASSUME Same, flying' \subseteq flying, spent'.calls = spent.calls, here => here' PROVE Goal
      BY <2>1 DEF Same, Numbered
    <2>2. CASE DecideRequest
      BY <2>1, <2>2, DecideRequestWorld
    <2>3. CASE Send
      <3>1. Unsent(call.call) /\ call.call \in 1..spent.calls
        BY <1>2, <2>3, SendWorld DEF Numbered, CallTyped
      <3>2. Same /\ UNCHANGED <<here, spent>> /\ flying' \subseteq flying \cup {[call |-> call.call, user |-> call.user]}
        BY <2>3, SendWorld
      <3> QED BY <3>1, <3>2 DEF Same, Numbered, Unsent
    <2>4. ASSUME NEW u \in Member, Direct(u) PROVE Goal
      <3>1. PICK k : k = Len(seerr) + 1
        OBVIOUS
      <3>2. /\ Made' = Made \cup {k} /\ k \notin Made /\ (\A r \in Made : seerr'[r] = seerr[r]) /\ seerr'[k].call = 0
            /\ seerr'[k].late = here /\ UNCHANGED <<here, flying>> /\ spent'.calls = spent.calls
        BY <2>4, <3>1, DirectWorld
      <3>4. \A r \in Made' : seerr'[r].call \in 0..spent'.calls /\ (seerr'[r].late => here')
        BY <1>1, <3>2 DEF Numbered
      <3>5. \A q, r \in Made' : seerr'[r].call # 0 /\ seerr'[q].call = seerr'[r].call => q = r
        BY <3>2 DEF Numbered
      <3>6. \A f \in flying' : f.call \in 1..spent'.calls /\ \A r \in Made' : seerr'[r].call # f.call
        BY <1>1, <3>2 DEF Numbered
      <3> QED BY <3>2, <3>4, <3>5, <3>6 DEF Numbered
    <2>5. ASSUME NEW u \in Member, NEW h \in Household, Submit(u, h) PROVE Goal
      BY <1>1, <2>5, SubmitWorld DEF Same, Numbered
    <2>6. ASSUME NEW f \in flying, SeerrMakes(f) PROVE Goal
      <3>1. f.call \in 1..spent.calls /\ f.call \in 0..spent.calls
        BY <1>1 DEF Numbered
      <3> QED BY <2>6, <3>1, MakesWorld DEF Numbered
    <2> QED BY <2>1, <2>2, <2>3, <2>4, <2>5, <2>6, WorldKinds
  <1>4. call'.pc # "idle" => call'.call = spent'.calls
    <2>1. ASSUME UNCHANGED spent \/ spent'.calls = spent.calls PROVE call'.pc # "idle" => call'.call = spent'.calls
      <3>1. CASE \E h \in Household : \E u \in Member : Submit(u, h)
        BY <1>1, <2>1, <3>1, SubmitWorld
      <3>2. CASE WriteOutcome /\ call' = [NoCall EXCEPT !.pc = "retry", !.call = call.call]
        BY <1>2, <2>1, <3>2 DEF NoCall, WriteOutcome
      <3>3. CASE call' = NoCall
        BY <3>3 DEF NoCall
      <3> QED BY <1>2, <2>1, <3>1, <3>2, <3>3, CallKinds DEF Moves
    <2>2. ASSUME NEW u \in Member, NEW h \in Household, Submit(u, h) PROVE call'.call = spent'.calls
      BY <2>2, SubmitWorld
    <2>3. ASSUME NEW u \in Member, Direct(u) PROVE spent'.calls = spent.calls
      BY <2>3, DirectWorld
    <2>4. ASSUME NEW f \in flying, SeerrMakes(f) PROVE UNCHANGED spent
      BY <2>4, MakesWorld
    <2> QED BY <2>1, <2>2, <2>3, <2>4, WorldKinds, DecideRequestWorld, SendWorld
  <1>5. call'.pc \in {"look", "decide", "join", "save", "recheck", "conflict"} =>
          (\A r \in Made' : seerr'[r].call # call'.call) /\ \A f \in flying' : f.call # call'.call
    <2> SUFFICES ASSUME call'.pc \in {"look", "decide", "join", "save", "recheck", "conflict"}
                 PROVE  (\A r \in Made' : seerr'[r].call # call'.call) /\ \A f \in flying' : f.call # call'.call
      OBVIOUS
    <2>1. ASSUME call'.call = call.call, call.pc \in {"look", "decide", "join", "save", "recheck", "conflict"}
          PROVE  (\A r \in Made' : seerr'[r].call # call'.call) /\ \A f \in flying' : f.call # call'.call
      <3>1. Unsent(call.call) /\ call.call # 0
        BY <2>1 DEF Numbered, CallTyped
      <3>2. ~Send
        BY SendWorld
      <3> QED BY <2>1, <3>1, <3>2, UnsentStays
    <2>2. CASE \E h \in Household : \E u \in Member : Submit(u, h)
      <3>1. /\ Same /\ UNCHANGED flying /\ call'.call = spent.calls + 1
        BY <2>2, SubmitWorld
      <3> QED BY <1>1, <3>1 DEF Same, Numbered
    <2>3. CASE Moves /\ call'.pc = "conflict"
      <3>1. PICK f \in flying : SeerrRefuses(f) /\ Waiting(f)
        BY <2>3 DEF Moves
      <3>2. flying' = flying \ {f} /\ Same /\ f.call = call.call /\ call'.call = call.call
        BY <2>3, <3>1 DEF SeerrRefuses, Waiting, Moves, Same, Made
      <3> QED BY <3>2 DEF Numbered, Same
    <2>4. CASE Moves /\ call'.pc # "conflict"
      BY <2>1, <2>4 DEF Moves
    <2>5. NoCall.pc = "idle" /\ [NoCall EXCEPT !.pc = "retry", !.call = call.call].pc = "retry"
      BY DEF NoCall
    <2> QED BY <2>1, <2>2, <2>3, <2>4, <2>5, CallKinds
  <1>6. \A n \in unsaved' : (\A r \in Made' : seerr'[r].call # n) /\ \A f \in flying' : f.call # n
    <2>1. ASSUME NEW n \in unsaved, ~Send \/ call.call \notin unsaved
          PROVE  (\A r \in Made' : seerr'[r].call # n) /\ \A f \in flying' : f.call # n
      <3>1. Unsent(n) /\ n # 0
        BY DEF Numbered, SeerrTyped
      <3> QED BY <2>1, <3>1, UnsentStays
    <2>2. CASE DecideRequest
      <3>1. Unsent(call.call) /\ call.call # 0 /\ unsaved' = unsaved \cup {call.call} /\ ~Send
        BY <2>2, DecideRequestWorld, SendWorld DEF Numbered, CallTyped
      <3>2. (\A r \in Made' : seerr'[r].call # call.call) /\ \A f \in flying' : f.call # call.call
        BY <3>1, UnsentStays
      <3> QED BY <2>1, <3>1, <3>2
    <2>3. CASE Send
      <3>1. UNCHANGED unsaved
        BY <2>3, SendWorld
      <3>2. CASE call.call \notin unsaved
        BY <2>1, <3>1, <3>2
      <3>3. CASE call.call \in unsaved
        <4>1. Same /\ UNCHANGED flying
          BY <2>3, <3>3, SendWorld
        <4> QED BY <3>1, <4>1 DEF Numbered, Unsent, Same
      <3> QED BY <3>2, <3>3
    <2>4. ASSUME NEW u \in Member, Direct(u) PROVE UNCHANGED unsaved
      BY <2>4, DirectWorld
    <2>5. ASSUME NEW f \in flying, SeerrMakes(f) PROVE UNCHANGED unsaved
      BY <2>5, MakesWorld
    <2>6. ASSUME NEW u \in Member, NEW h \in Household, Submit(u, h) PROVE UNCHANGED unsaved
      BY <2>6, SubmitWorld
    <2> QED BY <2>1, <2>2, <2>3, <2>4, <2>5, <2>6, WorldKinds
  <1> QED BY <1>3, <1>4, <1>5, <1>6 DEF Numbered, Unsent

-----------------------------------------------------------------------------
(* What every step but a call's two writes and a crash leaves in the store *)

\* Nothing that protects a request is lost, and no intent is written.
Quietly ==
  UNCHANGED <<seerr, flying>> /\ \E m \in State : mem' = m /\ m.intents \subseteq mem.intents /\ Keeps(m, Free')

\* An outcome that settles nothing leaves every intent but those it removes.
LEMMA NoSettling ==
  ASSUME NEW m \in State, NEW epoch, NEW out, out.settle = {}
  PROVE  Written(m, epoch, out).intents = {i \in m.intents : i.call \notin out.remove}
  <1>1. Written(m, epoch, out).intents = {Settling(i, out.settle) : i \in {j \in m.intents : j.call \notin out.remove}}
    BY DEF Written, State
  <1>2. \A i : Settling(i, out.settle) = i
    BY DEF Settling
  <1> QED BY <1>1, <1>2

\* An intent that settled since a refresh listed it sets its request free when the refresh resolves it.
LEMMA ReworkedFree ==
  ASSUME NEW i, i.status = "submitting", Reworks(i), \A j \in mem'.intents : j.call # i.call
  PROVE  Released(i) \subseteq Free'
  BY DEF Reworks, Released, Free

\* A step that only names more is quiet: what named a late request still does.
LEMMA RuledQuietly ==
  ASSUME Keeps(mem, Free), Free \subseteq Free', UNCHANGED <<seerr, flying>>, NEW m \in State, mem' = m, MoreRuled(mem, m)
  PROVE  Quietly
  <1>1. PICK free : free = Free'
    OBVIOUS
  <1>2. Keeps(mem, free)
    BY <1>1, KeepsFewer
  <1>3. Keeps(m, free)
    BY <1>2, KeepsRuled
  <1> QED BY <1>1, <1>3 DEF MoreRuled, Quietly

\* A step that leaves records, intents and tombstones alone is quiet.
LEMMA SameRecordsQuietly ==
  ASSUME Keeps(mem, Free), Free \subseteq Free', UNCHANGED <<seerr, flying>>, NEW m \in State, mem' = m,
         m.tombs = mem.tombs, m.intents = mem.intents, m.records = mem.records, mem.handled \subseteq m.handled
  PROVE  Quietly
  <1>1. MoreRuled(mem, m)
    BY DEF MoreRuled
  <1> QED BY <1>1, RuledQuietly

\* Retiring an intent is quiet.
LEMMA RetireQuietly ==
  ASSUME SeerrTyped, MemTyped, Numbered, IntentsFaithful, Keeps(mem, Free), Free \subseteq Free',
         NEW i \in Wish, AsStored(i), i.status = "submitting", NEW reqs \in SUBSET Made,
         NEW f, Retire(f, i, reqs), Reworks(i), UNCHANGED <<seerr, flying>>, MemTyped'
  PROVE  Quietly
  <1> DEFINE m == Written(mem, 0, Retired(i, reqs))
  <1>1. mem' = m
    BY DEF Retire, Retired
  <1>2. m.intents \subseteq mem.intents /\ \A j \in m.intents : j.call # i.call
    BY RetiredFields, NoSettling DEF MemTyped
  <1>3. PICK free : free = Free'
    OBVIOUS
  <1>4. Keeps(mem, free) /\ Released(i) \subseteq free
    BY <1>1, <1>2, <1>3, KeepsFewer, ReworkedFree
  <1>5. Keeps(m, free)
    BY <1>4, RetireKeeps
  <1> HIDE DEF m
  <1>6. m \in State
    BY <1>1 DEF MemTyped
  <1> QED BY <1>1, <1>2, <1>3, <1>5, <1>6 DEF Quietly

\* What a step does to the store: nothing, a new intent, a call's outcome, a crash, or something quiet.
LEMMA StoreKinds ==
  ASSUME AskInv, Numbered, IntentsFaithful, ListedFaithful, Keeps(mem, Free), [Next]_vars
  PROVE  UNCHANGED mem \/ DecideRequest \/ WriteOutcome \/ Crash \/ Quietly
  <1>1. /\ SeerrTyped /\ MemTyped /\ CallTyped /\ QueueTyped /\ RefreshTyped /\ MemAsked /\ CallAsked /\ RefreshAsked
        /\ MemTyped' /\ mem \in State /\ mem' \in State /\ Free \subseteq Free'
    BY MemKept, SlipsKept DEF AskInv, TypeInv, MemTyped, Free
  <1>2. CASE Join
    <2> DEFINE homes == {call.home}
    <2>1. UNCHANGED <<seerr, flying>> /\ (UNCHANGED mem \/ mem' = Joined(mem, homes))
      BY <1>2 DEF Join, world
    <2>2. homes \in SUBSET Household
      BY <1>1, <1>2, HomesAssumption DEF Join, CallTyped
    <2> HIDE DEF homes
    <2>3. ASSUME mem' = Joined(mem, homes) PROVE Quietly
      BY <1>1, <2>1, <2>2, <2>3, JoinedFields, SameRecordsQuietly
    <2> QED BY <2>1, <2>3
  <1>3. ASSUME NEW h \in Household, Replace(h) PROVE Quietly
    <2> DEFINE m == Replaced(mem, h)
               gone(rec) == IF rec.home = h THEN [rec EXCEPT !.detached = TRUE] ELSE rec
    <2>1. UNCHANGED <<seerr, flying>> /\ mem' = m
      BY <1>3 DEF Replace, world
    <2>2. /\ m.records = {gone(rec) : rec \in mem.records} /\ m.intents = mem.intents /\ m.tombs = mem.tombs
          /\ m.handled = mem.handled /\ m \in State
      BY <1>1, ReplacedFields
    <2>3. \A rec \in mem.records : gone(rec).branch = rec.branch /\ gone(rec).req = rec.req /\ (rec.rule => gone(rec).rule)
      BY <1>1 DEF State, Record
    <2> HIDE DEF m, gone
    <2>4. MoreRuled(mem, m)
      BY <2>2, <2>3 DEF MoreRuled
    <2> QED BY <1>1, <2>1, <2>2, <2>4, RuledQuietly
  <1>4. ASSUME NEW d, UNCHANGED <<seerr, flying>>, mem' = [mem EXCEPT !.deferred = d] PROVE Quietly
    <2>1. mem'.tombs = mem.tombs /\ mem'.intents = mem.intents /\ mem'.records = mem.records /\ mem'.handled = mem.handled
      BY <1>1, <1>4 DEF State
    <2> QED BY <1>1, <1>4, <2>1, SameRecordsQuietly
  <1>5. ASSUME NEW r \in queue.todo, Rule(r) PROVE UNCHANGED mem \/ Quietly
    <2>1. UNCHANGED <<seerr, flying>>
      BY <1>5 DEF Rule, world
    <2>2. UNCHANGED mem \/ mem' = [mem EXCEPT !.deferred = mem.deferred \cup {r}]
      BY <1>1, <1>5, RuleFields, RuledFields
    <2> QED BY <1>4, <2>1, <2>2
  <1>6. CASE RequestRead
    <2>1. UNCHANGED <<seerr, flying>>
      BY <1>6 DEF RequestRead, world
    <2>2. UNCHANGED mem \/ mem' = [mem EXCEPT !.deferred = mem.deferred \cup {queue.req}]
      BY <1>1, <1>6, RequestReadFields, RuledFields
    <2> QED BY <1>4, <2>1, <2>2
  <1>7. CASE Act
    <2>1. /\ UNCHANGED <<seerr, flying>>
          /\ \/ UNCHANGED mem
             \/ mem' = Handled(mem, queue.req)
             \/ mem' = GrantedTo(mem, queue.req, Homes[seerr[queue.req].by])
      BY <1>7 DEF Act, world
    <2>2. UNCHANGED mem \/ /\ mem'.tombs = mem.tombs /\ mem'.intents = mem.intents /\ mem'.records = mem.records
                           /\ mem.handled \subseteq mem'.handled
      BY <1>1, <2>1 DEF Handled, GrantedTo, State
    <2> QED BY <1>1, <2>1, <2>2, SameRecordsQuietly
  <1>8. CASE SettleRecords
    <2>1. UNCHANGED <<seerr, flying>> /\ (UNCHANGED mem \/ mem' = RecordsSettled(mem, queue.req))
      BY <1>8 DEF SettleRecords, world
    <2>2. ASSUME mem' = RecordsSettled(mem, queue.req) PROVE Quietly
      <3>1. PICK m : m = mem'
        OBVIOUS
      <3>2. m \in State /\ m.intents = mem.intents /\ m.tombs = mem.tombs /\ m.handled = mem.handled
        BY <1>1, <2>2, <3>1, RecordsSettledFields
      <3>3. \A new \in m.records : \E rec \in mem.records :
              /\ new.home = rec.home /\ new.user = rec.user /\ new.branch = rec.branch
              /\ new.req = rec.req /\ new.rule = rec.rule /\ new.detached = rec.detached
              /\ new.status = "completed" /\ new.branch = "interest" => new.home \in m.groups \/ rec.status = "completed"
        BY <1>1, <2>2, <3>1, RecordsSettledFields
      <3>4. \A rec \in mem.records : \E new \in m.records :
              new.branch = rec.branch /\ new.req = rec.req /\ new.rule = rec.rule
        BY <1>1, <2>2, <3>1, RecordsSettledFields
      <3>5. MoreRuled(mem, m)
        BY <3>2, <3>3, <3>4 DEF MoreRuled
      <3> QED BY <1>1, <2>1, <3>1, <3>2, <3>5, RuledQuietly
    <2> QED BY <2>1, <2>2
  <1>9. CASE JobDone
    <2>1. UNCHANGED <<seerr, flying>> /\ (UNCHANGED mem \/ mem' = [mem EXCEPT !.deferred = mem.deferred \ queue.done])
      BY <1>9 DEF JobDone, world
    <2> QED BY <1>4, <2>1
  <1>10. ASSUME NEW f \in Refresher, NEW i \in refresh[f].intents, RefreshIntent(f, i) PROVE UNCHANGED mem \/ Quietly
    <2>1. i \in Wish /\ AsStored(i)
      BY <1>1 DEF RefreshTyped, ListedFaithful, Listed
    <2>2. UNCHANGED <<seerr, flying>> /\ Reworks(i)
      BY <1>10 DEF RefreshIntent, world
    <2>3. UNCHANGED mem \/ (i.status = "submitting" /\ \E reqs \in SUBSET Made : Retire(f, i, reqs))
      <3>1. Candidates(i) \subseteq Made
        BY DEF Candidates
      <3> QED BY <1>1, <1>10, <3>1, RefreshIntentFields DEF Leave
    <2> QED BY <1>1, <2>1, <2>2, <2>3, RetireQuietly
  <1>11. ASSUME NEW f \in Refresher, RefreshSettle(f) PROVE UNCHANGED mem \/ Quietly
    <2> DEFINE i == refresh[f].intent
               r == refresh[f].made
    <2>1. /\ i \in Wish /\ (i.status = "submitting" => r \in Made) /\ i.status \in {"submitting", "settling"}
          /\ AsStored(i)
      BY <1>1, <1>11 DEF RefreshSettle, RefreshTyped, Wish, Intent, ListedFaithful, Listed
    <2>2. UNCHANGED <<seerr, flying>> /\ Reworks(i)
      BY <1>11 DEF RefreshSettle, world
    <2>3. \/ UNCHANGED mem
          \/ i.status = "submitting" /\ mem' = Written(mem, i.epoch, Recovered(i, r, here))
          \/ i.status = "settling" /\ mem' = Resettled(mem, i, here)
          \/ i.status = "submitting" /\ Retire(f, i, {r})
          \/ i.status = "settling" /\ mem' = Resettled(mem, i, TRUE)
      BY <1>11, <2>1 DEF RefreshSettle, SettleRead, Leave
    <2> HIDE DEF i, r
    <2>4. CASE i.status = "submitting" /\ mem' = Written(mem, i.epoch, Recovered(i, r, here))
      <3> DEFINE m == Written(mem, i.epoch, Recovered(i, r, here))
      <3>1. PICK free : free = Free'
        OBVIOUS
      <3>2. m.intents \subseteq mem.intents /\ \A j \in m.intents : j.call # i.call
        <4>1. Recovered(i, r, here).settle = {} /\ Recovered(i, r, here).remove = {i.call}
          BY DEF Recovered, NoOutcome
        <4> QED BY <1>1, <4>1, NoSettling
      <3>3. Keeps(mem, free) /\ Released(i) \subseteq free
        BY <1>1, <2>2, <2>4, <3>1, <3>2, KeepsFewer, ReworkedFree
      <3>4. Keeps(m, free)
        BY <1>1, <2>1, <2>4, <3>3, RecoveredKeeps
      <3> HIDE DEF m
      <3>5. mem' = m
        BY <2>4 DEF m
      <3> QED BY <1>1, <2>2, <3>1, <3>2, <3>4, <3>5 DEF Quietly
    <2>5. ASSUME NEW follow \in BOOLEAN, here => follow, i.status = "settling", mem' = Resettled(mem, i, follow)
          PROVE  Quietly
      <3> DEFINE m == Resettled(mem, i, follow)
                 w == Written(mem, 0, ResettledAs(i, follow))
      <3>1. PICK free : free = Free'
        OBVIOUS
      <3>4. Keeps(mem, free)
        BY <1>1, <3>1, KeepsFewer
      <3>5. Keeps(m, free)
        BY <1>1, <2>1, <2>5, <3>4, ResettledKeeps
      <3>2. m.intents \subseteq mem.intents
        <4>1. m.intents = w.intents /\ ResettledAs(i, follow).settle = {}
          BY <1>1, <2>1, ResettledFields
        <4>2. w.intents \subseteq mem.intents
          BY <1>1, <4>1, NoSettling
        <4> QED BY <4>1, <4>2
      <3> HIDE DEF m
      <3>3. mem' = m
        BY <2>5 DEF m
      <3> QED BY <1>1, <2>2, <3>1, <3>2, <3>3, <3>5 DEF Quietly
    <2>6. CASE i.status = "submitting" /\ Retire(f, i, {r})
      <3> DEFINE reqs == {r}
      <3>1. reqs \in SUBSET Made /\ Retire(f, i, reqs)
        BY <2>1, <2>6
      <3> HIDE DEF reqs
      <3> QED BY <1>1, <2>1, <2>2, <2>6, <3>1, RetireQuietly
    <2>7. PICK present \in BOOLEAN : present = here
      BY <1>1 DEF SeerrTyped
    <2> QED BY <2>3, <2>4, <2>5, <2>6, <2>7
  <1>12. ASSUME NEW f \in Refresher, NEW rec \in refresh[f].records, RefreshRecord(f, rec) PROVE UNCHANGED mem \/ Quietly
    <2>1. UNCHANGED <<seerr, flying>> /\ rec \in Entry /\ rec.status = "pending"
      BY <1>1, <1>12, RefreshRecordFields
    <2>2. \/ UNCHANGED mem
          \/ \E m \in State :
                 /\ mem' = m
                 /\ m.intents = mem.intents /\ m.tombs = mem.tombs /\ m.deferred = mem.deferred
                 /\ m.handled = mem.handled /\ m.granted = mem.granted /\ m.epoch = mem.epoch
                 /\ mem.groups \subseteq m.groups
                 /\ \A h \in m.groups : h \in mem.groups \/ \E x \in mem.records : x.home = h /\ ~x.detached
                 /\ \/ m.records = mem.records
                    \/ /\ rec \in mem.records /\ m.records = (mem.records \ {rec}) \cup {NowIs(rec)}
                       /\ NowIs(rec).status = "completed" /\ ~MadeByItsRequest(rec) => rec.home \in m.groups
      BY <1>1, <1>12, RefreshRecordFields
    <2>3. ASSUME NEW m \in State, mem' = m, m.intents = mem.intents, m.tombs = mem.tombs, m.handled = mem.handled,
                 \/ m.records = mem.records
                 \/ rec \in mem.records /\ m.records = (mem.records \ {rec}) \cup {NowIs(rec)}
          PROVE  Quietly
      <3> DEFINE now == NowIs(rec)
      <3>1. now.branch = rec.branch /\ now.req = rec.req /\ now.rule = rec.rule
        BY <2>1, NowIsFields
      <3> HIDE DEF now
      <3>2. MoreRuled(mem, m)
        BY <2>3, <3>1 DEF MoreRuled, now
      <3> QED BY <1>1, <2>1, <2>3, <3>2, RuledQuietly
    <2> QED BY <2>2, <2>3
  <1> QED BY <1>2, <1>3, <1>5, <1>6, <1>7, <1>8, <1>9, <1>10, <1>11, <1>12, MemActions

-----------------------------------------------------------------------------
(* Intents stay what their calls made of them *)

\* An intent older than its requests stays so.
LEMMA FaithfulStays ==
  ASSUME SeerrTyped, CallTyped, Numbered, [Next]_vars, NEW i \in Wish, Faithful(i)
  PROVE  Faithful(i)'
  <1>1. spent.calls \in Nat /\ i.call \in Nat
    BY DEF SeerrTyped, Wish, Intent
  <1>2. /\ i.call \in 1..spent'.calls
        /\ \A r \in Made' : seerr'[r].call = i.call => seerr'[r].by = i.user /\ r \notin i.old
        /\ \A f \in flying' : f.call = i.call => f.user = i.user
        /\ i.status = "settling" => i.req \in Made' /\ seerr'[i.req].call = i.call
    <2> DEFINE Goal == /\ i.call \in 1..spent'.calls
                       /\ \A r \in Made' : seerr'[r].call = i.call => seerr'[r].by = i.user /\ r \notin i.old
                       /\ \A f \in flying' : f.call = i.call => f.user = i.user
                       /\ i.status = "settling" => i.req \in Made' /\ seerr'[i.req].call = i.call
    <2>1. ASSUME Same, flying' \subseteq flying, spent'.calls = spent.calls PROVE Goal
      BY <2>1 DEF Same, Faithful
    <2>2. CASE DecideRequest
      BY <2>1, <2>2, DecideRequestWorld
    <2>3. CASE Send
      <3>1. call.pc = "recheck" /\ Same /\ UNCHANGED spent
            /\ flying' \subseteq flying \cup {[call |-> call.call, user |-> call.user]}
        BY <2>3, SendWorld
      <3> QED BY <3>1 DEF Same, Faithful
    <2>4. ASSUME NEW u \in Member, Direct(u) PROVE Goal
      BY <1>1, <2>4, DirectWorld DEF Faithful
    <2>5. ASSUME NEW u \in Member, NEW h \in Household, Submit(u, h) PROVE Goal
      BY <1>1, <2>5, SubmitWorld DEF Same, Faithful
    <2>6. ASSUME NEW f \in flying, SeerrMakes(f) PROVE Goal
      <3>1. PICK k : k = Len(seerr) + 1
        OBVIOUS
      <3>2. /\ Made' = Made \cup {k} /\ k \notin Made /\ (\A r \in Made : seerr'[r] = seerr[r])
            /\ seerr'[k].by = f.user /\ seerr'[k].call = f.call /\ flying' \subseteq flying /\ UNCHANGED spent
        BY <2>6, <3>1, MakesWorld
      <3>3. k \notin i.old
        BY <3>2 DEF Wish
      <3> QED BY <3>2, <3>3 DEF Faithful
    <2> QED BY <2>1, <2>2, <2>3, <2>4, <2>5, <2>6, WorldKinds
  <1>3. i.call = call'.call => /\ call'.pc \notin {"look", "decide"}
                               /\ call'.pc \notin {"idle", "retry"} => i.user = call'.user /\ i.status = "submitting"
    <2>1. CASE \E h \in Household : \E u \in Member : Submit(u, h)
      <3>1. call'.call = spent.calls + 1
        BY <2>1, SubmitWorld
      <3> QED BY <1>1, <3>1 DEF Faithful
    <2>2. NoCall.pc = "idle" /\ [NoCall EXCEPT !.pc = "retry", !.call = call.call].pc = "retry"
      BY DEF NoCall
    <2>3. CASE Moves
      BY <2>3 DEF Moves, Faithful
    <2>4. CASE UNCHANGED call
      BY <2>4 DEF Faithful
    <2> QED BY <2>1, <2>2, <2>3, <2>4, CallKinds
  <1> QED BY <1>2, <1>3 DEF Faithful

\* The intent a call writes.
LEMMA DecideRequestIntent ==
  ASSUME MemTyped, DecideRequest
  PROVE  \E i : /\ mem'.intents = mem.intents \cup {i} /\ mem'.records = mem.records /\ mem'.tombs = mem.tombs
                /\ mem'.handled = mem.handled /\ i.call = call.call /\ i.user = call.user /\ i.home = call.home
                /\ i.status = "submitting"
  <1> DEFINE i == [call |-> call.call, user |-> call.user, home |-> call.home, epoch |-> call.epoch, old |-> 1..lapsed',
                   status |-> "submitting", req |-> NoRequest]
             intents == mem.intents \cup {i}
  <1>1. mem' = [mem EXCEPT !.intents = intents]
    BY DEF DecideRequest
  <1>2. i.call = call.call /\ i.user = call.user /\ i.home = call.home /\ i.status = "submitting"
    OBVIOUS
  <1> HIDE DEF i
  <1>3. intents = mem.intents \cup {i}
    OBVIOUS
  <1> HIDE DEF intents
  <1>4. mem'.intents = intents /\ mem'.records = mem.records /\ mem'.tombs = mem.tombs /\ mem'.handled = mem.handled
    BY <1>1 DEF MemTyped, State
  <1> QED BY <1>2, <1>3, <1>4

\* Writing a call's outcome ends the call and touches nothing outside the store.
LEMMA WriteOutcomeWorld ==
  ASSUME CallTyped, MemTyped, WriteOutcome
  PROVE  /\ UNCHANGED <<here, seerr, lapsed, flying, unsaved, spent, queue, refresh>> /\ Same
         /\ call.pc = "write" /\ call'.pc \in {"idle", "retry"} /\ (call'.pc = "retry" => call'.call = call.call)
         /\ call'.out = NoOutcome
         /\ mem \in State /\ call.epoch \in Nat /\ call.out \in Outcome
         /\ mem' = Written(mem, call.epoch, call.out)
         /\ mem'.intents = {Settling(i, call.out.settle) : i \in {j \in mem.intents : j.call \notin call.out.remove}}
  <1>1. /\ UNCHANGED <<here, seerr, lapsed, flying, unsaved, spent, queue, refresh>> /\ call.pc = "write"
        /\ mem' = Written(mem, call.epoch, call.out)
        /\ call' = NoCall \/ call' = [NoCall EXCEPT !.pc = "retry", !.call = call.call]
    BY DEF WriteOutcome, world, bounds
  <1>2. call'.pc \in {"idle", "retry"} /\ (call'.pc = "retry" => call'.call = call.call) /\ call'.out = NoOutcome
    <2> DEFINE back == [NoCall EXCEPT !.pc = "retry", !.call = call.call]
    <2>1. NoCall.pc = "idle" /\ NoCall.out = NoOutcome
      BY DEF NoCall
    <2>2. back.pc = "retry" /\ back.call = call.call /\ back.out = NoOutcome
      BY DEF NoCall
    <2> HIDE DEF back
    <2>3. call' = NoCall \/ call' = back
      BY <1>1 DEF back
    <2> QED BY <2>1, <2>2, <2>3
  <1>3. mem \in State /\ call.epoch \in Nat /\ call.out \in Outcome
    BY DEF MemTyped, CallTyped
  <1>4. mem'.intents = {Settling(i, call.out.settle) : i \in {j \in mem.intents : j.call \notin call.out.remove}}
    BY <1>1, <1>3, WrittenFields
  <1> QED BY <1>1, <1>2, <1>3, <1>4 DEF Same, Made

\* What an intent is after the call wrote.
LEMMA WrittenIntents ==
  ASSUME CallTyped, MemTyped, OutSafe(call.out), WriteOutcome
  PROVE  \A j \in mem'.intents : \E i \in mem.intents :
           /\ j.call = i.call /\ j.user = i.user /\ j.home = i.home /\ j.old = i.old
           /\ j = Settling(i, call.out.settle)
           /\ j = i \/ /\ i.call = call.call /\ j.status = "settling"
                       /\ j.req \in Made /\ seerr[j.req].call = call.call
  <1>1. /\ mem'.intents = {Settling(i, call.out.settle) : i \in {j \in mem.intents : j.call \notin call.out.remove}}
        /\ mem \in State /\ call.out \in Outcome
    BY WriteOutcomeWorld
  <1>2. call.out.settle \in SUBSET (Nat \X Nat) /\ mem.intents \subseteq Intent
    BY <1>1 DEF Outcome, State
  <1>3. \A s \in call.out.settle : s[1] = call.call /\ s[2] \in Made /\ seerr[s[2]].call = call.call
    BY DEF OutSafe
  <1> SUFFICES ASSUME NEW i \in mem.intents
               PROVE  LET j == Settling(i, call.out.settle)
                      IN  /\ j.call = i.call /\ j.user = i.user /\ j.home = i.home /\ j.old = i.old
                          /\ j = i \/ /\ i.call = call.call /\ j.status = "settling"
                                      /\ j.req \in Made /\ seerr[j.req].call = call.call
    BY <1>1
  <1> DEFINE settle == call.out.settle
             j == Settling(i, settle)
  <1>4. i \in Intent /\ settle \in SUBSET (Nat \X Nat)
    BY <1>2
  <1> HIDE DEF settle
  <1>5. /\ j.call = i.call /\ j.user = i.user /\ j.home = i.home /\ j.old = i.old
    BY <1>4, SettlingFields
  <1>6. (\A s \in settle : s[1] # i.call) => j = i
    BY <1>4, SettlingFields
  <1>7. (\E s \in settle : s[1] = i.call) => j.status = "settling" /\ \E s \in settle : s[1] = i.call /\ j.req = s[2]
    BY <1>4, SettlingFields
  <1> HIDE DEF j
  <1>8. \A s \in settle : s[1] = call.call /\ s[2] \in Made /\ seerr[s[2]].call = call.call
    BY <1>3 DEF settle
  <1>9. /\ j.call = i.call /\ j.user = i.user /\ j.home = i.home /\ j.old = i.old
        /\ j = i \/ /\ i.call = call.call /\ j.status = "settling"
                    /\ j.req \in Made /\ seerr[j.req].call = call.call
    BY <1>5, <1>6, <1>7, <1>8
  <1> QED BY <1>9 DEF j, settle

\* Every step keeps intents their calls' and older than their requests.
LEMMA IntentsKept ==
  ASSUME AskInv, Numbered, IntentsFaithful, ListedFaithful, Keeps(mem, Free), CallSafe, [Next]_vars
  PROVE  IntentsFaithful'
  <1>1. SeerrTyped /\ CallTyped /\ MemTyped /\ mem.intents \subseteq Wish
    BY DEF AskInv, TypeInv, MemTyped
  <1>2. \A i \in mem.intents : Faithful(i)'
    <2> SUFFICES ASSUME NEW i \in mem.intents PROVE Faithful(i)'
      OBVIOUS
    <2>1. i \in Wish /\ Faithful(i)
      BY <1>1 DEF IntentsFaithful
    <2> QED BY <1>1, <2>1, FaithfulStays
  <1>3. CASE mem'.intents \subseteq mem.intents
    BY <1>2, <1>3 DEF IntentsFaithful
  <1>4. CASE DecideRequest
    <2>1. PICK i : /\ mem'.intents = mem.intents \cup {i}
                   /\ i.call = call.call /\ i.user = call.user /\ i.home = call.home /\ i.status = "submitting"
      BY <1>1, <1>4, DecideRequestIntent
    <2>2. /\ Same /\ UNCHANGED <<flying, spent>> /\ call.pc = "decide" /\ call'.pc = "save" /\ call'.call = call.call
          /\ call'.user = call.user
      <3>1. call'.user = call.user
        BY <1>1, <1>4 DEF DecideRequest, CallTyped
      <3> QED BY <1>4, <3>1, DecideRequestWorld
    <2>3. Unsent(call.call) /\ call.call = spent.calls /\ call.call \in 1..MaxCalls
      BY <1>1, <2>2 DEF Numbered, CallTyped
    <2>4. Faithful(i)'
      <3>1. i.call \in 1..spent'.calls
        BY <2>1, <2>2, <2>3 DEF SeerrTyped
      <3>2. /\ \A r \in Made' : seerr'[r].call = i.call => seerr'[r].by = i.user /\ r \notin i.old
            /\ \A f \in flying' : f.call = i.call => f.user = i.user
        BY <2>1, <2>2, <2>3 DEF Same, Unsent
      <3>3. call'.pc \notin {"look", "decide"} /\ i.user = call'.user /\ i.status = "submitting"
        BY <2>1, <2>2
      <3> QED BY <2>1, <3>1, <3>2, <3>3 DEF Faithful
    <2>5. \A j \in mem.intents : j.call # i.call
      BY <2>1, <2>2 DEF IntentsFaithful, Faithful
    <2> QED BY <1>2, <2>1, <2>4, <2>5 DEF IntentsFaithful
  <1>5. CASE WriteOutcome
    <2>1. \A j \in mem'.intents : \E i \in mem.intents :
           /\ j.call = i.call /\ j.user = i.user /\ j.home = i.home /\ j.old = i.old
           /\ j = Settling(i, call.out.settle)
           /\ j = i \/ /\ i.call = call.call /\ j.status = "settling"
                       /\ j.req \in Made /\ seerr[j.req].call = call.call
      BY <1>1, <1>5, WrittenIntents DEF CallSafe
    <2>2. Made' = Made /\ UNCHANGED seerr /\ call'.pc \in {"idle", "retry"}
      BY <1>1, <1>5, WriteOutcomeWorld DEF Same
    <2>3. \A j \in mem'.intents : Faithful(j)'
      <3> SUFFICES ASSUME NEW j \in mem'.intents PROVE Faithful(j)'
        OBVIOUS
      <3>1. PICK i \in mem.intents :
              /\ j.call = i.call /\ j.user = i.user /\ j.home = i.home /\ j.old = i.old
              /\ j = i \/ /\ i.call = call.call /\ j.status = "settling"
                          /\ j.req \in Made /\ seerr[j.req].call = call.call
        BY <2>1
      <3>2. Faithful(i)'
        BY <1>2
      <3> QED BY <2>2, <3>1, <3>2 DEF Faithful
    <2>4. \A i, j \in mem'.intents : j.call = i.call => j = i
      BY <2>1 DEF IntentsFaithful
    <2> QED BY <2>3, <2>4 DEF IntentsFaithful
  <1>6. CASE Crash
    <2>1. mem'.intents \subseteq mem.intents
      BY <1>1, <1>6 DEF Crash, OnDisk, MemTyped, State
    <2> QED BY <1>3, <2>1
  <1>7. CASE Quietly
    BY <1>3, <1>7 DEF Quietly
  <1> QED BY <1>3, <1>4, <1>5, <1>6, <1>7, StoreKinds

\* An intent that a refresh holds stays as the store has it, or had it until its call settled.
LEMMA AsStoredStays ==
  ASSUME AskInv, Numbered, IntentsFaithful, ListedFaithful, Keeps(mem, Free), CallSafe, [Next]_vars,
         NEW i \in Wish, AsStored(i)
  PROVE  AsStored(i)'
  <1>1. SeerrTyped /\ CallTyped /\ MemTyped
    BY DEF AskInv, TypeInv
  <1>2. Faithful(i)'
    BY <1>1, FaithfulStays DEF AsStored
  <1>3. \A j \in mem'.intents : j.call = i.call => j = i \/ (i.status = "submitting" /\ j.status = "settling")
    <2>1. CASE mem'.intents \subseteq mem.intents
      BY <2>1 DEF AsStored
    <2>2. CASE DecideRequest
      <3>1. PICK new : mem'.intents = mem.intents \cup {new} /\ new.call = call.call
        BY <1>1, <2>2, DecideRequestIntent
      <3>2. i.call # call.call
        BY <2>2, DecideRequestWorld DEF AsStored, Faithful
      <3> QED BY <3>1, <3>2 DEF AsStored
    <2>3. CASE WriteOutcome
      <3>1. \A j \in mem'.intents : \E x \in mem.intents :
           /\ j.call = x.call /\ j.user = x.user /\ j.home = x.home /\ j.old = x.old
           /\ j = Settling(x, call.out.settle)
           /\ j = x \/ /\ x.call = call.call /\ j.status = "settling"
                       /\ j.req \in Made /\ seerr[j.req].call = call.call
        BY <1>1, <2>3, WrittenIntents DEF CallSafe
      <3>2. call.pc = "write"
        BY <1>1, <2>3, WriteOutcomeWorld
      <3>3. i.call = call.call => i.status = "submitting"
        BY <3>2 DEF AsStored, Faithful
      <3>4. \A x \in mem.intents : x.call = call.call => x.status = "submitting"
        BY <3>2 DEF IntentsFaithful, Faithful
      <3> QED BY <3>1, <3>3, <3>4 DEF AsStored
    <2>4. CASE Crash
      <3>1. mem'.intents \subseteq mem.intents
        BY <1>1, <2>4 DEF Crash, OnDisk, MemTyped, State
      <3> QED BY <2>1, <3>1
    <2>5. CASE Quietly
      BY <2>1, <2>5 DEF Quietly
    <2> QED BY <2>1, <2>2, <2>3, <2>4, <2>5, StoreKinds
  <1> QED BY <1>2, <1>3 DEF AsStored

\* What a step of a refresh has listed, and holds.
LEMMA ListedMoves ==
  ASSUME SeerrTyped, RefreshTyped, RefreshAsked, NEW f \in Refresher, RefreshStep(f)
  PROVE  /\ \A g \in Refresher : g # f => refresh'[g] = refresh[g]
         /\ refresh'[f].intents \subseteq refresh[f].intents \cup mem.intents
         /\ refresh'[f].pc = "settle" => refresh'[f].intent \in refresh[f].intents
  <1> DEFINE Run == [pc : {"idle", "intents", "settle", "records"}, intents : SUBSET Wish, records : SUBSET Entry,
                     intent : Wish \cup {NoIntent}, made : Nat]
  <1>1. refresh \in [Refresher -> Run] /\ refresh[f] \in Run
    BY DEF RefreshTyped
  <1> HIDE DEF Run
  <1> DEFINE Goal == /\ \A g \in Refresher : g # f => refresh'[g] = refresh[g]
                     /\ refresh'[f].intents \subseteq refresh[f].intents \cup mem.intents
                     /\ refresh'[f].pc = "settle" => refresh'[f].intent \in refresh[f].intents
  <1>3. \A new : /\ refresh' = [refresh EXCEPT ![f] = new]
                 /\ new.pc \in {"idle", "intents", "records"}
                 /\ new.intents \subseteq refresh[f].intents \cup mem.intents
                 => Goal
    BY <1>1
  <1>11. ASSUME NEW i \in refresh[f].intents, NEW new,
                refresh' = [refresh EXCEPT ![f] = new], new.intent = i, new.intents \subseteq refresh[f].intents
         PROVE  Goal
    BY <1>1, <1>11
  <1> HIDE DEF Goal
  <1>4. ASSUME NEW i, refresh' = [refresh EXCEPT ![f] = Done(f, i)] PROVE Goal
    <2>1. Done(f, i).pc = "intents" /\ Done(f, i).intents = refresh[f].intents \ {i}
      BY DoneFields
    <2> QED BY <1>3, <1>4, <2>1
  <1>5. ASSUME RefreshStarts(f) PROVE Goal
    <2> DEFINE new == [refresh[f] EXCEPT !.pc = "intents", !.intents = mem.intents]
    <2>1. refresh' = [refresh EXCEPT ![f] = new]
      BY <1>1, <1>5 DEF RefreshStarts
    <2>2. new.pc = "intents" /\ new.intents = mem.intents
      BY <1>1 DEF Run
    <2> HIDE DEF new
    <2> QED BY <1>3, <2>1, <2>2
  <1>6. ASSUME NEW i \in refresh[f].intents, RefreshIntent(f, i) PROVE Goal
    <2>1. \/ refresh' = [refresh EXCEPT ![f] = Done(f, i)]
          \/ \E r \in Nat :
               refresh' = [refresh EXCEPT ![f] = [Done(f, i) EXCEPT !.pc = "settle", !.intent = i, !.made = r]]
      <3>1. \/ Leave(f, i)
            \/ /\ i.call \notin Live /\ i.status = "submitting"
               /\ \E reqs \in SUBSET Candidates(i) : Retire(f, i, reqs)
            \/ /\ i.call \notin Live /\ UNCHANGED mem
               /\ \E r \in Nat :
                    /\ refresh' = [refresh EXCEPT ![f] = [Done(f, i) EXCEPT !.pc = "settle", !.intent = i, !.made = r]]
                    /\ i.status = "submitting" => r \in Candidates(i)
                    /\ i.status = "settling" => r = i.req
        BY <1>6, RefreshIntentFields
      <3> QED BY <3>1 DEF Leave, Retire
    <2>2. ASSUME NEW r \in Nat,
                 refresh' = [refresh EXCEPT ![f] = [Done(f, i) EXCEPT !.pc = "settle", !.intent = i, !.made = r]]
          PROVE  Goal
      <3> DEFINE done == Done(f, i)
                 new == [done EXCEPT !.pc = "settle", !.intent = i, !.made = r]
      <3>1. done \in Run /\ done.intents = refresh[f].intents \ {i} /\ i \in Wish
        BY DoneFields DEF Run, RefreshTyped
      <3>2. refresh' = [refresh EXCEPT ![f] = new]
        BY <2>2
      <3> HIDE DEF done
      <3>3. new.intents \subseteq refresh[f].intents /\ new.intent = i
        BY <3>1 DEF Run
      <3> HIDE DEF new
      <3> QED BY <1>11, <2>2, <3>1, <3>2, <3>3
    <2> QED BY <1>4, <2>1, <2>2
  <1>7. ASSUME RefreshSettle(f) PROVE Goal
    <2>1. refresh' = [refresh EXCEPT ![f] = Done(f, refresh[f].intent)]
      BY <1>7 DEF RefreshSettle, SettleRead, Leave, Retire
    <2> QED BY <1>4, <2>1
  <1>8. ASSUME IntentsRead(f) PROVE Goal
    <2> DEFINE pending == {rec \in mem.records : rec.status = "pending"}
               new == [refresh[f] EXCEPT !.pc = "records", !.records = pending]
    <2>1. refresh' = [refresh EXCEPT ![f] = new]
      BY <1>1, <1>8 DEF IntentsRead
    <2> HIDE DEF pending
    <2>2. new.pc = "records" /\ new.intents = refresh[f].intents
      BY <1>1 DEF Run
    <2> HIDE DEF new
    <2> QED BY <1>3, <2>1, <2>2
  <1>9. ASSUME NEW rec \in refresh[f].records, RefreshRecord(f, rec) PROVE Goal
    <2> DEFINE new == [refresh[f] EXCEPT !.records = @ \ {rec}]
    <2>1. refresh' = [refresh EXCEPT ![f] = new] /\ refresh[f].pc = "records"
      BY <1>1, <1>9 DEF RefreshRecord
    <2>2. new.pc = "records" /\ new.intents = refresh[f].intents
      BY <1>1, <2>1 DEF Run
    <2> HIDE DEF new
    <2> QED BY <1>3, <2>1, <2>2
  <1>10. ASSUME RefreshRetries(f) PROVE Goal
    <2>1. refresh' = [refresh EXCEPT ![f] = Resting]
      BY <1>10 DEF RefreshRetries
    <2>2. Resting.pc = "idle" /\ Resting.intents = {}
      BY DEF Resting
    <2> QED BY <1>3, <2>1, <2>2
  <1>12. Goal
    BY <1>5, <1>6, <1>7, <1>8, <1>9, <1>10 DEF RefreshStep
  <1> QED BY <1>12 DEF Goal

\* Every step keeps what refreshes listed as the store has it or had it.
LEMMA ListedKept ==
  ASSUME AskInv, Numbered, IntentsFaithful, ListedFaithful, Keeps(mem, Free), CallSafe, [Next]_vars
  PROVE  ListedFaithful'
  <1>1. SeerrTyped /\ RefreshTyped /\ RefreshAsked /\ mem.intents \subseteq Wish
    BY DEF AskInv, TypeInv, MemTyped
  <1>2. \A f \in Refresher : \A i \in Listed(f) : AsStored(i)'
    <2> SUFFICES ASSUME NEW f \in Refresher, NEW i \in Listed(f) PROVE AsStored(i)'
      OBVIOUS
    <2>1. i \in Wish
      BY <1>1 DEF Listed, RefreshTyped
    <2>2. AsStored(i)
      BY DEF ListedFaithful
    <2> QED BY <2>1, <2>2, AsStoredStays
  <1>3. CASE UNCHANGED refresh
    <2>1. \A f \in Refresher : \A i : i \in Listed(f)' => i \in Listed(f)
      BY <1>3 DEF Listed
    <2> QED BY <1>2, <2>1 DEF ListedFaithful
  <1>4. CASE Crash
    <2>1. \A f \in Refresher : refresh'[f] = Resting
      BY <1>4 DEF Crash
    <2>2. Resting.pc = "idle" /\ Resting.intents = {}
      BY DEF Resting
    <2> QED BY <2>1, <2>2 DEF ListedFaithful, Listed
  <1>5. ASSUME NEW f \in Refresher, RefreshStep(f) PROVE ListedFaithful'
    <2>1. /\ \A g \in Refresher : g # f => refresh'[g] = refresh[g]
          /\ refresh'[f].intents \subseteq refresh[f].intents \cup mem.intents
          /\ refresh'[f].pc = "settle" => refresh'[f].intent \in refresh[f].intents
      BY <1>1, <1>5, ListedMoves
    <2>2. \A i \in mem.intents : AsStored(i)'
      <3> SUFFICES ASSUME NEW i \in mem.intents PROVE AsStored(i)'
        OBVIOUS
      <3>1. i \in Wish /\ AsStored(i)
        BY <1>1 DEF IntentsFaithful, AsStored
      <3> QED BY <3>1, AsStoredStays
    <2>3. \A g \in Refresher : \A i : i \in Listed(g)' => i \in Listed(g) \/ i \in mem.intents
      BY <2>1 DEF Listed
    <2> QED BY <1>2, <2>2, <2>3 DEF ListedFaithful
  <1> QED BY <1>3, <1>4, <1>5, RefreshActions

-----------------------------------------------------------------------------
(* Every late request stays protected *)

\* What names every late request goes on doing so in a store that is the same.
LEMMA KeepsCarried ==
  ASSUME NEW m, NEW free, free \subseteq Free', Keeps(m, free), mem' = m, Same, \A f \in flying' : f \in flying \/ \E i \in m.intents : i.call = f.call
  PROVE  Keeps(mem, Free)'
  <1>1. \A r \in Made : Watched(r, Free)' => Watched(r, free)
    BY DEF Watched, Late, Same
  <1>2. \A r \in Made : Settled(m, r) => Settled(mem, r)'
    <2> SUFFICES ASSUME NEW r \in Made, Settled(m, r) PROVE Settled(mem, r)'
      OBVIOUS
    <2>1. seerr'[r].by = seerr[r].by
      BY DEF Same
    <2> QED BY <2>1 DEF Settled, GrantsAsJoin, NamedByTombstone, MemberWide, Covers
  <1>3. LateKept(mem, Free)'
    <2> SUFFICES ASSUME NEW r \in Made', Watched(r, Free)'
                 PROVE  Settled(mem, r)' \/ \E i \in mem'.intents : i.call = seerr'[r].call
      BY DEF LateKept
    <2>1. r \in Made /\ Watched(r, free) /\ seerr'[r].call = seerr[r].call
      BY <1>1 DEF Same
    <2>2. Settled(m, r) \/ \E i \in m.intents : i.call = seerr[r].call
      BY <2>1 DEF Keeps, LateKept
    <2> QED BY <1>2, <2>1, <2>2
  <1>4. FlyingKept(mem)'
    BY DEF Keeps, FlyingKept, MemberWide
  <1>5. TombsOfMade(mem)'
    BY DEF Keeps, TombsOfMade, Same
  <1>6. NotTaken(mem, Free)'
    <2> SUFFICES ASSUME NEW rec \in mem'.records, NEW r \in Made', Watched(r, Free)', Takes(rec, r),
                        NEW i \in mem'.intents, i.call = seerr'[r].call
                 PROVE  i.status = "settling"
      BY DEF NotTaken, Takes
    <2>1. r \in Made /\ Watched(r, free) /\ i.call = seerr[r].call
      BY <1>1 DEF Same
    <2> QED BY <2>1 DEF Keeps, NotTaken
  <1> QED BY <1>3, <1>4, <1>5, <1>6 DEF Keeps

\* A request is made: one more, that the store knows nothing of but who may make it.
LEMMA KeepsMade ==
  ASSUME SeerrTyped, MemTyped, Keeps(mem, Free), Free \subseteq Free', UNCHANGED mem, flying' \subseteq flying,
         NEW k \in Nat \ {0}, k \notin Made, Made' = Made \cup {k}, \A r \in Made : seerr'[r] = seerr[r],
         \/ seerr'[k].call = 0
         \/ \E f \in flying : f.user = seerr'[k].by /\ f.call = seerr'[k].call
  PROVE  Keeps(mem, Free)'
  <1>1. \A r \in Made : Watched(r, Free)' => Watched(r, Free)
    BY DEF Watched, Late
  <1>2. Watched(k, Free)' => \/ \E i \in mem.intents : i.call = seerr'[k].call
                    \/ \E t \in mem.tombs : t.user # NoMember /\ t.user = seerr'[k].by
    BY DEF Watched, Late, Keeps, FlyingKept, MemberWide
  <1>3. \A t \in mem.tombs : k \notin t.exempt /\ k \notin t.old
    BY DEF Keeps, TombsOfMade
  <1>4. LateKept(mem, Free)'
    <2> SUFFICES ASSUME NEW r \in Made', Watched(r, Free)'
                 PROVE  Settled(mem, r)' \/ \E i \in mem.intents : i.call = seerr'[r].call
      BY DEF LateKept
    <2>1. CASE r = k
      <3>1. CASE \E t \in mem.tombs : t.user # NoMember /\ t.user = seerr'[k].by
        <4>1. Settled(mem, k)'
          BY <1>3, <3>1 DEF Settled, MemberWide, Covers
        <4> QED BY <2>1, <4>1
      <3> QED BY <1>2, <2>1, <3>1
    <2>2. CASE r # k
      <3>1. r \in Made /\ Watched(r, Free) /\ seerr'[r] = seerr[r]
        BY <1>1, <2>2
      <3>2. Settled(mem, r) \/ \E i \in mem.intents : i.call = seerr[r].call
        BY <3>1 DEF Keeps, LateKept
      <3>3. Settled(mem, r) => Settled(mem, r)'
        BY <3>1 DEF Settled, GrantsAsJoin, NamedByTombstone, MemberWide, Covers
      <3> QED BY <3>1, <3>2, <3>3
    <2> QED BY <2>1, <2>2
  <1>5. FlyingKept(mem)'
    BY DEF Keeps, FlyingKept, MemberWide
  <1>6. TombsOfMade(mem)'
    BY DEF Keeps, TombsOfMade
  <1>7. NotTaken(mem, Free)'
    <2> SUFFICES ASSUME NEW rec \in mem.records, NEW r \in Made', Watched(r, Free)', Takes(rec, r),
                        NEW i \in mem.intents, i.call = seerr'[r].call
                 PROVE  i.status = "settling"
      BY DEF NotTaken, Takes
    <2>1. rec.req \in Made \cup {NoRequest} /\ rec.req = r
      BY DEF MemTyped, Entry, Takes
    <2>2. r \in Made /\ Watched(r, Free) /\ i.call = seerr[r].call
      BY <1>1, <2>1 DEF NoRequest
    <2> QED BY <2>2 DEF Keeps, NotTaken
  <1> QED BY <1>4, <1>5, <1>6, <1>7 DEF Keeps

\* Every step keeps every late request named.
LEMMA KeepsKept ==
  ASSUME AskInv, Numbered, IntentsFaithful, ListedFaithful, Keeps(mem, Free), CallSafe, [Next]_vars
  PROVE  Keeps(mem, Free)'
  <1>1. SeerrTyped /\ CallTyped /\ MemTyped /\ mem.intents \subseteq Wish /\ Free \subseteq Free'
    BY SlipsKept DEF AskInv, TypeInv, MemTyped, Free
  <1>2. PICK m : m = mem'
    OBVIOUS
  <1>3. CASE DecideRequest
    <2>1. PICK i : /\ m.intents = mem.intents \cup {i} /\ m.records = mem.records /\ m.tombs = mem.tombs
                   /\ m.handled = mem.handled /\ i.call = call.call
      BY <1>1, <1>2, <1>3, DecideRequestIntent
    <2>2. Same /\ UNCHANGED flying /\ call.pc = "decide"
      BY <1>3, DecideRequestWorld
    <2>3. Unsent(call.call)
      BY <2>2 DEF Numbered
    <2>4. Keeps(m, Free)
      <3>1. \A r \in Made : Settled(mem, r) => Settled(m, r)
        BY <2>1 DEF Settled, GrantsAsJoin, NamedByTombstone, MemberWide
      <3>2. LateKept(m, Free)
        BY <2>1, <3>1 DEF Keeps, LateKept
      <3>3. FlyingKept(m) /\ TombsOfMade(m)
        BY <2>1 DEF Keeps, FlyingKept, TombsOfMade, MemberWide
      <3>4. NotTaken(m, Free)
        BY <2>1, <2>3 DEF Keeps, NotTaken, Unsent
      <3> QED BY <3>2, <3>3, <3>4 DEF Keeps
    <2> QED BY <1>1, <1>2, <2>2, <2>4, KeepsCarried
  <1>4. CASE WriteOutcome
    <2>1. /\ Same /\ UNCHANGED flying /\ mem \in State /\ call.epoch \in Nat /\ call.out \in Outcome
          /\ m = Written(mem, call.epoch, call.out)
      BY <1>1, <1>2, <1>4, WriteOutcomeWorld
    <2> DEFINE out == call.out
    <2>2. OutSafe(out) /\ Releases(out)
      BY DEF CallSafe
    <2> HIDE DEF out
    <2>3. \A e \in out.exempt : e[2] \in Made /\ ~Watched(e[2], Free)
      BY <2>2 DEF OutSafe
    <2>4. \A t \in out.tombs : t.old \subseteq Made /\ t.exempt \subseteq Made
      BY <2>2 DEF OutSafe
    <2>5. \A rec \in out.add : \A r \in Made : Watched(r, Free) /\ Takes(rec, r) =>
            \A i \in mem.intents : i.call = seerr[r].call => i.call \in out.remove \/ \E s \in out.settle : s[1] = i.call
      BY <2>2 DEF OutSafe
    <2>6. \A i \in mem.intents : i.call \in out.remove =>
            /\ \A r \in Made : Watched(r, Free) /\ seerr[r].call = i.call =>
                 \E t \in out.tombs : r \in t.reqs \/ (t.user # NoMember /\ Covers(t, r, seerr[r].by))
            /\ \A f \in flying : f.call = i.call => \E t \in out.tombs : t.user # NoMember /\ t.user = f.user
      BY <2>2 DEF OutSafe, Releases
    <2>7. PICK epoch \in Nat : epoch = call.epoch
      BY <2>1
    <2>8. out \in Outcome /\ m = Written(mem, epoch, out)
      BY <2>1, <2>7 DEF out
    <2>9. Keeps(Written(mem, epoch, out), Free)
      BY <1>1, <2>1, <2>3, <2>4, <2>5, <2>6, <2>8, KeepsWritten
    <2>10. Keeps(m, Free)
      BY <2>8, <2>9
    <2> QED BY <1>1, <1>2, <2>1, <2>10, KeepsCarried
  <1>5. CASE Crash
    <2>1. /\ UNCHANGED <<seerr, flying>>
          /\ m.intents = {i \in mem.intents : i.call \notin unsaved}
          /\ m.records = mem.records /\ m.tombs = mem.tombs /\ m.handled = mem.handled
      BY <1>1, <1>2, <1>5 DEF Crash, world, OnDisk, MemTyped, State
    <2>2. \A r \in Made : Settled(mem, r) => Settled(m, r)
      BY <2>1 DEF Settled, GrantsAsJoin, NamedByTombstone, MemberWide
    <2>3. \A n \in unsaved : Unsent(n)
      BY DEF Numbered
    <2>4. LateKept(m, Free)
      BY <2>1, <2>2, <2>3 DEF Keeps, LateKept, Unsent
    <2>5. FlyingKept(m)
      BY <2>1, <2>3 DEF Keeps, FlyingKept, MemberWide, Unsent
    <2>6. TombsOfMade(m) /\ NotTaken(m, Free)
      BY <2>1 DEF Keeps, TombsOfMade, NotTaken
    <2>7. Keeps(m, Free)
      BY <2>4, <2>5, <2>6 DEF Keeps
    <2>8. Same
      BY <2>1 DEF Same, Made
    <2> QED BY <1>1, <1>2, <2>1, <2>7, <2>8, KeepsCarried
  <1>6. CASE Quietly
    <2>1. PICK free : free = Free'
      OBVIOUS
    <2>2. Same /\ Keeps(m, free) /\ flying' = flying
      BY <1>2, <1>6, <2>1 DEF Quietly, Same, Made
    <2> QED BY <1>1, <1>2, <2>1, <2>2, KeepsCarried
  <1>7. CASE UNCHANGED mem
    <2>1. Keeps(m, Free) /\ m.intents = mem.intents
      BY <1>2, <1>7
    <2>2. CASE Same /\ flying' \subseteq flying
      BY <1>1, <1>2, <2>1, <2>2, KeepsCarried
    <2>3. CASE Send
      <3>1. Same /\ \A f \in flying' : f \in flying \/ \E i \in m.intents : i.call = f.call
        BY <1>1, <2>1, <2>3, SendWorld
      <3> QED BY <1>1, <1>2, <2>1, <3>1, KeepsCarried
    <2>4. Len(seerr) + 1 \in Nat \ {0}
      BY <1>1 DEF SeerrTyped
    <2>5. PICK k : k = Len(seerr) + 1
      OBVIOUS
    <2>6. ASSUME NEW u \in Member, Direct(u) PROVE Keeps(mem, Free)'
      <3>1. /\ k \notin Made /\ Made' = Made \cup {k} /\ (\A r \in Made : seerr'[r] = seerr[r])
            /\ seerr'[k].call = 0 /\ flying' \subseteq flying
        BY <1>1, <2>5, <2>6, DirectWorld
      <3> QED BY <1>1, <1>7, <2>4, <2>5, <3>1, KeepsMade
    <2>7. ASSUME NEW u \in Member, NEW h \in Household, Submit(u, h) PROVE Keeps(mem, Free)'
      BY <1>1, <2>2, <2>7, SubmitWorld
    <2>8. ASSUME NEW f \in flying, SeerrMakes(f) PROVE Keeps(mem, Free)'
      <3>1. /\ k \notin Made /\ Made' = Made \cup {k} /\ (\A r \in Made : seerr'[r] = seerr[r])
            /\ seerr'[k].by = f.user /\ seerr'[k].call = f.call /\ flying' \subseteq flying
        BY <1>1, <2>5, <2>8, MakesWorld
      <3> QED BY <1>1, <1>7, <2>4, <2>5, <3>1, KeepsMade
    <2> QED BY <1>1, <1>3, <2>2, <2>3, <2>6, <2>7, <2>8, WorldKinds
  <1> QED BY <1>3, <1>4, <1>5, <1>6, <1>7, StoreKinds

-----------------------------------------------------------------------------
(* What a call is about to write stays safe to write *)

\* Requests come and keep their call and time; what is newly made was under way or made in Seerr
\* itself.
LEMMA WorldGrows ==
  ASSUME SeerrTyped, CallTyped, [Next]_vars
  PROVE  /\ 0 \notin Made' /\ Made \subseteq Made'
         /\ \A r \in Made : seerr'[r].call = seerr[r].call /\ (Late(r)' <=> Late(r))
         /\ \A r \in Made' : r \notin Made => seerr'[r].call = 0 \/ \E f \in flying : f.call = seerr'[r].call
         /\ flying' \subseteq flying \/ Send
  <1>1. CASE Same /\ flying' \subseteq flying
    BY <1>1 DEF Same, Late, SeerrTyped, Made
  <1>2. 0 \notin Made /\ Len(seerr) + 1 # 0
    BY LenProperties DEF Made, SeerrTyped
  <1>3. CASE Send
    BY <1>2, <1>3, SendWorld DEF Same, Late
  <1>4. ASSUME NEW u \in Member, Direct(u) PROVE 0 \notin Made' /\ Made \subseteq Made' /\ flying' = flying
               /\ (\A r \in Made : seerr'[r] = seerr[r]) /\ \A r \in Made' : r \notin Made => seerr'[r].call = 0
    BY <1>2, <1>4, DirectWorld
  <1>5. ASSUME NEW f \in flying, SeerrMakes(f) PROVE 0 \notin Made' /\ Made \subseteq Made' /\ flying' \subseteq flying
               /\ (\A r \in Made : seerr'[r] = seerr[r]) /\ \A r \in Made' : r \notin Made => seerr'[r].call = f.call
    BY <1>2, <1>5, MakesWorld
  <1>6. CASE DecideRequest \/ \E u \in Member : \E h \in Household : Submit(u, h)
    BY <1>1, <1>2, <1>6, DecideRequestWorld, SubmitWorld
  <1>7. CASE \E u \in Member : Direct(u)
    BY <1>4, <1>7 DEF Late
  <1>8. CASE \E f \in flying : SeerrMakes(f)
    BY <1>5, <1>8 DEF Late
  <1>9. CASE Same /\ flying' \subseteq flying
    BY <1>2, <1>9 DEF Same, Late
  <1> QED BY <1>3, <1>6, <1>7, <1>8, <1>9, WorldKinds

\* A request watched after a step was watched before it, if it was made.
LEMMA WatchedLess ==
  ASSUME AskInv, [Next]_vars
  PROVE  \A r \in Made : Watched(r, Free)' => Watched(r, Free)
  BY WorldGrows, SlipsKept DEF AskInv, TypeInv, Watched, Free

\* Where the intents of a step come from.
LEMMA IntentsCome ==
  ASSUME AskInv, Numbered, IntentsFaithful, ListedFaithful, Keeps(mem, Free), CallSafe, [Next]_vars
  PROVE  \A j \in mem'.intents : \/ \E i \in mem.intents : i.call = j.call
                                 \/ DecideRequest /\ j.call = call.call
  <1>1. CallTyped /\ MemTyped
    BY DEF AskInv, TypeInv
  <1>2. CASE UNCHANGED mem \/ Quietly
    BY <1>2 DEF Quietly
  <1>3. CASE DecideRequest
    BY <1>1, <1>3, DecideRequestIntent
  <1>4. CASE WriteOutcome
    BY <1>1, <1>4, WrittenIntents DEF CallSafe
  <1>5. CASE Crash
    <2>1. mem'.intents \subseteq mem.intents
      BY <1>1, <1>5 DEF Crash, OnDisk, MemTyped, State
    <2> QED BY <2>1
  <1> QED BY <1>2, <1>3, <1>4, <1>5, StoreKinds

\* An outcome that names what it must goes on doing so until it is written.
LEMMA OutStays ==
  ASSUME AskInv, Numbered, IntentsFaithful, ListedFaithful, Keeps(mem, Free), CallSafe, [Next]_vars, NEW out, out.add \subseteq Entry,
         OutSafe(out), call'.out = out, call'.call = call.call
  PROVE  OutSafe(call.out)'
  <1>1. SeerrTyped /\ CallTyped
    BY DEF AskInv, TypeInv
  <1>2. /\ 0 \notin Made' /\ Made \subseteq Made'
        /\ \A r \in Made : seerr'[r].call = seerr[r].call /\ (Watched(r, Free)' => Watched(r, Free))
    BY <1>1, WorldGrows, WatchedLess
  <1>3. \A rec \in out.add : \A r \in Made' : Watched(r, Free)' /\ Takes(rec, r) =>
          \/ \A i \in mem'.intents : i.call # seerr'[r].call
          \/ seerr'[r].call = call.call /\ (out.remove # {} \/ out.settle # {})
    <2> SUFFICES ASSUME NEW rec \in out.add, NEW r \in Made', Watched(r, Free)', Takes(rec, r),
                        NEW j \in mem'.intents, j.call = seerr'[r].call
                 PROVE  seerr'[r].call = call.call /\ (out.remove # {} \/ out.settle # {})
      OBVIOUS
    <2>1. rec.req = r /\ rec.req \in Made \cup {NoRequest}
      BY DEF Takes, Entry
    <2>2. r \in Made /\ Watched(r, Free) /\ seerr'[r].call = seerr[r].call
      BY <1>2, <2>1 DEF NoRequest
    <2>3. \/ \A i \in mem.intents : i.call # seerr[r].call
          \/ seerr[r].call = call.call /\ (out.remove # {} \/ out.settle # {})
      BY <2>2 DEF OutSafe
    <2>4. CASE DecideRequest /\ j.call = call.call
      <3>1. Unsent(call.call)
        BY <2>4, DecideRequestWorld DEF Numbered
      <3> QED BY <2>2, <2>4, <3>1 DEF Unsent
    <2> QED BY <2>2, <2>3, <2>4, IntentsCome
  <1>4. /\ out.remove \subseteq {call.call}
        /\ \A s \in out.settle : s[1] = call.call /\ s[2] \in Made' /\ seerr'[s[2]].call = call.call
        /\ \A e \in out.exempt : e[2] \in Made' /\ ~Watched(e[2], Free)'
        /\ \A t \in out.tombs : t.old \subseteq Made' /\ t.exempt \subseteq Made'
    <2>1. out.remove \subseteq {call.call}
      BY DEF OutSafe
    <2>2. \A s \in out.settle : s[1] = call.call /\ s[2] \in Made' /\ seerr'[s[2]].call = call.call
      BY <1>2 DEF OutSafe
    <2>3. \A e \in out.exempt : e[2] \in Made' /\ ~Watched(e[2], Free)'
      <3> SUFFICES ASSUME NEW e \in out.exempt PROVE e[2] \in Made' /\ ~Watched(e[2], Free)'
        OBVIOUS
      <3>1. PICK r \in Made : r = e[2] /\ ~Watched(r, Free)
        BY DEF OutSafe
      <3>2. r \in Made' /\ ~Watched(r, Free)'
        BY <1>2, <3>1
      <3> QED BY <3>1, <3>2 DEF Watched, Late, Free
    <2>4. \A t \in out.tombs : t.old \subseteq Made' /\ t.exempt \subseteq Made'
      BY <1>2 DEF OutSafe
    <2> QED BY <2>1, <2>2, <2>3, <2>4
  <1> QED BY <1>3, <1>4 DEF OutSafe, Watched, Late, Free

\* An intent that may be given up may be so until it is written.
LEMMA ReleaseStays ==
  ASSUME AskInv, [Next]_vars, NEW out, Releases(out), call'.out = out, call'.call = call.call,
         flying' \subseteq flying \/ out.remove = {}
  PROVE  Releases(call.out)'
  <1>1. SeerrTyped /\ CallTyped
    BY DEF AskInv, TypeInv
  <1> SUFFICES ASSUME out.remove # {}
               PROVE  /\ \A f \in flying' : f.call # call.call
                      /\ \A r \in Made' : Watched(r, Free)' /\ seerr'[r].call = call.call => \E t \in out.tombs : r \in t.reqs
    BY DEF Releases
  <1>2. /\ \A f \in flying : f.call # call.call
        /\ \A r \in Made : Watched(r, Free) /\ seerr[r].call = call.call => \E t \in out.tombs : r \in t.reqs
    BY DEF Releases
  <1>3. /\ \A r \in Made : seerr'[r].call = seerr[r].call /\ (Watched(r, Free)' => Watched(r, Free))
        /\ \A r \in Made' : r \notin Made => seerr'[r].call = 0 \/ \E f \in flying : f.call = seerr'[r].call
    BY <1>1, WorldGrows, WatchedLess
  <1>4. \A r \in Made' : Watched(r, Free)' /\ seerr'[r].call = call.call => r \in Made
    BY <1>2, <1>3 DEF Watched, Late
  <1> QED BY <1>2, <1>3, <1>4

\* A call that sent nothing may drop its intent.
LEMMA DroppedSafe ==
  ASSUME CallTyped, call.out = NoOutcome
  PROVE  /\ OutSafe(Dropped) /\ (Unsent(call.call) => Releases(Dropped))
         /\ Dropped \in Outcome /\ Dropped.add = {} /\ Dropped.remove = {call.call} /\ Dropped.settle = {}
         /\ Dropped.tombs = {} /\ Dropped.exempt = {}
  <1>1. /\ Dropped.add = {} /\ Dropped.remove = {call.call} /\ Dropped.settle = {}
        /\ Dropped.tombs = {} /\ Dropped.exempt = {}
    BY DEF Dropped, NoOutcome
  <1>2. Dropped \in Outcome
    BY DEF Dropped, CallTyped, Outcome
  <1> QED BY <1>1, <1>2 DEF OutSafe, Releases, Unsent

\* A record may be added to a safe outcome unless it takes a late request from its intent.
LEMMA AddSafe ==
  ASSUME NEW o \in Outcome, NEW add, OutSafe(o), Releases(o),
         \A rec \in add : \A r \in Made : Watched(r, Free) /\ Takes(rec, r) => \A i \in mem.intents : i.call # seerr[r].call
  PROVE  LET out == [o EXCEPT !.add = add] IN OutSafe(out) /\ Releases(out) /\ out.add = add /\ out.remove = o.remove
  <1> DEFINE out == [o EXCEPT !.add = add]
  <1>1. out.add = add /\ out.remove = o.remove /\ out.settle = o.settle /\ out.tombs = o.tombs /\ out.exempt = o.exempt
    BY DEF Outcome
  <1> HIDE DEF out
  <1>2. OutSafe(out)
    BY <1>1 DEF OutSafe
  <1>3. Releases(out)
    BY <1>1 DEF Releases
  <1> QED BY <1>1, <1>2, <1>3 DEF out

\* What a call writes once Seerr made its request.
LEMMA SettledSafe ==
  ASSUME SeerrTyped, CallTyped, Numbered, call.out = NoOutcome, call.pc = "settle",
         call.req \in Made, seerr[call.req].call = call.call,
         NEW outcome, outcome = "absent" => ~here
  PROVE  OutSafe(SettledAs(outcome)) /\ Releases(SettledAs(outcome))
  <1> DEFINE rec == NewRecord("request", call.req)
  <1>1. rec.branch = "request" /\ rec.req = call.req /\ ~rec.rule /\ rec \in Entry
    BY NewRecordFields
  <1>2. rec \in Record /\ [rec EXCEPT !.rule = TRUE].rule
    <2> HIDE DEF rec
    <2> QED BY <1>1 DEF Entry, Record
  <1> HIDE DEF rec
  <1>3. call.call # 0 /\ \A r \in Made : seerr[r].call = call.call => r = call.req
    BY DEF CallTyped, Numbered
  <1>4. \A f \in flying : f.call # call.call
    BY DEF Numbered
  <1>5. Dropped \in Outcome /\ Dropped.remove = {call.call} /\ Dropped.settle = {} /\ Dropped.tombs = {} /\ Dropped.exempt = {}
    BY DroppedSafe
  <1>6. CASE outcome = "absent"
    <2> DEFINE add == {rec}
               exempt == {<<call.user, call.req>>}
               out == [Dropped EXCEPT !.add = add, !.exempt = exempt]
    <2>1. SettledAs(outcome) = out
      BY <1>6 DEF SettledAs, rec
    <2>2. \A e \in exempt : e[2] = call.req
      OBVIOUS
    <2> HIDE DEF exempt, add
    <2>3. out.add = add /\ out.remove = {call.call} /\ out.settle = {} /\ out.tombs = {} /\ out.exempt = exempt
      BY <1>5 DEF Outcome
    <2> HIDE DEF out
    <2>4. \A r \in Made : ~Watched(r, Free)
      BY <1>6 DEF Numbered, Late, Watched
    <2>5. OutSafe(out)
      BY <2>2, <2>3, <2>4 DEF OutSafe
    <2>6. Releases(out)
      BY <1>4, <2>3, <2>4 DEF Releases
    <2> QED BY <2>1, <2>5, <2>6
  <1>7. CASE outcome = "present"
    <2> DEFINE ruled == [rec EXCEPT !.rule = TRUE]
               add == {ruled}
               t == TombstoneFor({call.req})
               tombs == {t}
               out == [Dropped EXCEPT !.add = add, !.tombs = tombs]
    <2>1. SettledAs(outcome) = out
      BY <1>7 DEF SettledAs, rec
    <2>2. \A x \in add : x.rule
      BY <1>2
    <2>3. t.reqs = {call.req} /\ t.old = {} /\ t.exempt = {}
      BY DEF TombstoneFor
    <2> HIDE DEF add, t
    <2>4. t \in tombs /\ \A x \in tombs : x = t
      OBVIOUS
    <2> HIDE DEF tombs
    <2>5. out.add = add /\ out.remove = {call.call} /\ out.settle = {} /\ out.tombs = tombs /\ out.exempt = {}
      BY <1>5 DEF Outcome
    <2> HIDE DEF out
    <2>6. OutSafe(out)
      <3>1. \A x \in out.tombs : x.old \subseteq Made /\ x.exempt \subseteq Made
        BY <2>3, <2>4, <2>5
      <3>2. \A x \in out.add : \A r \in Made : ~Takes(x, r)
        BY <2>2, <2>5 DEF Takes
      <3> QED BY <2>5, <3>1, <3>2 DEF OutSafe
    <2>7. Releases(out)
      BY <1>3, <1>4, <2>3, <2>4, <2>5 DEF Releases
    <2> QED BY <2>1, <2>6, <2>7
  <1>8. CASE outcome \notin {"absent", "present"}
    <2> DEFINE add == {rec}
               settle == {<<call.call, call.req>>}
               out == [call.out EXCEPT !.add = add, !.settle = settle]
    <2>1. SettledAs(outcome) = out
      BY <1>8 DEF SettledAs, rec
    <2>2. \A s \in settle : s[1] = call.call /\ s[2] = call.req
      OBVIOUS
    <2>3. settle # {} /\ \A x \in add : x = rec
      OBVIOUS
    <2> HIDE DEF settle, add
    <2>4. out.add = add /\ out.remove = {} /\ out.settle = settle /\ out.tombs = {} /\ out.exempt = {}
      BY DEF NoOutcome
    <2> HIDE DEF out
    <2>5. OutSafe(out)
      <3>1. \A x \in out.add : \A r \in Made : Watched(r, Free) /\ Takes(x, r) => seerr[r].call = call.call /\ out.settle # {}
        BY <1>1, <2>3, <2>4 DEF Takes
      <3> QED BY <2>2, <2>4, <3>1 DEF OutSafe
    <2>6. Releases(out)
      BY <2>4 DEF Releases
    <2> QED BY <2>1, <2>5, <2>6
  <1> QED BY <1>6, <1>7, <1>8

\* Every step keeps what the call will write safe.
LEMMA OutsKept ==
  ASSUME AskInv, Numbered, IntentsFaithful, ListedFaithful, Keeps(mem, Free), CallSafe, [Next]_vars
  PROVE  OutSafe(call.out)' /\ Releases(call.out)'
  <1> DEFINE Goal == OutSafe(call.out)' /\ Releases(call.out)'
  <1>1. SeerrTyped /\ CallTyped /\ MemTyped
    BY DEF AskInv, TypeInv
  <1>2. OutSafe(call.out) /\ Releases(call.out) /\ call.out \in Outcome /\ call.out.add \subseteq Entry
    BY <1>1 DEF CallSafe, CallTyped
  <1>3. ASSUME NEW out, out.add \subseteq Entry, OutSafe(out), Releases(out), call'.out = out, call'.call = call.call,
               flying' \subseteq flying \/ out.remove = {}
        PROVE  Goal
    <2>1. OutSafe(call.out)'
      BY <1>3, OutStays
    <2>2. Releases(call.out)'
      BY <1>3, ReleaseStays
    <2> QED BY <2>1, <2>2
  <1>4. ASSUME call'.out = NoOutcome PROVE Goal
    BY <1>4 DEF OutSafe, Releases, NoOutcome
  <1> HIDE DEF Goal
  <1> SUFFICES Goal
    BY DEF Goal
  <1>5. ~Send => flying' \subseteq flying
    BY <1>1, WorldGrows
  <1>6. Send => call.pc = "recheck" /\ call'.pc \in {"sent", "write"}
    BY <1>1, SendWorld
  <1>7. ASSUME call'.out = call.out, call'.call = call.call, call.pc # "recheck" \/ call'.pc \notin {"sent", "write"} PROVE Goal
    BY <1>2, <1>3, <1>5, <1>6, <1>7
  <1>8. CASE UNCHANGED call
    BY <1>7, <1>8
  <1>9. CASE CallFails \/ NothingToDo \/ RetryAfterCall \/ Crash
    <2>1. call' = NoCall
      BY <1>9 DEF CallFails, NothingToDo, RetryAfterCall, Crash
    <2> QED BY <1>4, <2>1 DEF NoCall
  <1>10. CASE WriteOutcome
    BY <1>1, <1>4, <1>10, WriteOutcomeWorld
  <1>11. CASE \E h \in Household : \E u \in Member : Submit(u, h)
    BY <1>1, <1>4, <1>11, SubmitWorld
  <1>12. CASE Look \/ DecideJoin \/ DecideRequest \/ IntentSaved \/ IntentNotSaved \/ NoAnswer
    <2>1. call'.out = call.out /\ call'.call = call.call /\ call.pc # "recheck"
      BY <1>1, <1>12 DEF Look, DecideJoin, DecideRequest, IntentSaved, IntentNotSaved, NoAnswer, CallTyped
    <2> QED BY <1>7, <2>1
  <1>13. CASE DecideFollow
    <2> DEFINE rec == Follow(call.req)
               add == {rec}
               out == [call.out EXCEPT !.add = add]
    <2>1. ~here /\ call.pc = "decide" /\ call.req # NoRequest /\ call' = [call EXCEPT !.pc = "write", !.out.add = {Follow(call.req)}]
      BY <1>13 DEF DecideFollow
    <2>2. rec \in Entry
      BY <1>1, <2>1, NewRecordFields DEF Follow, CallTyped
    <2>3. \A r \in Made : ~Watched(r, Free)
      BY <2>1 DEF Numbered, Late, Watched
    <2> HIDE DEF rec
    <2>4. call'.out = out /\ call'.call = call.call
      BY <1>1, <2>1 DEF CallTyped, rec
    <2>5. add \subseteq Entry
      BY <2>2
    <2> HIDE DEF add
    <2>6. OutSafe(out) /\ Releases(out) /\ out.add = add
      BY <1>2, <2>3, AddSafe
    <2> HIDE DEF out
    <2> QED BY <1>3, <1>5, <1>6, <2>1, <2>4, <2>5, <2>6
  <1>14. CASE Join
    <2> DEFINE rec == [NewRecord("join", NoRequest) EXCEPT !.status = "completed"]
    <2>1. call.pc = "join" /\ \/ \E add \in {{rec}, {}} : call' = [call EXCEPT !.pc = "write", !.out.add = add]
                              \/ call' = [call EXCEPT !.pc = "write"]
      BY <1>14 DEF Join
    <2>2. rec \in Entry /\ rec.branch = "join"
      <3>1. NewRecord("join", NoRequest) \in Entry /\ NewRecord("join", NoRequest).branch = "join"
        BY <1>1, <2>1, NewRecordFields
      <3> QED BY <3>1 DEF Entry, Record
    <2> HIDE DEF rec
    <2>3. ASSUME NEW add \in {{rec}, {}}, call' = [call EXCEPT !.pc = "write", !.out.add = add] PROVE Goal
      <3> DEFINE out == [call.out EXCEPT !.add = add]
      <3>1. add \subseteq Entry /\ \A x \in add : \A r \in Made : ~Takes(x, r)
        BY <2>2 DEF Takes
      <3>2. call'.out = out /\ call'.call = call.call
        BY <1>1, <2>3 DEF CallTyped
      <3>3. OutSafe(out) /\ Releases(out) /\ out.add = add
        BY <1>2, <3>1, AddSafe
      <3> HIDE DEF out
      <3> QED BY <1>3, <1>5, <1>6, <2>1, <3>1, <3>2, <3>3
    <2>4. ASSUME call' = [call EXCEPT !.pc = "write"] PROVE Goal
      <3>1. call'.out = call.out /\ call'.call = call.call
        BY <1>1, <2>4 DEF CallTyped
      <3> QED BY <1>7, <2>1, <3>1
    <2> QED BY <2>1, <2>3, <2>4
  <1>15. CASE RecheckFails \/ RecheckJoin \/ Send
    <2>1. call.pc = "recheck" /\ call.out = NoOutcome /\ Unsent(call.call)
      BY <1>15 DEF RecheckFails, RecheckJoin, Send, CallSafe, Numbered
    <2>2. OutSafe(Dropped) /\ Releases(Dropped) /\ Dropped.add = {}
      BY <1>1, <2>1, DroppedSafe
    <2>3. \/ call'.out = Dropped /\ call'.call = call.call /\ flying' \subseteq flying
          \/ call'.out = call.out /\ call'.call = call.call
      BY <1>1, <1>15 DEF RecheckFails, RecheckJoin, Send, world, CallTyped
    <2>4. call.out.remove = {}
      BY <2>1 DEF NoOutcome
    <2>5. CASE call'.out = Dropped /\ call'.call = call.call /\ flying' \subseteq flying
      BY <1>3, <2>2, <2>5
    <2>6. CASE call'.out = call.out /\ call'.call = call.call
      BY <1>2, <1>3, <2>4, <2>6
    <2> QED BY <2>3, <2>5, <2>6
  <1>16. CASE Settle
    <2>1. call.pc = "settle" /\ UNCHANGED flying
      BY <1>16 DEF Settle, world
    <2>2. call.out = NoOutcome /\ call.req \in Made /\ seerr[call.req].call = call.call
      BY <2>1 DEF CallSafe
    <2>3. PICK outcome : /\ outcome = "absent" => ~here
                         /\ call' = [call EXCEPT !.pc = "write", !.out = SettledAs(outcome)]
      BY <1>16 DEF Settle, Presence
    <2>4. OutSafe(SettledAs(outcome)) /\ Releases(SettledAs(outcome))
      BY <1>1, <2>1, <2>2, <2>3, SettledSafe
    <2>5. SettledAs(outcome) \in Outcomes
      BY <1>1, <2>1, SettledAsFields DEF AskInv
    <2>6. SettledAs(outcome).add \subseteq Entry
      BY <2>5 DEF Outcomes
    <2>7. call'.out = SettledAs(outcome) /\ call'.call = call.call
      BY <1>1, <2>3 DEF CallTyped
    <2> QED BY <1>3, <2>1, <2>4, <2>6, <2>7
  <1>17. CASE FallBack
    <2>1. call.pc = "conflict" /\ UNCHANGED <<seerr, flying, mem>>
      BY <1>17 DEF FallBack, world
    <2>2. call.out = NoOutcome /\ Unsent(call.call)
      BY <2>1 DEF CallSafe, Numbered
    <2>3. /\ Dropped \in Outcome /\ Dropped.remove = {call.call} /\ Dropped.settle = {}
          /\ Dropped.tombs = {} /\ Dropped.exempt = {}
      BY <1>1, <2>2, DroppedSafe
    <2>4. \E branch \in {"request", "interest"}, q \in Made \cup {NoRequest} :
            /\ branch = "request" => q \in Made /\ (q \in Lost => q \in adopted')
            /\ call' = [call EXCEPT !.pc = "write", !.out = [Dropped EXCEPT !.add = {NewRecord(branch, q)}]]
      <3>1. ASSUME NEW r \in (IF Active # {} THEN Active ELSE IF Blocking # {} THEN Blocking ELSE {NoRequest}),
                   call' = [call EXCEPT !.pc = "write",
                              !.out = [Dropped EXCEPT !.add = {IF r = NoRequest THEN NewRecord("interest", r) ELSE Follow(r)}]],
                   adopted' = adopted \cup {q \in Lost : q = r /\ seerr[q].by = call.user}
            PROVE  \E branch \in {"request", "interest"}, q \in Made \cup {NoRequest} :
                     /\ branch = "request" => q \in Made /\ (q \in Lost => q \in adopted')
                     /\ call' = [call EXCEPT !.pc = "write", !.out = [Dropped EXCEPT !.add = {NewRecord(branch, q)}]]
        <4>1. r \in Made \cup {NoRequest}
          BY <3>1 DEF Active, Blocking
        <4>2. PICK branch \in {"request", "interest"} :
                /\ branch = "request" => r # NoRequest /\ seerr[r].by = call.user
                /\ (IF r = NoRequest THEN NewRecord("interest", r) ELSE Follow(r)) = NewRecord(branch, r)
          BY DEF Follow
        <4> QED BY <3>1, <4>1, <4>2
      <3>2. CASE call' = [call EXCEPT !.pc = "write", !.out = [Dropped EXCEPT !.add = {NewRecord("interest", NoRequest)}]]
        BY <3>2
      <3> QED BY <1>17, <3>1, <3>2 DEF FallBack
    <2>5. PICK branch \in {"request", "interest"}, q \in Made \cup {NoRequest} :
            /\ branch = "request" => q \in Made /\ (q \in Lost => q \in adopted')
            /\ call' = [call EXCEPT !.pc = "write", !.out = [Dropped EXCEPT !.add = {NewRecord(branch, q)}]]
      BY <2>4
    <2> DEFINE add == {NewRecord(branch, q)}
               out == [Dropped EXCEPT !.add = add]
    <2>6. \A rec \in add : \A r \in Made : Watched(r, Free)' /\ Takes(rec, r) => \A i \in mem.intents : i.call # seerr[r].call
      <3> SUFFICES ASSUME NEW r \in Made, Watched(r, Free)', Takes(NewRecord(branch, q), r)
                   PROVE  r \notin Lost
        BY DEF Lost
      <3>1. branch = "request" /\ q = r
        <4>1. branch \in {"request", "interest", "join"} /\ call.pc \notin {"idle", "retry"}
          BY <2>1
        <4> QED BY <1>1, <4>1, NewRecordFields DEF Takes
      <3>2. r \notin adopted'
        BY DEF Watched, Free
      <3> QED BY <2>5, <3>1, <3>2
    <2>7. call'.out = out /\ call'.call = call.call
      BY <1>1, <2>5 DEF CallTyped
    <2> HIDE DEF add
    <2>8. out.add = add /\ out.remove = {call.call} /\ out.settle = {} /\ out.tombs = {} /\ out.exempt = {}
      BY <2>3 DEF Outcome
    <2> HIDE DEF out
    <2>9. Made' = Made
      BY <2>1 DEF Made
    <2>10. OutSafe(call.out)'
      BY <2>1, <2>6, <2>7, <2>8, <2>9 DEF OutSafe
    <2>11. Releases(call.out)'
      BY <2>1, <2>2, <2>7, <2>9 DEF Releases, Unsent
    <2> QED BY <2>10, <2>11 DEF Goal
  <1>18. ASSUME NEW f \in flying, SeerrMakes(f) PROVE Goal
    <2>1. call'.out = call.out /\ call'.call = call.call /\ flying' \subseteq flying
      BY <1>1, <1>18 DEF SeerrMakes, CallTyped
    <2> QED BY <1>2, <1>3, <2>1
  <1>19. ASSUME NEW f \in flying, SeerrRefuses(f) PROVE Goal
    <2>1. flying' = flying \ {f} /\ UNCHANGED <<seerr, mem>>
      BY <1>19 DEF SeerrRefuses
    <2>2. \/ call'.out = call.out /\ call'.call = call.call
          \/ Waiting(f) /\ call'.out = Dropped /\ call'.call = call.call
      <3>1. \/ call' = call
            \/ Waiting(f) /\ call' = [call EXCEPT !.pc = "write", !.out = Dropped]
            \/ call' = [call EXCEPT !.pc = "conflict"]
        BY <1>19 DEF SeerrRefuses
      <3> QED BY <1>1, <3>1 DEF CallTyped
    <2>3. CASE call'.out = call.out /\ call'.call = call.call
      BY <1>2, <1>3, <2>1, <2>3
    <2>4. CASE Waiting(f) /\ call'.out = Dropped /\ call'.call = call.call
      <3>1. call.pc = "sent" /\ f.call = call.call
        BY <2>4 DEF Waiting
      <3>2. OutSafe(Dropped) /\ Dropped.add = {}
        BY <1>1, <3>1, DroppedSafe DEF CallSafe
      <3>3. OutSafe(call.out)'
        BY <2>4, <3>2, OutStays
      <3>4. (\A g \in flying' : g.call # call.call) /\ \A r \in Made' : seerr'[r].call # call.call
        BY <2>1, <3>1 DEF Numbered, Made
      <3>5. Releases(call.out)'
        BY <2>4, <3>4 DEF Releases
      <3> QED BY <3>3, <3>5 DEF Goal
    <2> QED BY <2>2, <2>3, <2>4
  <1> QED BY <1>8, <1>9, <1>10, <1>11, <1>12, <1>13, <1>14, <1>15, <1>16, <1>17, <1>18, <1>19, CallActions DEF CallStep

\* Every step keeps the call's outcome empty before it is decided, and its request its own.
LEMMA StagesKept ==
  ASSUME AskInv, CallSafe, [Next]_vars
  PROVE  /\ call'.pc \notin {"join", "write"} => call'.out = NoOutcome
         /\ call'.pc = "settle" => call'.req \in Made' /\ seerr'[call'.req].call = call'.call
  <1> DEFINE Goal == /\ call'.pc \notin {"join", "write"} => call'.out = NoOutcome
                     /\ call'.pc = "settle" => call'.req \in Made' /\ seerr'[call'.req].call = call'.call
  <1>1. SeerrTyped /\ CallTyped /\ MemTyped
    BY DEF AskInv, TypeInv
  <1>2. /\ call.pc \notin {"join", "write"} => call.out = NoOutcome
        /\ call.pc = "settle" => call.req \in Made /\ seerr[call.req].call = call.call
    BY DEF CallSafe
  <1>3. CASE UNCHANGED call
    <2>1. Made \subseteq Made' /\ \A r \in Made : seerr'[r].call = seerr[r].call
      BY <1>1, WorldGrows
    <2> QED BY <1>2, <1>3, <2>1
  <1>4. ASSUME call'.pc = "write" PROVE Goal
    BY <1>4
  <1>5. CASE CallFails \/ NothingToDo \/ RetryAfterCall \/ Crash
    <2>1. call' = NoCall
      BY <1>5 DEF CallFails, NothingToDo, RetryAfterCall, Crash
    <2> QED BY <2>1 DEF NoCall
  <1>6. CASE WriteOutcome
    BY <1>1, <1>6, WriteOutcomeWorld
  <1>7. CASE \E h \in Household : \E u \in Member : Submit(u, h)
    BY <1>1, <1>7, SubmitWorld
  <1>8. CASE Look \/ DecideJoin \/ DecideRequest \/ IntentSaved \/ IntentNotSaved \/ NoAnswer
    <2>1. call'.out = call.out /\ call.pc \notin {"join", "write"} /\ call'.pc # "settle"
      BY <1>1, <1>8 DEF Look, DecideJoin, DecideRequest, IntentSaved, IntentNotSaved, NoAnswer, CallTyped
    <2> QED BY <1>2, <2>1
  <1>9. CASE DecideFollow \/ Join
    <2>1. call'.pc = "write"
      <3>1. \/ \E add : call' = [call EXCEPT !.pc = "write", !.out.add = add]
            \/ call' = [call EXCEPT !.pc = "write"]
        BY <1>9 DEF DecideFollow, Join
      <3> QED BY <1>1, <3>1 DEF CallTyped
    <2> QED BY <1>4, <2>1
  <1>10. CASE RecheckFails \/ RecheckJoin \/ Send
    <2>1. call'.pc \in {"join", "write"} \/ (call'.pc = "sent" /\ call'.out = call.out /\ call.pc = "recheck")
      BY <1>1, <1>10 DEF RecheckFails, RecheckJoin, Send, CallTyped
    <2> QED BY <1>2, <2>1
  <1>11. CASE Settle \/ FallBack
    <2>1. \E o : call' = [call EXCEPT !.pc = "write", !.out = o]
      BY <1>11 DEF Settle, FallBack
    <2>2. call'.pc = "write"
      BY <1>1, <2>1 DEF CallTyped
    <2> QED BY <1>4, <2>2
  <1>12. ASSUME NEW f \in flying, SeerrMakes(f) PROVE Goal
    <2>1. PICK k : k = Len(seerr) + 1
      OBVIOUS
    <2>2. /\ k \in Made' /\ seerr'[k].call = f.call
          /\ \/ UNCHANGED call
             \/ Waiting(f) /\ call' = [call EXCEPT !.pc = "settle", !.req = k]
      BY <1>1, <1>12, <2>1, MakesWorld
    <2>3. CASE Waiting(f) /\ call' = [call EXCEPT !.pc = "settle", !.req = k]
      <3>1. call'.req = k /\ call'.call = call.call /\ call'.out = call.out
        BY <1>1, <2>3 DEF CallTyped
      <3>2. call.pc = "sent" /\ call.call = f.call
        BY <2>3 DEF Waiting
      <3> QED BY <1>2, <2>2, <3>1, <3>2
    <2> QED BY <1>3, <2>2, <2>3
  <1>13. ASSUME NEW f \in flying, SeerrRefuses(f) PROVE Goal
    <2>1. \/ UNCHANGED call
          \/ call' = [call EXCEPT !.pc = "write", !.out = Dropped]
          \/ call.pc = "sent" /\ call' = [call EXCEPT !.pc = "conflict"]
      BY <1>13 DEF SeerrRefuses, Waiting
    <2>2. \/ UNCHANGED call
          \/ call'.pc = "write"
          \/ call.pc = "sent" /\ call'.pc = "conflict" /\ call'.out = call.out
      BY <1>1, <2>1 DEF CallTyped
    <2> QED BY <1>2, <1>3, <1>4, <2>2
  <1> QED BY <1>3, <1>5, <1>6, <1>7, <1>8, <1>9, <1>10, <1>11, <1>12, <1>13, CallActions DEF CallStep

\* The invariant of protection holds at the start.
LEMMA InitProtect == ASSUME Init PROVE ProtectInv
  <1>1. /\ mem.intents = {} /\ mem.records = {} /\ mem.tombs = {} /\ seerr = <<>> /\ flying = {} /\ unsaved = {}
        /\ call = NoCall /\ refresh = [f \in Refresher |-> Resting] /\ spent.calls = 0
    BY DEF Init, NewState
  <1>2. Made = {}
    BY <1>1 DEF Made
  <1>3. call.pc = "idle" /\ call.out = NoOutcome
    BY <1>1 DEF NoCall
  <1>4. Numbered
    BY <1>1, <1>2, <1>3 DEF Numbered
  <1>5. IntentsFaithful
    BY <1>1 DEF IntentsFaithful
  <1>6. ListedFaithful
    <2>1. \A f \in Refresher : refresh[f].pc = "idle" /\ refresh[f].intents = {}
      BY <1>1 DEF Resting
    <2> QED BY <2>1 DEF ListedFaithful, Listed
  <1>7. Keeps(mem, Free)
    BY <1>1, <1>2 DEF Keeps, LateKept, FlyingKept, TombsOfMade, NotTaken
  <1>8. CallSafe
    BY <1>1, <1>2, <1>3 DEF CallSafe, OutSafe, Releases, NoOutcome
  <1> QED BY <1>4, <1>5, <1>6, <1>7, <1>8 DEF ProtectInv

\* Every step keeps the invariant of protection.
LEMMA ProtectKept == ASSUME AskInv, ProtectInv, [Next]_vars PROVE ProtectInv'
  <1>1. SeerrTyped /\ CallTyped /\ Numbered /\ IntentsFaithful /\ ListedFaithful /\ Keeps(mem, Free) /\ CallSafe
    BY DEF AskInv, TypeInv, ProtectInv
  <1>2. Numbered'
    BY <1>1, NumberedKept
  <1>3. IntentsFaithful'
    BY <1>1, IntentsKept
  <1>4. ListedFaithful'
    BY <1>1, ListedKept
  <1>5. Keeps(mem, Free)'
    BY <1>1, KeepsKept
  <1>6. CallSafe'
    <2>1. OutSafe(call.out)' /\ Releases(call.out)'
      BY <1>1, OutsKept
    <2>2. /\ call'.pc \notin {"join", "write"} => call'.out = NoOutcome
          /\ call'.pc = "settle" => call'.req \in Made' /\ seerr'[call'.req].call = call'.call
      BY <1>1, StagesKept
    <2> QED BY <2>1, <2>2 DEF CallSafe
  <1> QED BY <1>2, <1>3, <1>4, <1>5, <1>6 DEF ProtectInv

\* However calls, refreshes, lost answers and restarts follow each other, every intent is its call's and older than
\* the requests made for it, a refresh holds it as it is or as it was until its call settled, and a late request is
\* kept by it or by what replaced it, unless a duplicate's fallback or such a refresh set it free.
THEOREM ProtectInvariant == Spec => []ProtectInv
  <1>1. Init => ProtectInv
    BY InitProtect
  <1>2. AskInv /\ ProtectInv /\ [Next]_vars => ProtectInv'
    BY ProtectKept
  <1> QED BY <1>1, <1>2, AskInvariant, PTL DEF Spec

\* A request "Get this" made too late is protected in memory and on disk until it is handled: by the intent it was
\* made for, by a record that follows the join rules, or by a tombstone, whatever crashed, was lost or was given up on.
\* Two orders take that away, and no other: a duplicate's fallback that follows it as the member's own, and a refresh
\* that resolves its intent as it was listed before the call settled.
THEOREM ProtectedAlways == Spec => []Protected
  <1>1. AskInv /\ ProtectInv => Protected
    <2> SUFFICES ASSUME AskInv, ProtectInv, NEW r \in Made, Late(r), r \notin adopted \cup reworked
                 PROVE  Protects(mem, r, seerr[r].by, seerr[r].call) /\ Protects(OnDisk, r, seerr[r].by, seerr[r].call)
      BY DEF Protected
    <2>1. Settled(mem, r) \/ \E i \in mem.intents : i.call = seerr[r].call
      BY DEF ProtectInv, Keeps, LateKept, Watched, Free
    <2>2. seerr[r].call \notin unsaved
      BY DEF ProtectInv, Numbered, Unsent
    <2>3. PICK m : m = OnDisk
      OBVIOUS
    <2>4. /\ m.intents = {i \in mem.intents : i.call \notin unsaved}
          /\ m.records = mem.records /\ m.tombs = mem.tombs /\ m.handled = mem.handled
      BY <2>3 DEF OnDisk, AskInv, TypeInv, MemTyped, State
    <2>5. Protects(mem, r, seerr[r].by, seerr[r].call)
      BY <2>1 DEF Protects, Settled
    <2>6. Protects(m, r, seerr[r].by, seerr[r].call)
      BY <2>1, <2>2, <2>4 DEF Protects, Settled, GrantsAsJoin, NamedByTombstone, MemberWide
    <2> QED BY <2>3, <2>5, <2>6
  <1> QED BY <1>1, AskInvariant, ProtectInvariant, PTL

-----------------------------------------------------------------------------
(* What is granted as a new private grant *)

\* Only a request that is about to be granted gets a grant.
LEMMA GrantedMoves ==
  ASSUME AskInv, [Next]_vars
  PROVE  \/ mem'.granted = mem.granted /\ (mem'.handled = mem.handled \/ Act)
         \/ Act /\ queue.rule # "join" /\ mem'.granted = mem.granted \cup {queue.req}
  <1>1. /\ SeerrTyped /\ MemTyped /\ CallTyped /\ QueueTyped /\ RefreshTyped /\ MemAsked /\ RefreshAsked /\ mem \in State
    BY DEF AskInv, TypeInv, MemTyped
  <1>2. ASSUME NEW epoch, NEW out, mem' = Written(mem, epoch, out) PROVE mem'.granted = mem.granted /\ mem'.handled = mem.handled
    BY <1>1, <1>2, WrittenFields
  <1>3. CASE DecideRequest \/ Crash \/ JobDone
    BY <1>1, <1>3 DEF DecideRequest, Crash, OnDisk, JobDone, State
  <1>4. CASE Join
    <2> DEFINE homes == {call.home}
    <2>1. UNCHANGED mem \/ mem' = Joined(mem, homes)
      BY <1>4 DEF Join
    <2>2. homes \in SUBSET Household
      BY <1>1, <1>4, HomesAssumption DEF Join, CallTyped
    <2> HIDE DEF homes
    <2>3. Joined(mem, homes).granted = mem.granted /\ Joined(mem, homes).handled = mem.handled
      BY <1>1, <2>2, JoinedFields
    <2> QED BY <2>1, <2>3
  <1>5. CASE WriteOutcome
    BY <1>2, <1>5 DEF WriteOutcome
  <1>6. ASSUME NEW h \in Household, Replace(h) PROVE mem'.granted = mem.granted /\ mem'.handled = mem.handled
    BY <1>1, <1>6, ReplacedFields DEF Replace
  <1>7. ASSUME NEW r, UNCHANGED mem \/ mem' = [mem EXCEPT !.deferred = mem.deferred \cup {r}] PROVE mem'.granted = mem.granted /\ mem'.handled = mem.handled
    BY <1>1, <1>7 DEF State
  <1>8. ASSUME NEW r \in queue.todo, Rule(r) PROVE mem'.granted = mem.granted /\ mem'.handled = mem.handled
    <2>1. UNCHANGED mem \/ mem' = [mem EXCEPT !.deferred = mem.deferred \cup {r}]
      BY <1>1, <1>8, RuleFields, RuledFields
    <2> QED BY <1>7, <2>1
  <1>9. CASE RequestRead
    <2>1. UNCHANGED mem \/ mem' = [mem EXCEPT !.deferred = mem.deferred \cup {queue.req}]
      BY <1>1, <1>9, RequestReadFields, RuledFields
    <2> QED BY <1>7, <2>1
  <1>10. CASE Act
    <2>1. \/ UNCHANGED mem
          \/ mem' = Handled(mem, queue.req)
          \/ queue.rule # "join" /\ mem' = GrantedTo(mem, queue.req, Homes[seerr[queue.req].by])
      BY <1>10 DEF Act
    <2> QED BY <1>1, <1>10, <2>1 DEF Handled, GrantedTo, State
  <1>11. CASE SettleRecords
    <2>1. UNCHANGED mem \/ mem' = RecordsSettled(mem, queue.req)
      BY <1>11 DEF SettleRecords
    <2> QED BY <1>1, <2>1, RecordsSettledFields
  <1>12. ASSUME NEW f \in Refresher, NEW i \in refresh[f].intents, RefreshIntent(f, i) PROVE mem'.granted = mem.granted /\ mem'.handled = mem.handled
    <2>1. UNCHANGED mem \/ \E reqs : Retire(f, i, reqs)
      BY <1>12 DEF RefreshIntent, Recover, Leave
    <2> QED BY <1>2, <2>1 DEF Retire
  <1>13. ASSUME NEW f \in Refresher, RefreshSettle(f) PROVE mem'.granted = mem.granted /\ mem'.handled = mem.handled
    <2> DEFINE i == refresh[f].intent
               r == refresh[f].made
    <2>1. i \in Wish
      BY <1>1, <1>13 DEF RefreshSettle, RefreshTyped
    <2>2. \/ UNCHANGED mem
          \/ mem' = Written(mem, i.epoch, Recovered(i, r, here))
          \/ mem' = Resettled(mem, i, here)
          \/ Retire(f, i, {r})
          \/ mem' = Resettled(mem, i, TRUE)
      BY <1>13 DEF RefreshSettle, SettleRead, Leave
    <2> HIDE DEF i, r
    <2>3. ASSUME NEW follow \in BOOLEAN, mem' = Resettled(mem, i, follow) PROVE mem'.granted = mem.granted /\ mem'.handled = mem.handled
      BY <1>1, <2>1, <2>3, ResettledFields
    <2>4. PICK present \in BOOLEAN : present = here
      BY <1>1 DEF SeerrTyped
    <2> QED BY <1>2, <2>2, <2>3, <2>4 DEF Retire
  <1>14. ASSUME NEW f \in Refresher, NEW rec \in refresh[f].records, RefreshRecord(f, rec) PROVE mem'.granted = mem.granted /\ mem'.handled = mem.handled
    <2>1. \/ UNCHANGED mem
          \/ \E m \in State :
                 /\ mem' = m
                 /\ m.intents = mem.intents /\ m.tombs = mem.tombs /\ m.deferred = mem.deferred
                 /\ m.handled = mem.handled /\ m.granted = mem.granted /\ m.epoch = mem.epoch
                 /\ mem.groups \subseteq m.groups
                 /\ \A h \in m.groups : h \in mem.groups \/ \E x \in mem.records : x.home = h /\ ~x.detached
                 /\ \/ m.records = mem.records
                    \/ /\ rec \in mem.records /\ m.records = (mem.records \ {rec}) \cup {NowIs(rec)}
                       /\ NowIs(rec).status = "completed" /\ ~MadeByItsRequest(rec) => rec.home \in m.groups
      BY <1>1, <1>14, RefreshRecordFields
    <2> QED BY <2>1
  <1> QED BY <1>3, <1>4, <1>5, <1>6, <1>8, <1>9, <1>10, <1>11, <1>12, <1>13, <1>14, MemActions

\* The rule for a late request is never to grant it as a private grant: what protects it stands in the way.
LEMMA RuledWell ==
  ASSUME LateKept(mem, Free), NEW r \in Made, r \notin mem.handled, NEW rule,
         \/ rule = RuleAtOnce(mem, r)
         \/ /\ RuleAtOnce(mem, r) = "read"
            /\ rule = RuleAfterRead(mem, r, seerr[r].by, mem.intents # {}, MemberWide(mem)),
         rule = "grant"
  PROVE  ~Watched(r, Free)
  <1>1. ~GrantsAsJoin(mem, r) /\ ~NamedByTombstone(mem, r)
    BY DEF RuleAtOnce
  <1>2. mem.intents = {} /\ \A t \in MemberWide(mem) : ~Covers(t, r, seerr[r].by)
    BY DEF RuleAtOnce, RuleAfterRead
  <1> QED BY <1>1, <1>2 DEF LateKept, Settled

\* Every step keeps late requests from the rule that makes a private grant.
LEMMA GrantKept == ASSUME AskInv, ProtectInv, GrantInv, [Next]_vars PROVE GrantInv'
  <1>1. /\ SeerrTyped /\ MemTyped /\ CallTyped /\ QueueTyped /\ queue \in Job
        /\ mem.deferred \in SUBSET Made /\ mem.granted \subseteq Made
    BY DEF AskInv, TypeInv, QueueTyped, MemTyped
  <1>2. Made \subseteq Made' /\ \A r \in Made : Excused(r) => Excused(r)'
    BY <1>1, WorldGrows, SlipsKept DEF AskInv, TypeInv, Excused, Free
  <1>3. \A x \in queue.ready : x[1] \in Made /\ x[2] \in {"grant", "join"}
    BY <1>1 DEF Job
  <1>4. NeverPrivate'
    <2>1. \A r \in mem.granted : r \in Made /\ Excused(r)
      BY <1>1 DEF GrantInv, NeverPrivate, Excused, Free
    <2>2. ASSUME Act, queue.rule # "join" PROVE queue.req \in Made /\ Excused(queue.req)
      BY <1>1, <2>2 DEF Act, QueueTyped, GrantInv
    <2>3. \A r \in mem'.granted : r \in Made /\ Excused(r)
      BY <2>1, <2>2, GrantedMoves
    <2>4. \A r \in mem'.granted : Excused(r)'
      BY <1>2, <2>3
    <2> QED BY <2>4 DEF NeverPrivate, Excused, Late, Free
  <1> DEFINE Goal == /\ queue'.pc = "read" => queue'.req \notin mem'.handled
                     /\ queue'.pc = "act" /\ queue'.rule # "join" => Excused(queue.req)'
                     /\ \A x \in queue'.ready : x[2] = "grant" => Excused(x[1])'
  <1>5. ASSUME NEW q, queue' = q, q.pc = "read" => q.req \notin mem'.handled,
               q.pc = "act" /\ q.rule # "join" => q.req \in Made /\ (Excused(q.req) \/ Excused(q.req)'),
               \A x \in q.ready : x[2] = "grant" => x[1] \in Made /\ (Excused(x[1]) \/ Excused(x[1])')
        PROVE  Goal
    BY <1>2, <1>5 DEF Excused, Late, Free
  <1>6. \A x \in queue.ready : x[2] = "grant" => x[1] \in Made /\ Excused(x[1])
    BY <1>3 DEF GrantInv
  <1>7. ASSUME queue'.pc \in {"idle", "next", "settle"}, queue'.ready \subseteq queue.ready PROVE Goal
    BY <1>5, <1>6, <1>7
  <1> HIDE DEF Goal
  <1> SUFFICES Goal
    BY <1>4 DEF GrantInv, Goal
  <1>8. CASE UNCHANGED queue
    <2>1. queue.pc = "read" => queue.req \notin mem'.handled
      BY GrantedMoves DEF GrantInv, Act
    <2> QED BY <1>1, <1>5, <1>6, <1>8, <2>1 DEF GrantInv, QueueTyped
  <1>9. CASE RetryAfterCall \/ Crash \/ \E f \in Refresher : RefreshRetries(f)
    <2>1. queue' = NoJob \/ queue' = RetryJob
      BY <1>9 DEF RetryAfterCall, Crash, RefreshRetries
    <2>2. RetryJob.pc = "next" /\ RetryJob.ready = {}
      BY <1>1, NoJobFields DEF RetryJob
    <2> QED BY <1>7, <2>1, <2>2, NoJobFields
  <1>10. CASE Backfill
    <2> DEFINE missed == {r \in Made : seerr[r].status = "completed" /\ r \notin mem.handled}
    <2>1. queue' = [NoJob EXCEPT !.job = "backfill", !.pc = "next", !.todo = missed]
      BY <1>10 DEF Backfill
    <2>2. missed \in SUBSET Made
      OBVIOUS
    <2> HIDE DEF missed
    <2> QED BY <1>7, <2>1, <2>2, NoJobFields
  <1>11. ASSUME NEW r \in Made, Hook(r) PROVE Goal
    <2> DEFINE todo == {r}
    <2>1. \/ queue' = [NoJob EXCEPT !.job = "hook", !.pc = "next", !.todo = todo]
          \/ queue' = [NoJob EXCEPT !.job = "hook", !.pc = "settle", !.req = r]
          \/ queue' = NoJob
      BY <1>11 DEF Hook
    <2>2. todo \in SUBSET Made
      OBVIOUS
    <2> HIDE DEF todo
    <2>3. ASSUME queue' = [NoJob EXCEPT !.job = "hook", !.pc = "next", !.todo = todo] PROVE Goal
      BY <1>7, <2>2, <2>3, NoJobFields
    <2>4. ASSUME queue' = [NoJob EXCEPT !.job = "hook", !.pc = "settle", !.req = r] PROVE Goal
      BY <1>7, <2>4, NoJobFields
    <2> QED BY <1>7, <2>1, <2>3, <2>4, NoJobFields
  <1>12. ASSUME NEW r \in queue.todo, Rule(r) PROVE Goal
    <2>1. /\ r \in Made /\ UNCHANGED <<seerr, here>>
          /\ \/ /\ UNCHANGED mem /\ queue' \in Job /\ queue'.pc = "next" /\ queue'.ready = queue.ready
             \/ /\ UNCHANGED mem /\ queue' \in Job /\ queue'.pc = "read" /\ queue'.req = r /\ queue'.ready = queue.ready
                /\ r \notin mem.handled
             \/ \E q \in Job, rule \in {"grant", "join", "defer"} :
                  /\ q.ready = queue.ready /\ RuleGiven(q, r, rule) /\ r \notin mem.handled
                  /\ \/ rule = "defer"
                     \/ rule = RuleAtOnce(mem, r)
                     \/ /\ RuleAtOnce(mem, r) = "read"
                        /\ rule = RuleAfterRead(mem, r, seerr[r].by, mem.intents # {}, MemberWide(mem))
      BY <1>1, <1>12, RuleFields
    <2>2. ASSUME NEW q \in Job, NEW rule \in {"grant", "join", "defer"}, q.ready = queue.ready, RuleGiven(q, r, rule),
                 rule = "grant" => Excused(r)
          PROVE  Goal
      <3>1. /\ queue'.pc \in {"next", "act"}
            /\ queue'.pc = "act" => queue'.req = r /\ queue'.rule = rule /\ rule # "defer"
            /\ queue'.ready \subseteq q.ready \cup (IF rule = "defer" THEN {} ELSE {<<r, rule>>})
        BY <2>1, <2>2, RuledFields
      <3>2. \A x \in queue'.ready : x[2] = "grant" => x[1] \in Made /\ Excused(x[1])
        BY <1>6, <2>1, <2>2, <3>1
      <3> QED BY <1>5, <2>1, <2>2, <3>1, <3>2
    <2>3. ASSUME NEW rule, rule = "grant", r \notin mem.handled,
                 \/ rule = RuleAtOnce(mem, r)
                 \/ /\ RuleAtOnce(mem, r) = "read"
                    /\ rule = RuleAfterRead(mem, r, seerr[r].by, mem.intents # {}, MemberWide(mem))
          PROVE  Excused(r)
      <3>1. ~Watched(r, Free)
        BY <2>1, <2>3, RuledWell DEF ProtectInv, Keeps
      <3> QED BY <3>1 DEF Watched, Excused
    <2>4. ASSUME UNCHANGED mem, queue'.pc = "read", queue'.req = r, r \notin mem.handled, queue'.ready = queue.ready PROVE Goal
      BY <1>5, <1>6, <2>4
    <2> QED BY <1>7, <2>1, <2>2, <2>3, <2>4
  <1>13. CASE RequestRead
    <2>1. PICK r \in Made : r = queue.req
      BY <1>1, <1>13 DEF RequestRead, QueueTyped
    <2>2. /\ r \notin mem.handled /\ r \in Made' /\ Late(r)' = Late(r)
          /\ UNCHANGED <<seerr, adopted, reworked>>
      BY <1>2, <1>13, <2>1 DEF RequestRead, GrantInv, world, Late
    <2>3. ASSUME RuleThen = "grant", outpaced' = outpaced \cup {q \in {r} : RuleNow(mem, q, seerr[q].by) # "grant"}
          PROVE  Excused(r)'
      <3>1. CASE RuleNow(mem, r, seerr[r].by) # "grant"
        BY <2>3, <3>1 DEF Excused
      <3>2. CASE RuleNow(mem, r, seerr[r].by) = "grant"
        <4>1. ~Watched(r, Free)
          BY <2>2, <3>2, RuledWell DEF ProtectInv, Keeps, RuleNow
        <4> QED BY <2>2, <4>1 DEF Watched, Excused, Free
      <3> QED BY <3>1, <3>2
    <2>4. \E rule \in {"grant", "join", "defer"} : RuleGiven(queue, r, rule) /\ (rule = "grant" => Excused(r)')
      <3>1. RuleThen \in {"grant", "join", "defer"}
        BY DEF RuleThen, RuleAfterRead
      <3>2. \/ /\ RuleGiven(queue, r, RuleThen)
               /\ outpaced' = outpaced \cup {q \in {r} : RuleThen = "grant" /\ RuleNow(mem, q, seerr[q].by) # "grant"}
            \/ RuleGiven(queue, r, "defer")
        BY <1>13, <2>1 DEF RequestRead
      <3>3. RuleThen = "grant" => {q \in {r} : RuleThen = "grant" /\ RuleNow(mem, q, seerr[q].by) # "grant"}
                                  = {q \in {r} : RuleNow(mem, q, seerr[q].by) # "grant"}
        OBVIOUS
      <3> QED BY <2>3, <3>1, <3>2, <3>3
    <2>5. PICK rule \in {"grant", "join", "defer"} : RuleGiven(queue, r, rule) /\ (rule = "grant" => Excused(r)')
      BY <2>4
    <2>6. /\ queue'.pc \in {"next", "act"}
          /\ queue'.pc = "act" => queue'.req = r /\ queue'.rule = rule /\ rule # "defer"
          /\ queue'.ready \subseteq queue.ready \cup (IF rule = "defer" THEN {} ELSE {<<r, rule>>})
      BY <1>1, <2>5, RuledFields
    <2>7. \A x \in queue'.ready : x[2] = "grant" => x[1] \in Made /\ Excused(x[1])'
      <3>1. \A x \in queue.ready : x[2] = "grant" => x[1] \in Made /\ Excused(x[1])'
        BY <1>2, <1>6
      <3> QED BY <2>5, <2>6, <3>1
    <2> QED BY <2>5, <2>6, <2>7 DEF Goal
  <1>14. CASE TakeReady
    <2>1. PICK x \in queue.ready : queue' = [queue EXCEPT !.pc = "act", !.ready = @ \ {x}, !.req = x[1], !.rule = x[2]]
      BY <1>14 DEF TakeReady
    <2>2. queue'.pc = "act" /\ queue'.ready \subseteq queue.ready /\ queue'.req = x[1] /\ queue'.rule = x[2]
      BY <1>1, <2>1 DEF Job
    <2>3. x[2] # "join" => x[1] \in Made /\ Excused(x[1])
      BY <1>3, <1>6
    <2> QED BY <1>5, <1>6, <2>2, <2>3
  <1>15. CASE Act
    <2>1. \/ queue' = [queue EXCEPT !.pc = "settle"]
          \/ queue' = [queue EXCEPT !.pc = "next", !.req = NoRequest, !.rule = "none"]
      BY <1>15 DEF Act
    <2>2. queue'.pc \in {"next", "settle"} /\ queue'.ready = queue.ready
      BY <1>1, <2>1 DEF Job
    <2> QED BY <1>7, <2>2
  <1>16. CASE SettleRecords
    <2> DEFINE after == [queue EXCEPT !.pc = "next", !.req = NoRequest, !.rule = "none"]
    <2>1. queue' = after \/ queue' = [after EXCEPT !.done = @ \cup {queue.req}]
      BY <1>16 DEF SettleRecords
    <2>2. queue.req \in Made
      BY <1>1, <1>16 DEF QueueTyped, SettleRecords
    <2>3. after \in Job /\ after.pc = "next" /\ after.ready = queue.ready
      BY <1>1 DEF Job
    <2> HIDE DEF after
    <2>4. queue'.pc = "next" /\ queue'.ready = queue.ready
      BY <2>1, <2>3 DEF Job
    <2> QED BY <1>7, <2>4
  <1>17. CASE JobDone
    BY <1>7, <1>17, NoJobFields DEF JobDone
  <1> QED BY <1>8, <1>9, <1>10, <1>11, <1>12, <1>13, <1>14, <1>15, <1>16, <1>17, QueueActions DEF GrantStep

\* A request "Get this" made after Jellyfin had the title becomes a private grant that takes the title from everyone
\* else in the three orders NeverPrivate names, and in no other, however its webhook is deferred, repeated or found by
\* the backfill, and however slowly Seerr is read.
THEOREM NeverPrivateAlways == Spec => []NeverPrivate
  <1>1. Init => GrantInv
    <2> SUFFICES ASSUME Init PROVE GrantInv
      OBVIOUS
    <2>1. queue = NoJob /\ mem.granted = {}
      BY DEF Init, NewState
    <2> QED BY <2>1, NoJobFields DEF GrantInv, NeverPrivate
  <1>2. AskInv /\ ProtectInv /\ GrantInv /\ [Next]_vars => GrantInv'
    BY GrantKept
  <1>3. GrantInv => NeverPrivate
    BY DEF GrantInv
  <1> QED BY <1>1, <1>2, <1>3, AskInvariant, ProtectInvariant, PTL DEF Spec
=============================================================================
