----------------------------- MODULE ServiceProofs -----------------------------
(***************************************************************************)
(* Service's safety for any tabs, any environments JellyPass is started    *)
(* with and any forms of the household step.                               *)
(***************************************************************************)
EXTENDS Service, TLAPS

-----------------------------------------------------------------------------
(* The inductive invariant *)

Runs(tab) == step[tab].at \in {"token", "calling", "storing"}

Posted(s) == \E form \in Forms : s.op = form.op /\ s.on = form.on /\ s.off = form.off

\* Of a phase that is up, and of one that is not.
PhaseInv ==
  /\ Alive => settings = file
  /\ ~Alive => applying = "no" /\ steps = <<>>
  /\ phase # "ended" => exit = "no"
  /\ down.at \in {"stopping", "flushing"} => phase = "running"
  /\ down.at = "flushing" => store = "closed"
  /\ background => phase = "running"
  /\ abandoned # "open"

\* The steps: what was posted, and that the one that runs would not be refused now.
StepsInv ==
  \A tab \in Tab :
    /\ step[tab].at # "none" => Posted(step[tab])
    /\ step[tab].at = "token" => step[tab].op = "webhook"
    /\ Runs(tab) => ~Refused(step[tab])

\* From finish's check on nothing else runs, and the settings are those it checked.
FinishInv ==
  /\ \A tab \in Tab : Runs(tab) /\ step[tab].op = "finish" => step[tab].at = "storing" /\ applying = "storing"
  /\ applying = "storing" => \E tab \in Tab : Runs(tab) /\ step[tab].op = "finish"
  /\ applying \in {"timer", "closed"} => \A tab \in Tab : ~Runs(tab)
  /\ applying # "no" => settings \ {"completed"} = checked \ {"completed"}

\* Settings that are taken for finished make a configuration.
ValidInv ==
  Startable /\ ("completed" \in file \/ missingRequired(environment) = {}) => loadConfig(mergedEnvironment(file))

\* The part of TypeOK that is about the queue.
QueueInv ==
  /\ steps \in Seq(Tab) /\ step \in [Tab -> StepType]
  /\ \A i, j \in 1 .. Len(steps) : i # j => steps[i] # steps[j]
  /\ \A tab \in Tab : step[tab].at # "none" <=> \E i \in 1 .. Len(steps) : steps[i] = tab
  /\ \A tab \in Tab : Runs(tab) => Head(steps) = tab

\* The rest of it.
ScalarInv ==
  /\ environment \in Environments /\ file \subseteq Setting /\ settings \subseteq Setting
  /\ applying \in {"no", "storing", "timer", "closed"} /\ checked \subseteq Setting
  /\ phase \in {"loading", "setup", "running", "ended"}
  /\ stopping \in BOOLEAN
  /\ down \in [at : {"up", "closing", "stopping", "flushing"}, waits : SUBSET {"background", "servers", "sockets"},
               restarting : BOOLEAN]
  /\ store \in {"open", "closed"} /\ dirty \in BOOLEAN /\ background \in BOOLEAN
  /\ abandoned \in {"none", "open", "closed"}
  /\ exit \in {"no", "clean", "failed", "killed"}

WizardInv == QueueInv /\ StepsInv /\ FinishInv /\ ValidInv

IInv == ScalarInv /\ WizardInv /\ PhaseInv

-----------------------------------------------------------------------------
(* Sequences *)

\* What is left of a sequence without one of its elements.
LEMMA Removed ==
  ASSUME NEW S, NEW s \in Seq(S), NEW i \in 1 .. Len(s)
  PROVE  /\ RemoveAt(s, i) \in Seq(S) /\ Len(RemoveAt(s, i)) = Len(s) - 1
         /\ \A j \in 1 .. Len(s) - 1 : RemoveAt(s, i)[j] = IF j < i THEN s[j] ELSE s[j + 1]
<1> DEFINE front == SubSeq(s, 1, i - 1)
           back == SubSeq(s, i + 1, Len(s))
<1>1. /\ front \in Seq(S) /\ Len(front) = i - 1
      /\ \A j \in 1 .. i - 1 : front[j] = s[j]
  OBVIOUS
<1>2. /\ back \in Seq(S) /\ Len(back) = Len(s) - i
      /\ \A j \in 1 .. Len(s) - i : back[j] = s[i + j]
  OBVIOUS
<1>3. RemoveAt(s, i) = front \o back
  BY DEF RemoveAt
<1>. HIDE DEF front, back
<1>4. front \o back \in Seq(S) /\ Len(front \o back) = Len(s) - 1
  BY <1>1, <1>2
<1>5. ASSUME NEW j \in 1 .. Len(s) - 1
      PROVE  (front \o back)[j] = IF j < i THEN s[j] ELSE s[j + 1]
  <2>1. CASE j < i
    BY <1>1, <1>2, <2>1
  <2>2. CASE ~(j < i)
    <3>1. (front \o back)[j] = back[j - (i - 1)]
      BY <1>1, <1>2, <2>2
    <3>2. j - (i - 1) \in 1 .. Len(s) - i
      BY <2>2
    <3>3. back[j - (i - 1)] = s[i + (j - (i - 1))]
      BY <1>2, <3>2
    <3>4. i + (j - (i - 1)) = j + 1
      OBVIOUS
    <3>. QED
      BY <2>2, <3>1, <3>3, <3>4
  <2>. QED
    BY <2>1, <2>2
<1>. QED
  BY <1>3, <1>4, <1>5

-----------------------------------------------------------------------------
(* The queue of steps *)

\* The types follow from the two invariants that hold them.
LEMMA TypesHold == ScalarInv /\ QueueInv => TypeOK
<1>. QED
  BY DEF TypeOK, ScalarInv, QueueInv, Runs

\* Only the first step runs.
LEMMA OneRuns ==
  ASSUME QueueInv, NEW t \in Tab, NEW u \in Tab, Runs(t), Runs(u)
  PROVE  t = u
<1>. QED
  BY DEF QueueInv

\* Answering a tab ends its step and no other.
LEMMA Answers ==
  ASSUME QueueInv, NEW tab \in Tab, Answer(tab)
  PROVE  /\ QueueInv'
         /\ step'[tab] = NoStep /\ \A t \in Tab \ {tab} : step'[t] = step[t]
<1>1. NoStep \in StepType /\ NoStep.at = "none"
  BY DEF NoStep, StepType
<1>2. PICK i \in 1 .. Len(steps) : steps[i] = tab /\ steps' = RemoveAt(steps, i)
  BY DEF Answer, QueueInv
<1>3. /\ steps' \in Seq(Tab) /\ Len(steps') = Len(steps) - 1
      /\ \A j \in 1 .. Len(steps) - 1 : steps'[j] = IF j < i THEN steps[j] ELSE steps[j + 1]
  BY <1>2, Removed DEF QueueInv
<1>4. Len(steps) \in Nat /\ i \in Nat /\ i >= 1 /\ i <= Len(steps)
  BY <1>2 DEF QueueInv
<1>5. step' \in [Tab -> StepType] /\ step'[tab] = NoStep /\ \A t \in Tab \ {tab} : step'[t] = step[t]
  BY <1>1 DEF Answer, QueueInv
<1>6. ASSUME NEW j \in 1 .. Len(steps'), NEW k \in 1 .. Len(steps'), j # k PROVE steps'[j] # steps'[k]
  <2> DEFINE at(n) == IF n < i THEN n ELSE n + 1
  <2>1. at(j) \in 1 .. Len(steps) /\ at(k) \in 1 .. Len(steps) /\ at(j) # at(k)
    BY <1>3, <1>4, <1>6
  <2>2. steps'[j] = steps[at(j)] /\ steps'[k] = steps[at(k)]
    BY <1>3, <1>4, <1>6
  <2>. QED
    BY <2>1, <2>2 DEF QueueInv
<1>7. ASSUME NEW t \in Tab PROVE step'[t].at # "none" <=> \E j \in 1 .. Len(steps') : steps'[j] = t
  <2>1. CASE t = tab
    <3>1. ASSUME NEW j \in 1 .. Len(steps'), steps'[j] = tab PROVE FALSE
      <4> DEFINE k == IF j < i THEN j ELSE j + 1
      <4>1. k \in 1 .. Len(steps) /\ k # i /\ steps[k] = tab
        BY <1>3, <1>4, <3>1
      <4>. QED
        BY <1>2, <4>1 DEF QueueInv
    <3>. QED
      BY <1>1, <1>5, <2>1, <3>1
  <2>2. CASE t # tab
    <3>1. ASSUME NEW k \in 1 .. Len(steps), steps[k] = t PROVE \E j \in 1 .. Len(steps') : steps'[j] = t
      <4>1. k # i
        BY <1>2, <2>2, <3>1
      <4>2. CASE k < i
        BY <1>3, <1>4, <3>1, <4>2
      <4>3. CASE k > i
        <5>1. k - 1 \in 1 .. Len(steps') /\ steps'[k - 1] = steps[k]
          BY <1>3, <1>4, <4>3
        <5>. QED
          BY <3>1, <5>1
      <4>. QED
        BY <1>4, <4>1, <4>2, <4>3
    <3>2. ASSUME NEW j \in 1 .. Len(steps'), steps'[j] = t PROVE \E k \in 1 .. Len(steps) : steps[k] = t
      <4>1. (IF j < i THEN j ELSE j + 1) \in 1 .. Len(steps)
        BY <1>3, <1>4
      <4>. QED
        BY <1>3, <1>4, <3>2, <4>1
    <3>. QED
      BY <1>5, <2>2, <3>1, <3>2 DEF QueueInv
  <2>. QED
    BY <2>1, <2>2
<1>8. ASSUME NEW t \in Tab, Runs(t)' PROVE Head(steps') = t
  <2>1. t # tab /\ Runs(t) /\ Head(steps) = t
    BY <1>1, <1>5, <1>8 DEF Runs, QueueInv
  <2>2. steps[1] = t
    BY <1>4, <2>1 DEF QueueInv
  <2>3. i > 1
    BY <1>2, <1>4, <2>1, <2>2
  <2>4. 1 \in 1 .. Len(steps) - 1 /\ steps'[1] = steps[1]
    BY <1>3, <1>4, <2>3
  <2>. QED
    BY <1>3, <2>2, <2>4
<1>9. QueueInv'
  BY <1>3, <1>5, <1>6, <1>7, <1>8 DEF QueueInv
<1>. QED
  BY <1>5, <1>9

\* A step that goes on stays where it is in the queue.
LEMMA GoesOn ==
  ASSUME QueueInv, NEW tab \in Tab, NEW at \in {"token", "calling", "storing"},
         step' = [step EXCEPT ![tab].at = at], steps' = steps, step[tab].at # "none", Head(steps) = tab
  PROVE  /\ QueueInv'
         /\ step'[tab].at = at /\ step'[tab].op = step[tab].op
         /\ step'[tab].on = step[tab].on /\ step'[tab].off = step[tab].off
         /\ \A t \in Tab \ {tab} : step'[t] = step[t]
<1>1. step[tab] \in StepType
  BY DEF QueueInv
<1>2. /\ step'[tab] = [step[tab] EXCEPT !.at = at]
      /\ \A t \in Tab \ {tab} : step'[t] = step[t]
  BY DEF QueueInv
<1>3. /\ step'[tab] \in StepType /\ step'[tab].at = at /\ step'[tab].op = step[tab].op
      /\ step'[tab].on = step[tab].on /\ step'[tab].off = step[tab].off
  BY <1>1, <1>2 DEF StepType
<1>4. step' \in [Tab -> StepType]
  BY <1>2, <1>3 DEF QueueInv
<1>5. QueueInv'
  BY <1>2, <1>3, <1>4 DEF QueueInv, Runs
<1>. QED
  BY <1>2, <1>3, <1>5

\* A step that is posted waits behind the others.
LEMMA Posts ==
  ASSUME QueueInv, HouseholdAssumption, NEW tab \in Tab, NEW form \in Forms, step[tab].at = "none",
         step' = [step EXCEPT ![tab] = [op |-> form.op, at |-> "queued", on |-> form.on, off |-> form.off]],
         steps' = Append(steps, tab)
  PROVE  /\ QueueInv'
         /\ step'[tab] = [op |-> form.op, at |-> "queued", on |-> form.on, off |-> form.off]
         /\ \A t \in Tab \ {tab} : step'[t] = step[t]
<1> DEFINE s == [op |-> form.op, at |-> "queued", on |-> form.on, off |-> form.off]
<1>1. /\ form.op \in Op \cup {"household"}
      /\ form.on \subseteq {"gateway", "app", "proxies"} /\ form.off \subseteq {"gateway", "app", "proxies"}
  <2>1. CASE form \in [op : Op, on : {{}}, off : {{}}]
    BY <2>1
  <2>2. CASE form \in {[op |-> "household", on |-> f.on, off |-> f.off] : f \in HouseholdChange}
    BY <2>2, HouseholdAssumption DEF HouseholdAssumption
  <2>. QED
    BY <2>1, <2>2 DEF Forms
<1>2. s \in StepType
  BY <1>1 DEF StepType
<1>3. step'[tab] = s /\ step' \in [Tab -> StepType] /\ \A t \in Tab \ {tab} : step'[t] = step[t]
  BY <1>2 DEF QueueInv
<1>4. /\ steps' \in Seq(Tab) /\ Len(steps') = Len(steps) + 1 /\ steps'[Len(steps) + 1] = tab
      /\ \A j \in 1 .. Len(steps) : steps'[j] = steps[j]
      /\ Len(steps) \in Nat
  BY DEF QueueInv
<1>5. \A j \in 1 .. Len(steps) : steps[j] # tab
  BY DEF QueueInv
<1>6. ASSUME NEW j \in 1 .. Len(steps'), NEW k \in 1 .. Len(steps'), j # k PROVE steps'[j] # steps'[k]
  BY <1>4, <1>5, <1>6 DEF QueueInv
<1>7. ASSUME NEW t \in Tab PROVE step'[t].at # "none" <=> \E j \in 1 .. Len(steps') : steps'[j] = t
  BY <1>3, <1>4 DEF QueueInv
<1>8. ASSUME NEW t \in Tab, Runs(t)' PROVE Head(steps') = t
  <2>1. t # tab /\ Runs(t) /\ Head(steps) = t
    BY <1>3, <1>8 DEF Runs, QueueInv
  <2>2. \E i \in 1 .. Len(steps) : steps[i] = t
    BY <2>1 DEF QueueInv, Runs
  <2>3. Len(steps) >= 1 /\ steps[1] = t
    BY <1>4, <2>1, <2>2 DEF QueueInv
  <2>. QED
    BY <1>4, <2>3
<1>9. QueueInv'
  BY <1>3, <1>4, <1>6, <1>7, <1>8 DEF QueueInv
<1>. QED
  BY <1>3, <1>9

-----------------------------------------------------------------------------
(* What the steps store *)

\* What a step was posted as.
LEMMA PostedSteps ==
  ASSUME WizardInv, NEW tab \in Tab, step[tab].at # "none"
  PROVE  /\ step[tab] \in StepType
         /\ step[tab].op \in Op \cup {"household"}
         /\ step[tab].op # "household" => step[tab].on = {} /\ step[tab].off = {}
         /\ step[tab].on \subseteq {"gateway", "app", "proxies"} /\ step[tab].off \subseteq {"gateway", "app", "proxies"}
<1>1. step[tab] \in StepType /\ Posted(step[tab])
  BY DEF WizardInv, QueueInv, StepsInv
<1>2. PICK form \in Forms : step[tab].op = form.op /\ step[tab].on = form.on /\ step[tab].off = form.off
  BY <1>1 DEF Posted
<1>3. CASE form \in [op : Op, on : {{}}, off : {{}}]
  BY <1>1, <1>2, <1>3 DEF StepType
<1>4. CASE form \in {[op |-> "household", on |-> f.on, off |-> f.off] : f \in HouseholdChange}
  BY <1>1, <1>2, <1>4 DEF StepType
<1>. QED
  BY <1>2, <1>3, <1>4 DEF Forms

\* Whether a step is refused depends on what it was posted as, the settings and the environment.
LEMMA SameRefusal ==
  ASSUME NEW tab \in Tab, settings' = settings, environment' = environment,
         step'[tab].op = step[tab].op, step'[tab].on = step[tab].on, step'[tab].off = step[tab].off
  PROVE  Refused(step[tab])' = Refused(step[tab])
<1>. QED
  BY DEF Refused, Locks, mergedEnvironment, loadConfig

\* What a step that was not refused stores leaves a configuration one, and finish stores that there is one.
LEMMA StoresValid ==
  ASSUME WizardInv, ScalarInv, NEW tab \in Tab, step[tab].at = "storing", settings = file, environment' = environment,
         settings' = (settings \cup Stores(step[tab])) \ Removes(step[tab]), file' = settings'
  PROVE  ValidInv'
<1> DEFINE f == step[tab]
           M == mergedEnvironment(settings)
           N == environment \cup (settings' \cap Variable)
<1>1. /\ f.op \in Op \cup {"household"} /\ (f.op # "household" => f.on = {} /\ f.off = {})
      /\ f.on \subseteq {"gateway", "app", "proxies"} /\ f.off \subseteq {"gateway", "app", "proxies"}
      /\ ~Refused(f)
  BY PostedSteps DEF WizardInv, StepsInv, Runs
<1>2. SUFFICES ASSUME Startable, "completed" \in file' \/ missingRequired(environment) = {}
               PROVE  loadConfig(N)
  BY DEF ValidInv, Startable, mergedEnvironment, missingRequired, loadConfig
<1>3. /\ M = environment \cup (settings \cap Variable)
      /\ "tvAddon" \notin N /\ "onePort" \notin N /\ "tvAddon" \notin M /\ "onePort" \notin M
      /\ "tvAddon" \notin environment /\ "onePort" \notin environment
  BY <1>2 DEF Startable, Variable, Required, mergedEnvironment
<1>4. CASE f.op = "finish"
  <2>1. Stores(f) = {"completed"} /\ Removes(f) = {}
    BY <1>1, <1>4 DEF Stores, Removes
  <2>2. loadConfig(M)
    BY <1>1, <1>4 DEF Refused
  <2>3. N = M
    BY <1>3, <2>1 DEF Variable, Required
  <2>. QED
    BY <2>2, <2>3
<1>5. CASE f.op # "finish"
  <2>1. "completed" \notin Stores(f)
    BY <1>1, <1>5 DEF Stores
  <2>2. loadConfig(M)
    BY <1>2, <2>1 DEF WizardInv, ValidInv
  <2>3. /\ Required \subseteq M
        /\ "backfill" \in M => "seerr" \in M
        /\ "app" \in M => "gateway" \in M /\ "seerr" \in M /\ "tmdb" \in M
        /\ "gateway" \in M => "proxies" \in M
    BY <2>2 DEF loadConfig
  <2>4. CASE f.op \in {"jellyfin", "seerr", "tmdb", "secrets", "webhook"}
    <3>1. Removes(f) = {} /\ Stores(f) \subseteq {"jellyfin", "seerr", "tmdb", "webhookToken"}
      BY <1>1, <2>4 DEF Removes, Stores
    <3>2. M \subseteq N /\ N \subseteq M \cup {"jellyfin", "seerr", "tmdb", "webhookToken"}
      BY <1>3, <3>1
    <3>. QED
      BY <1>3, <2>3, <3>2 DEF loadConfig
  <2>5. CASE f.op = "backfill"
    <3>1. Removes(f) = {} /\ Stores(f) = {"backfill"} /\ "seerr" \in M
      BY <1>1, <2>5 DEF Removes, Stores, Refused
    <3>2. M \subseteq N /\ N \subseteq M \cup {"backfill"}
      BY <1>3, <3>1
    <3>. QED
      BY <1>3, <2>3, <3>1, <3>2 DEF loadConfig
  <2>6. CASE f.op = "backfillOff"
    <3>1. Removes(f) = {"backfill"} /\ Stores(f) = {}
      BY <1>1, <2>6 DEF Removes, Stores
    <3>2. N \subseteq M /\ M \subseteq N \cup {"backfill"}
      BY <1>3, <3>1
    <3>. QED
      BY <1>3, <2>3, <3>2 DEF loadConfig, Required
  <2>7. CASE f.op = "tmdbOff"
    <3>1. Removes(f) = {"tmdb"} /\ Stores(f) = {} /\ "app" \notin M
      BY <1>1, <2>7 DEF Removes, Stores, Refused
    <3>2. N \subseteq M /\ M \subseteq N \cup {"tmdb"}
      BY <1>3, <3>1
    <3>. QED
      BY <1>3, <2>3, <3>1, <3>2 DEF loadConfig, Required
  <2>8. CASE f.op = "household"
    <3>1. Removes(f) = f.off /\ Stores(f) = f.on
      BY <1>1, <2>8 DEF Removes, Stores
    <3>2. N = mergedEnvironment((settings \cup f.on) \ f.off)
      BY <3>1 DEF mergedEnvironment
    <3>3. /\ "gateway" \in N => "proxies" \in N
          /\ "app" \in N => "gateway" \in N /\ "seerr" \in N /\ "tmdb" \in N
      BY <1>1, <2>8, <3>2 DEF Refused
    <3>4. \A x \in Variable \ {"gateway", "app", "proxies"} : x \in M <=> x \in N
      BY <1>1, <1>3, <3>1
    <3>5. Required \subseteq N /\ ("backfill" \in N => "seerr" \in N)
      BY <2>3, <3>4 DEF Required, Variable
    <3>. QED
      BY <1>3, <3>3, <3>5 DEF loadConfig
  <2>. QED
    BY <1>1, <2>4, <2>5, <2>6, <2>7, <2>8, <1>5 DEF Op
<1>. QED
  BY <1>4, <1>5

\* Nor does the token the webhook step makes.
LEMMA TokenValid ==
  ASSUME WizardInv, ScalarInv, settings = file, environment' = environment,
         settings' = settings \cup {"webhookToken"}, file' = settings'
  PROVE  ValidInv'
<1> DEFINE M == mergedEnvironment(settings)
           N == environment \cup (settings' \cap Variable)
<1>1. SUFFICES ASSUME Startable, "completed" \in file' \/ missingRequired(environment) = {}
               PROVE  loadConfig(N)
  BY DEF ValidInv, Startable, mergedEnvironment, missingRequired, loadConfig
<1>2. loadConfig(M)
  BY <1>1 DEF WizardInv, ValidInv
<1>3. M \subseteq N /\ N \subseteq M \cup {"webhookToken"}
  BY DEF mergedEnvironment
<1>. QED
  BY <1>1, <1>2, <1>3 DEF loadConfig, Startable, Required

-----------------------------------------------------------------------------
(* The wizard keeps what finish checked *)

\* A step posted keeps what the wizard is in the middle of right.
LEMMA PostStep ==
  ASSUME IInv, NEW tab \in Tab, NEW form \in Forms, Post(tab, form)
  PROVE  WizardInv'
<1>1. /\ step[tab].at = "none" /\ UNCHANGED <<environment, file, settings, applying, checked>>
      /\ step' = [step EXCEPT ![tab] = [op |-> form.op, at |-> "queued", on |-> form.on, off |-> form.off]]
      /\ steps' = Append(steps, tab)
  BY DEF Post
<1>2. /\ QueueInv'
      /\ step'[tab] = [op |-> form.op, at |-> "queued", on |-> form.on, off |-> form.off]
      /\ \A t \in Tab \ {tab} : step'[t] = step[t]
  BY <1>1, Posts, HouseholdAssumption DEF IInv, WizardInv
<1>3. Posted(step'[tab])
  BY <1>2 DEF Posted
<1>4. \A t \in Tab : Runs(t)' => t # tab /\ step'[t] = step[t] /\ Runs(t)
  BY <1>2 DEF Runs
<1>5. StepsInv'
  <2>. SUFFICES ASSUME NEW t \in Tab
                PROVE  /\ step'[t].at # "none" => Posted(step'[t])
                       /\ step'[t].at = "token" => step'[t].op = "webhook"
                       /\ Runs(t)' => ~Refused(step[t])'
    BY DEF StepsInv, Posted
  <2>1. CASE t = tab
    BY <1>2, <1>3, <1>4, <2>1
  <2>2. CASE t # tab
    <3>1. step'[t] = step[t]
      BY <1>2, <2>2
    <3>2. Refused(step[t])' = Refused(step[t])
      BY <1>1, <3>1, SameRefusal
    <3>. QED
      BY <1>4, <3>1, <3>2 DEF IInv, WizardInv, StepsInv
  <2>. QED
    BY <2>1, <2>2
<1>6. FinishInv'
  <2>1. \A t \in Tab : Runs(t) => t # tab /\ Runs(t)' /\ step'[t] = step[t]
    BY <1>1, <1>2 DEF Runs
  <2>. QED
    BY <1>1, <1>4, <2>1 DEF IInv, WizardInv, FinishInv
<1>7. ValidInv'
  BY <1>1 DEF IInv, WizardInv, ValidInv, Startable, mergedEnvironment, missingRequired, loadConfig
<1>. QED
  BY <1>2, <1>5, <1>6, <1>7 DEF WizardInv

\* A step that is answered leaves the others as they were.
LEMMA AnswerStep ==
  ASSUME IInv, NEW tab \in Tab, Answer(tab), UNCHANGED <<environment, file, settings, applying, checked>>,
         ~(Runs(tab) /\ step[tab].op = "finish")
  PROVE  WizardInv'
<1>1. /\ QueueInv'
      /\ step'[tab] = NoStep /\ \A t \in Tab \ {tab} : step'[t] = step[t]
  BY Answers DEF IInv, WizardInv
<1>2. NoStep.at = "none"
  BY DEF NoStep
<1>3. \A t \in Tab : step'[t].at # "none" => t # tab /\ step'[t] = step[t]
  BY <1>1, <1>2
<1>4. \A t \in Tab : Runs(t)' => Runs(t) /\ step'[t] = step[t]
  BY <1>3 DEF Runs
<1>5. StepsInv'
  <2>. SUFFICES ASSUME NEW t \in Tab, step'[t].at # "none"
                PROVE  /\ Posted(step'[t])
                       /\ step'[t].at = "token" => step'[t].op = "webhook"
                       /\ Runs(t)' => ~Refused(step[t])'
    BY DEF StepsInv, Posted, Runs
  <2>1. step'[t] = step[t]
    BY <1>3
  <2>2. Refused(step[t])' = Refused(step[t])
    BY <2>1, SameRefusal
  <2>. QED
    BY <1>4, <2>1, <2>2 DEF IInv, WizardInv, StepsInv
<1>6. FinishInv'
  <2>1. \A t \in Tab : Runs(t) /\ step[t].op = "finish" => Runs(t)' /\ step'[t] = step[t]
    BY <1>1 DEF Runs
  <2>. QED
    BY <1>4, <2>1 DEF IInv, WizardInv, FinishInv
<1>7. ValidInv'
  BY DEF IInv, WizardInv, ValidInv, Startable, mergedEnvironment, missingRequired, loadConfig
<1>. QED
  BY <1>1, <1>5, <1>6, <1>7 DEF WizardInv

\* A step's check keeps what the wizard is in the middle of right.
LEMMA CheckStep ==
  ASSUME IInv, NEW tab \in Tab, Check(tab)
  PROVE  WizardInv'
<1> DEFINE form == step[tab]
<1>0. /\ form.at = "queued" /\ Head(steps) = tab /\ UNCHANGED <<environment, file, settings>>
      /\ ~Runs(tab)
  BY DEF Check, MayRun, Runs
<1>1. CASE Refuses(form)
  BY <1>0, <1>1, AnswerStep DEF Check
<1>2. CASE ~Refuses(form)
  <2> DEFINE at == AfterCheck(form)
  <2>1. /\ step' = [step EXCEPT ![tab].at = at] /\ steps' = steps
        /\ applying = "no" /\ ~Refused(form)
        /\ IF form.op = "finish" THEN applying' = "storing" /\ checked' = settings
                                 ELSE applying' = "no" /\ checked' = checked
    BY <1>2 DEF Check, Refuses
  <2>2. /\ at \in {"token", "calling", "storing"}
        /\ at = "token" => form.op = "webhook"
        /\ form.op = "finish" => at = "storing"
    BY DEF AfterCheck, Calls
  <2>. HIDE DEF at
  <2>3. /\ QueueInv'
        /\ step'[tab].at = at /\ step'[tab].op = form.op /\ step'[tab].on = form.on /\ step'[tab].off = form.off
        /\ \A t \in Tab \ {tab} : step'[t] = step[t]
    BY <1>0, <2>1, <2>2, GoesOn DEF IInv, WizardInv
  <2>4. Runs(tab)' /\ \A t \in Tab : Runs(t)' => t = tab
    BY <2>2, <2>3, OneRuns DEF Runs, QueueInv
  <2>5. StepsInv'
    <3>. SUFFICES ASSUME NEW t \in Tab
                  PROVE  /\ step'[t].at # "none" => Posted(step'[t])
                         /\ step'[t].at = "token" => step'[t].op = "webhook"
                         /\ Runs(t)' => ~Refused(step[t])'
      BY DEF StepsInv, Posted
    <3>1. CASE t = tab
      <4>1. Posted(form)
        BY <1>0 DEF IInv, WizardInv, StepsInv
      <4>2. Refused(step[tab])' = Refused(step[tab])
        BY <1>0, <2>3, SameRefusal
      <4>. QED
        BY <2>1, <2>2, <2>3, <3>1, <4>1, <4>2 DEF Posted
    <3>2. CASE t # tab
      BY <2>3, <2>4, <3>2 DEF IInv, WizardInv, StepsInv
    <3>. QED
      BY <3>1, <3>2
  <2>6. FinishInv'
    BY <1>0, <2>1, <2>2, <2>3, <2>4 DEF FinishInv
  <2>7. ValidInv'
    BY <1>0 DEF IInv, WizardInv, ValidInv, Startable, mergedEnvironment, missingRequired, loadConfig
  <2>. QED
    BY <2>3, <2>5, <2>6, <2>7 DEF WizardInv
<1>. QED
  BY <1>1, <1>2

\* While a step that is not finish runs, no finish was checked.
LEMMA NotApplying ==
  ASSUME WizardInv, ScalarInv, NEW tab \in Tab, Runs(tab), step[tab].op # "finish"
  PROVE  applying = "no"
<1>1. ASSUME NEW t \in Tab, Runs(t), step[t].op = "finish" PROVE FALSE
  BY <1>1, OneRuns DEF WizardInv
<1>. QED
  BY <1>1 DEF WizardInv, FinishInv, ScalarInv

\* A call a step makes keeps what the wizard is in the middle of right.
LEMMA CallStep ==
  ASSUME IInv, NEW tab \in Tab, Call(tab)
  PROVE  WizardInv'
<1>1. /\ step[tab].at = "calling" /\ Runs(tab) /\ step[tab].op # "finish"
      /\ UNCHANGED <<environment, file, settings, applying, checked>>
  BY DEF Call, Runs, IInv, WizardInv, FinishInv
<1>2. CASE Answer(tab)
  BY <1>1, <1>2, AnswerStep
<1>3. CASE step' = [step EXCEPT ![tab].at = "storing"] /\ steps' = steps
  <2>1. Head(steps) = tab
    BY <1>1 DEF IInv, WizardInv, QueueInv
  <2>2. /\ QueueInv'
        /\ step'[tab].at = "storing" /\ step'[tab].op = step[tab].op
        /\ step'[tab].on = step[tab].on /\ step'[tab].off = step[tab].off
        /\ \A t \in Tab \ {tab} : step'[t] = step[t]
    BY <1>1, <1>3, <2>1, GoesOn DEF IInv, WizardInv
  <2>3. \A t \in Tab : Runs(t)' => t = tab
    BY <2>2, OneRuns DEF Runs, QueueInv
  <2>4. applying = "no"
    BY <1>1, NotApplying DEF IInv
  <2>5. StepsInv'
    <3>. SUFFICES ASSUME NEW t \in Tab
                  PROVE  /\ step'[t].at # "none" => Posted(step'[t])
                         /\ step'[t].at = "token" => step'[t].op = "webhook"
                         /\ Runs(t)' => ~Refused(step[t])'
      BY DEF StepsInv, Posted
    <3>1. CASE t = tab
      <4>1. Posted(step[tab]) /\ ~Refused(step[tab])
        BY <1>1 DEF IInv, WizardInv, StepsInv
      <4>2. Refused(step[tab])' = Refused(step[tab])
        BY <1>1, <2>2, SameRefusal
      <4>. QED
        BY <2>2, <3>1, <4>1, <4>2 DEF Posted
    <3>2. CASE t # tab
      BY <2>2, <2>3, <3>2 DEF IInv, WizardInv, StepsInv
    <3>. QED
      BY <3>1, <3>2
  <2>6. FinishInv'
    BY <1>1, <2>2, <2>3, <2>4 DEF FinishInv
  <2>7. ValidInv'
    BY <1>1 DEF IInv, WizardInv, ValidInv, Startable, mergedEnvironment, missingRequired, loadConfig
  <2>. QED
    BY <2>2, <2>5, <2>6, <2>7 DEF WizardInv
<1>. QED
  BY <1>2, <1>3 DEF Call

\* Once the step that ran is answered nothing runs.
LEMMA NothingRuns ==
  ASSUME WizardInv, NEW tab \in Tab, Runs(tab), Answer(tab)
  PROVE  /\ QueueInv' /\ \A t \in Tab : ~Runs(t)'
         /\ \A t \in Tab : step'[t].at # "none" => Posted(step'[t]) /\ step'[t].at = "queued"
<1>1. /\ QueueInv'
      /\ step'[tab] = NoStep /\ \A t \in Tab \ {tab} : step'[t] = step[t]
  BY Answers DEF WizardInv
<1>2. NoStep.at = "none"
  BY DEF NoStep
<1>3. ASSUME NEW t \in Tab, step'[t].at # "none"
      PROVE  Posted(step'[t]) /\ step'[t].at = "queued"
  <2>1. t # tab /\ step'[t] = step[t]
    BY <1>1, <1>2, <1>3
  <2>2. ~Runs(t)
    BY <2>1, OneRuns DEF WizardInv
  <2>3. step[t] \in StepType
    BY DEF WizardInv, QueueInv
  <2>4. Posted(step[t]) /\ step[t].at = "queued"
    BY <1>3, <2>1, <2>2, <2>3 DEF WizardInv, StepsInv, Runs, StepType
  <2>. QED
    BY <2>1, <2>4
<1>4. \A t \in Tab : ~Runs(t)'
  BY <1>3 DEF Runs
<1>. QED
  BY <1>1, <1>3, <1>4

\* Storing settings keeps the wizard's invariant, and the process reads what is in the file.
LEMMA StoreStep ==
  ASSUME IInv, NEW tab \in Tab, Store(tab)
  PROVE  WizardInv' /\ settings' = file' /\ settings' \subseteq Setting
<1> DEFINE form == step[tab]
<1>1. /\ form.at = "storing" /\ Runs(tab) /\ Answer(tab) /\ settings = file
      /\ UNCHANGED <<environment, checked>>
      /\ applying' = IF form.op = "finish" THEN "timer" ELSE applying
  BY DEF Store, Runs, IInv, PhaseInv
<1>2. /\ QueueInv' /\ \A t \in Tab : ~Runs(t)'
      /\ \A t \in Tab : step'[t].at # "none" => Posted(step'[t]) /\ step'[t].at = "queued"
  BY <1>1, NothingRuns DEF IInv, WizardInv
<1>3. \/ UNCHANGED <<settings, file>> /\ form.op # "finish"
      \/ settings' = (settings \cup Stores(form)) \ Removes(form) /\ file' = settings'
  BY DEF Store, Kept, Stored
<1>4. /\ form.on \subseteq {"gateway", "app", "proxies"} /\ form.op \in Op \cup {"household"}
      /\ form.op # "household" => form.on = {} /\ form.off = {}
  BY <1>1, PostedSteps DEF IInv
<1>5. settings' = file' /\ settings' \subseteq Setting
  <2>1. Stores(form) \subseteq Setting
    BY <1>4 DEF Stores, Setting, Variable, Required
  <2>. QED
    BY <1>1, <1>3, <2>1 DEF IInv, ScalarInv
<1>6. StepsInv'
  BY <1>2 DEF StepsInv, Posted
<1>7. FinishInv'
  <2>1. CASE form.op = "finish"
    <3>1. applying = "storing" /\ settings \ {"completed"} = checked \ {"completed"}
      BY <1>1, <2>1 DEF IInv, WizardInv, FinishInv
    <3>2. settings' = settings \cup {"completed"}
      BY <1>3, <1>4, <2>1 DEF Stores, Removes
    <3>. QED
      BY <1>1, <1>2, <2>1, <3>1, <3>2 DEF FinishInv
  <2>2. CASE form.op # "finish"
    <3>1. applying' = "no"
      BY <1>1, <2>2, NotApplying DEF IInv
    <3>. QED
      BY <1>2, <3>1 DEF FinishInv
  <2>. QED
    BY <2>1, <2>2
<1>8. ValidInv'
  <2>1. CASE UNCHANGED <<settings, file>>
    BY <1>1, <2>1 DEF IInv, WizardInv, ValidInv, Startable, mergedEnvironment, missingRequired, loadConfig
  <2>2. CASE settings' = (settings \cup Stores(form)) \ Removes(form) /\ file' = settings'
    BY <1>1, <2>2, StoresValid DEF IInv
  <2>. QED
    BY <1>3, <2>1, <2>2
<1>. QED
  BY <1>2, <1>5, <1>6, <1>7, <1>8 DEF WizardInv

\* Storing a token keeps the wizard's invariant, and the process reads what is in the file.
LEMMA StoreTokenStep ==
  ASSUME IInv, NEW tab \in Tab, StoreToken(tab)
  PROVE  WizardInv' /\ settings' = file' /\ settings' \subseteq Setting
<1>1. /\ step[tab].at = "token" /\ Runs(tab) /\ settings = file
      /\ UNCHANGED <<environment, steps, applying, checked>>
      /\ settings' = settings \cup {"webhookToken"} /\ file' = settings'
      /\ step' = [step EXCEPT ![tab].at = "calling"]
  BY DEF StoreToken, Stored, Runs, IInv, PhaseInv
<1>2. Head(steps) = tab /\ step[tab].op = "webhook" /\ ~Refused(step[tab]) /\ Posted(step[tab])
  BY <1>1 DEF IInv, WizardInv, QueueInv, StepsInv
<1>3. /\ QueueInv'
      /\ step'[tab].at = "calling" /\ step'[tab].op = step[tab].op
      /\ step'[tab].on = step[tab].on /\ step'[tab].off = step[tab].off
      /\ \A t \in Tab \ {tab} : step'[t] = step[t]
  BY <1>1, <1>2, GoesOn DEF IInv, WizardInv
<1>4. \A t \in Tab : Runs(t)' => t = tab
  BY <1>3, OneRuns DEF Runs, QueueInv
<1>5. applying = "no"
  BY <1>1, <1>2, NotApplying DEF IInv
<1>6. ~Refused(step[tab])'
  <2>1. "seerr" \in mergedEnvironment(settings)
    BY <1>2 DEF Refused
  <2>2. "seerr" \in mergedEnvironment(settings')
    BY <1>1, <2>1 DEF mergedEnvironment
  <2>. QED
    BY <1>1, <1>2, <1>3, <2>2 DEF Refused, Locks, mergedEnvironment
<1>7. StepsInv'
  <2>. SUFFICES ASSUME NEW t \in Tab
                PROVE  /\ step'[t].at # "none" => Posted(step'[t])
                       /\ step'[t].at = "token" => step'[t].op = "webhook"
                       /\ Runs(t)' => ~Refused(step[t])'
    BY DEF StepsInv, Posted
  <2>1. CASE t = tab
    BY <1>2, <1>3, <1>6, <2>1 DEF Posted
  <2>2. CASE t # tab
    BY <1>3, <1>4, <2>2 DEF IInv, WizardInv, StepsInv
  <2>. QED
    BY <2>1, <2>2
<1>8. FinishInv'
  BY <1>1, <1>2, <1>3, <1>4, <1>5 DEF FinishInv
<1>9. ValidInv'
  BY <1>1, TokenValid DEF IInv
<1>10. settings' \subseteq Setting
  BY <1>1 DEF IInv, ScalarInv, Setting, Variable, Required
<1>. QED
  BY <1>1, <1>3, <1>7, <1>8, <1>9, <1>10 DEF WizardInv

\* A write of the settings that fails keeps the wizard's invariant.
LEMMA StoreFailsStep ==
  ASSUME IInv, NEW tab \in Tab, StoreFails(tab)
  PROVE  WizardInv'
<1>1. /\ Runs(tab) /\ Answer(tab) /\ UNCHANGED <<environment, file, settings>>
      /\ step[tab].op = "finish" => applying' = "no"
      /\ step[tab].op # "finish" => applying' = applying /\ checked' = checked
  BY DEF StoreFails, Runs
<1>2. /\ QueueInv' /\ \A t \in Tab : ~Runs(t)'
      /\ \A t \in Tab : step'[t].at # "none" => Posted(step'[t]) /\ step'[t].at = "queued"
  BY <1>1, NothingRuns DEF IInv, WizardInv
<1>3. applying' = "no"
  BY <1>1, NotApplying DEF IInv
<1>4. StepsInv'
  BY <1>2 DEF StepsInv, Posted
<1>5. FinishInv'
  BY <1>2, <1>3 DEF FinishInv
<1>6. ValidInv'
  BY <1>1 DEF IInv, WizardInv, ValidInv, Startable, mergedEnvironment, missingRequired, loadConfig
<1>. QED
  BY <1>2, <1>4, <1>5, <1>6 DEF WizardInv

\* The wizard's invariant depends on the wizard, the environment and the file only.
LEMMA SameWizard ==
  ASSUME WizardInv, UNCHANGED <<environment, file, wizardVars>>
  PROVE  WizardInv'
<1>1. UNCHANGED <<environment, file, settings, steps, step, applying, checked>>
  BY DEF wizardVars
<1>2. QueueInv'
  BY <1>1 DEF WizardInv, QueueInv, Runs
<1>3. StepsInv'
  <2>1. \A tab \in Tab : Refused(step[tab])' = Refused(step[tab])
    BY <1>1, SameRefusal
  <2>. QED
    BY <1>1, <2>1 DEF WizardInv, StepsInv, Posted, Runs
<1>4. FinishInv'
  BY <1>1 DEF WizardInv, FinishInv, Runs
<1>5. ValidInv'
  BY <1>1 DEF WizardInv, ValidInv, Startable, mergedEnvironment, missingRequired, loadConfig
<1>. QED
  BY <1>2, <1>3, <1>4, <1>5 DEF WizardInv

\* A new phase begins with no steps.
LEMMA NewWizard ==
  ASSUME IInv, Fresh, UNCHANGED <<environment, file>>
  PROVE  WizardInv'
<1>1. /\ steps' = <<>> /\ step' = [tab \in Tab |-> NoStep] /\ applying' = "no"
      /\ NoStep \in StepType /\ NoStep.at = "none"
  BY DEF Fresh, NoStep, StepType
<1>2. QueueInv'
  BY <1>1 DEF QueueInv, Runs
<1>3. StepsInv' /\ FinishInv'
  BY <1>1 DEF StepsInv, FinishInv, Runs
<1>4. ValidInv'
  BY DEF IInv, WizardInv, ValidInv, Startable, mergedEnvironment, missingRequired, loadConfig
<1>. QED
  BY <1>2, <1>3, <1>4 DEF WizardInv

-----------------------------------------------------------------------------
(* The phases *)

\* A step of the wizard.
LEMMA WizardStep ==
  ASSUME IInv, Wizard
  PROVE  IInv'
<1>1. UNCHANGED <<environment, phase, stopping, serviceVars, exit>> /\ Alive
  BY DEF Wizard, Post, Check, Call, Store, StoreToken, StoreFails, CloseSettings, Apply, Serving
<1>2. UNCHANGED <<store, dirty, background, abandoned>> /\ Alive'
  BY <1>1 DEF serviceVars, Alive
<1>3. ASSUME WizardInv', down' = down, settings' = file', settings' \subseteq Setting,
             applying' \in {"no", "storing", "timer", "closed"}, checked' \subseteq Setting
      PROVE  IInv'
  BY <1>1, <1>2, <1>3 DEF IInv, ScalarInv, PhaseInv
<1>4. settings = file /\ settings \subseteq Setting /\ file \subseteq Setting /\ checked \subseteq Setting
      /\ applying \in {"no", "storing", "timer", "closed"}
  BY <1>1 DEF IInv, ScalarInv, PhaseInv
<1>5. ASSUME NEW tab \in Tab, NEW form \in Forms, Post(tab, form) PROVE IInv'
  <2>1. WizardInv'
    BY <1>5, PostStep
  <2>. QED
    BY <1>3, <1>4, <1>5, <2>1 DEF Post
<1>6. ASSUME NEW tab \in Tab, Check(tab) PROVE IInv'
  <2>1. WizardInv'
    BY <1>6, CheckStep
  <2>. QED
    BY <1>3, <1>4, <1>6, <2>1 DEF Check
<1>7. ASSUME NEW tab \in Tab, Call(tab) PROVE IInv'
  <2>1. WizardInv'
    BY <1>7, CallStep
  <2>. QED
    BY <1>3, <1>4, <1>7, <2>1 DEF Call
<1>8. ASSUME NEW tab \in Tab, Store(tab) PROVE IInv'
  <2>1. WizardInv' /\ settings' = file' /\ settings' \subseteq Setting
    BY <1>8, StoreStep
  <2>. QED
    BY <1>3, <1>4, <1>8, <2>1 DEF Store
<1>9. ASSUME NEW tab \in Tab, StoreToken(tab) PROVE IInv'
  <2>1. WizardInv' /\ settings' = file' /\ settings' \subseteq Setting
    BY <1>9, StoreTokenStep
  <2>. QED
    BY <1>3, <1>4, <1>9, <2>1 DEF StoreToken
<1>10. ASSUME NEW tab \in Tab, StoreFails(tab) PROVE IInv'
  <2>1. WizardInv'
    BY <1>10, StoreFailsStep
  <2>. QED
    BY <1>3, <1>4, <1>10, <2>1 DEF StoreFails
<1>11. CASE CloseSettings
  <2>1. QueueInv' /\ StepsInv' /\ ValidInv'
    <3>1. UNCHANGED <<environment, file, settings, steps, step>>
      BY <1>11 DEF CloseSettings
    <3>2. \A tab \in Tab : Refused(step[tab])' = Refused(step[tab])
      BY <3>1, SameRefusal
    <3>. QED
      BY <3>1, <3>2 DEF IInv, WizardInv, QueueInv, StepsInv, Posted, Runs, ValidInv, Startable, mergedEnvironment,
                        missingRequired, loadConfig
  <2>2. FinishInv'
    BY <1>11 DEF CloseSettings, IInv, WizardInv, FinishInv, Runs
  <2>3. WizardInv'
    BY <2>1, <2>2 DEF WizardInv
  <2>. QED
    BY <1>3, <1>4, <1>11, <2>3 DEF CloseSettings
<1>12. CASE Apply
  <2>1. WizardInv' /\ UNCHANGED <<file, settings, applying, checked>>
    BY <1>12, SameWizard DEF Apply, IInv, wizardVars
  <2>2. /\ down' \in [at : {"up", "closing", "stopping", "flushing"}, waits : SUBSET {"background", "servers", "sockets"},
                      restarting : BOOLEAN]
        /\ down'.at \in {"stopping", "flushing"} => phase = "running"
        /\ down'.at = "flushing" => down.at = "flushing"
    <3>1. Close(TRUE) /\ phase \in {"setup", "running"}
      BY <1>1, <1>12 DEF Apply, Alive
    <3>2. CASE phase = "setup"
      <4>1. down' = [at |-> "closing", waits |-> {}, restarting |-> TRUE]
        BY <3>1, <3>2 DEF Close, CloseSetup
      <4>. QED
        BY <4>1
    <3>3. CASE phase = "running" /\ down.at = "up"
      <4>1. down' = [at |-> "stopping", waits |-> {"background", "servers", "sockets"}, restarting |-> TRUE]
        BY <3>1, <3>3 DEF Close, BeginShutdown
      <4>. QED
        BY <3>3, <4>1
    <3>4. CASE phase = "running" /\ down.at # "up"
      <4>1. down' = [down EXCEPT !.restarting = TRUE]
        BY <3>1, <3>4 DEF Close, BeginShutdown
      <4>2. down \in [at : {"up", "closing", "stopping", "flushing"},
                      waits : SUBSET {"background", "servers", "sockets"}, restarting : BOOLEAN]
        BY DEF IInv, ScalarInv
      <4>. QED
        BY <3>4, <4>1, <4>2
    <3>. QED
      BY <3>1, <3>2, <3>3, <3>4
  <2>. QED
    BY <1>1, <1>2, <1>4, <2>1, <2>2 DEF IInv, ScalarInv, PhaseInv
<1>. QED
  BY <1>5, <1>6, <1>7, <1>8, <1>9, <1>10, <1>11, <1>12 DEF Wizard

\* What a phase, a process or the container before left behind.
LEMMA EndStep ==
  ASSUME IInv, Fresh, UNCHANGED <<environment, file>>,
         phase' \in {"loading", "ended"}, stopping' \in BOOLEAN,
         abandoned' \in {"none", "closed"}, exit' \in {"no", "clean", "failed", "killed"},
         phase' = "loading" => exit' = "no"
  PROVE  IInv'
<1>1. WizardInv'
  BY NewWizard
<1>2. ScalarInv'
  BY DEF Fresh, Up, IInv, ScalarInv
<1>3. PhaseInv'
  BY DEF Fresh, Up, PhaseInv, Alive
<1>. QED
  BY <1>1, <1>2, <1>3 DEF IInv

\* Every step keeps the invariant.
LEMMA Inductive == IInv /\ [Next]_vars => IInv'
<1>. SUFFICES ASSUME IInv, [Next]_vars PROVE IInv'
  OBVIOUS
<1>1. CASE Wizard
  BY <1>1, WizardStep
<1>2. ASSUME NEW how \in {"clean", "failed", "killed"}, Ends(how) PROVE IInv'
  BY <1>2, EndStep DEF Ends
<1>3. CASE Start
  <2>1. /\ phase = "loading" /\ phase' \in {"setup", "running"} /\ store' \in {"open", "closed"} /\ settings' = file
        /\ UNCHANGED <<environment, file, steps, step, applying, checked, stopping, down, dirty, background, abandoned, exit>>
    BY <1>3 DEF Start
  <2>2. applying = "no" /\ steps = <<>> /\ exit = "no" /\ down.at \notin {"stopping", "flushing"} /\ ~background
    BY <2>1 DEF IInv, PhaseInv, ScalarInv, Alive
  <2>3. \A tab \in Tab : step[tab].at = "none"
    BY <2>2 DEF IInv, WizardInv, QueueInv
  <2>4. WizardInv'
    <3>1. QueueInv'
      BY <2>1 DEF IInv, WizardInv, QueueInv, Runs
    <3>2. StepsInv' /\ FinishInv'
      BY <2>1, <2>2, <2>3 DEF StepsInv, FinishInv, Runs
    <3>3. ValidInv'
      BY <2>1 DEF IInv, WizardInv, ValidInv, Startable, mergedEnvironment, missingRequired, loadConfig
    <3>. QED
      BY <3>1, <3>2, <3>3 DEF WizardInv
  <2>5. ScalarInv'
    BY <2>1 DEF IInv, ScalarInv
  <2>6. PhaseInv'
    BY <2>1, <2>2 DEF IInv, PhaseInv, Alive
  <2>. QED
    BY <2>4, <2>5, <2>6 DEF IInv
<1>4. CASE SetupClosed
  <2>1. CASE stopping
    BY <1>2, <1>4, <2>1 DEF SetupClosed
  <2>2. CASE ~stopping
    <3>1. phase = "setup" /\ NextPhase /\ ~background
      BY <1>4, <2>2 DEF SetupClosed, IInv, PhaseInv, ScalarInv
    <3>. QED
      BY <3>1, EndStep DEF NextPhase, IInv, ScalarInv, PhaseInv
  <2>. QED
    BY <2>1, <2>2
<1>5. CASE Signal
  <2>1. CASE phase = "loading" /\ Ends("clean")
    BY <1>2, <2>1
  <2>2. CASE Alive /\ ~stopping /\ stopping' = TRUE /\ Close(down.restarting)
             /\ UNCHANGED <<environment, file, wizardVars, phase, serviceVars, exit>>
    <3>1. WizardInv' /\ UNCHANGED <<file, settings, steps, applying, checked, store, dirty, background, abandoned>>
      BY <2>2, SameWizard DEF IInv, wizardVars, serviceVars
    <3>2. /\ down' \in [at : {"up", "closing", "stopping", "flushing"}, waits : SUBSET {"background", "servers", "sockets"},
                        restarting : BOOLEAN]
          /\ down'.at \in {"stopping", "flushing"} => phase = "running"
          /\ down'.at = "flushing" => down.at = "flushing"
      BY <2>2 DEF Close, CloseSetup, BeginShutdown, IInv, ScalarInv, PhaseInv, Alive
    <3>. QED
      BY <2>2, <3>1, <3>2 DEF IInv, ScalarInv, PhaseInv, Alive
  <2>. QED
    BY <1>5, <2>1, <2>2 DEF Signal
<1>6. ASSUME NEW what \in {"background", "servers", "sockets"}, Waited(what) PROVE IInv'
  <2>1. WizardInv' /\ UNCHANGED <<file, settings, steps, applying, checked, store, dirty, background, abandoned>>
    BY <1>6, SameWizard DEF Waited, IInv, wizardVars, serviceVars
  <2>2. /\ down' \in [at : {"up", "closing", "stopping", "flushing"}, waits : SUBSET {"background", "servers", "sockets"},
                      restarting : BOOLEAN]
        /\ down'.at = "stopping" /\ down.at = "stopping"
    BY <1>6 DEF Waited, IInv, ScalarInv
  <2>. QED
    BY <1>6, <2>1, <2>2 DEF Waited, IInv, ScalarInv, PhaseInv, Alive
<1>7. CASE CloseStore
  <2>1. WizardInv' /\ UNCHANGED <<file, settings, steps, applying, checked, dirty, background, abandoned>>
    BY <1>7, SameWizard DEF CloseStore, IInv, wizardVars
  <2>2. /\ down' \in [at : {"up", "closing", "stopping", "flushing"}, waits : SUBSET {"background", "servers", "sockets"},
                      restarting : BOOLEAN]
        /\ down'.at = "flushing" /\ down.at = "stopping" /\ store' = "closed"
    BY <1>7 DEF CloseStore, Refusing, IInv, ScalarInv
  <2>. QED
    BY <1>7, <2>1, <2>2 DEF CloseStore, IInv, ScalarInv, PhaseInv, Alive
<1>8. CASE ShutdownComplete
  <2>1. CASE NextPhase /\ down.at = "flushing"
    <3>1. store = "closed" /\ phase = "running" /\ exit = "no"
      BY <2>1 DEF IInv, PhaseInv
    <3>. QED
      BY <2>1, <3>1, EndStep DEF NextPhase, IInv, ScalarInv, PhaseInv
  <2>2. CASE Ends("clean")
    BY <1>2, <2>2
  <2>. QED
    BY <1>8, <2>1, <2>2 DEF ShutdownComplete
<1>9. CASE ShutdownFails \/ HardTimeout \/ Crash \/ StartFails
  BY <1>2, <1>9 DEF ShutdownFails, HardTimeout, Crash, StartFails
<1>10. CASE Change \/ WriteState \/ RunTask \/ TaskEnds
  <2>1. WizardInv' /\ UNCHANGED <<environment, file, settings, steps, applying, checked, phase, stopping, down, store, exit>>
    BY <1>10, SameWizard DEF Change, WriteState, RunTask, TaskEnds, IInv, wizardVars
  <2>2. /\ dirty' \in BOOLEAN /\ background' \in BOOLEAN /\ abandoned' \in {"none", "closed"}
        /\ background' => phase = "running"
    <3>1. dirty \in BOOLEAN /\ background \in BOOLEAN /\ abandoned \in {"none", "closed"} /\ (background => phase = "running")
      BY DEF IInv, ScalarInv, PhaseInv
    <3>2. CASE Change \/ WriteState
      <4>1. dirty' \in BOOLEAN /\ background' = background /\ abandoned' = abandoned
        BY <3>2 DEF Change, WriteState
      <4>. QED
        BY <3>1, <4>1
    <3>3. CASE RunTask
      BY <3>1, <3>3 DEF RunTask
    <3>4. CASE TaskEnds
      <4>1. dirty' = dirty
        BY <3>4 DEF TaskEnds
      <4>2. background' = FALSE \/ background' = background
        BY <3>4 DEF TaskEnds
      <4>3. abandoned' \in {"none", "closed"}
        BY <3>1, <3>4 DEF TaskEnds
      <4>4. background' \in BOOLEAN /\ (background' => phase = "running")
        <5>1. CASE background' = FALSE
          BY <5>1
        <5>2. CASE background' = background
          BY <3>1, <5>2, Zenon
        <5>. QED
          BY <4>2, <5>1, <5>2
      <4>. QED
        BY <3>1, <4>1, <4>3, <4>4
    <3>. QED
      BY <1>10, <3>2, <3>3, <3>4
  <2>. QED
    BY <2>1, <2>2 DEF IInv, ScalarInv, PhaseInv, Alive
<1>11. CASE Boot
  <2>1. WizardInv' /\ UNCHANGED <<environment, file, settings, steps, applying, checked, stopping, down,
                                  store, dirty, background, abandoned>>
    BY <1>11, SameWizard DEF Boot, IInv, wizardVars, serviceVars
  <2>. QED
    BY <1>11, <2>1 DEF Boot, IInv, ScalarInv, PhaseInv, Alive
<1>12. CASE UNCHANGED vars
  <2>1. WizardInv' /\ UNCHANGED <<environment, file, settings, steps, applying, checked, phase, stopping, down,
                                  store, dirty, background, abandoned, exit>>
    BY <1>12, SameWizard DEF vars, IInv, wizardVars, serviceVars
  <2>. QED
    BY <2>1 DEF IInv, ScalarInv, PhaseInv, Alive
<1>. QED
  BY <1>1, <1>3, <1>4, <1>5, <1>6, <1>7, <1>8, <1>9, <1>10, <1>11, <1>12 DEF Next

\* The invariant holds at the start.
LEMMA Initially == Init => IInv
<1>. SUFFICES ASSUME Init PROVE IInv
  OBVIOUS
<1>1. \A tab \in Tab : step[tab] = NoStep
  BY DEF Init
<1>2. NoStep \in StepType /\ NoStep.at = "none"
  BY DEF NoStep, StepType
<1>3. QueueInv
  BY <1>1, <1>2 DEF Init, QueueInv, Runs
<1>4. StepsInv /\ FinishInv
  BY <1>1, <1>2 DEF Init, StepsInv, FinishInv, Runs
<1>5. ValidInv
  <2>. SUFFICES ASSUME Startable, missingRequired(environment) = {} PROVE loadConfig(mergedEnvironment(file))
    BY DEF Init, ValidInv
  <2>1. mergedEnvironment(file) = environment
    BY DEF Init, mergedEnvironment
  <2>. QED
    BY <2>1 DEF Startable
<1>6. ScalarInv /\ PhaseInv
  BY DEF Init, Up, ScalarInv, PhaseInv, Alive
<1>. QED
  BY <1>3, <1>4, <1>5, <1>6 DEF IInv, WizardInv

\* The inductive invariant: of the phases, the queue of steps, what finish checked and what the file is worth.
THEOREM Invariant == Spec => []IInv
<1>. QED
  BY Initially, Inductive, PTL DEF Spec

\* The settings JellyPass starts with next are those finish checked, whatever tabs post behind it.
THEOREM FinishedAsCheckedAlways == Spec => []FinishedAsChecked
<1>1. IInv => FinishedAsChecked
  <2>. SUFFICES ASSUME IInv PROVE FinishedAsChecked
    OBVIOUS
  <2>1. TypeOK
    BY TypesHold DEF IInv, WizardInv
  <2>2. applying # "no" => file = settings
    BY DEF IInv, PhaseInv
  <2>. QED
    BY <2>1, <2>2 DEF FinishedAsChecked, IInv, WizardInv, FinishInv
<1>. QED
  BY <1>1, Invariant, PTL

\* JellyPass starts with whatever file its wizard left, wherever it stopped.
THEOREM StartsAgainAlways == Spec => []StartsAgain
<1>1. IInv => StartsAgain
  <2>. SUFFICES ASSUME IInv, Startable, ~setupRequired(file) PROVE loadConfig(mergedEnvironment(file))
    BY DEF StartsAgain
  <2>1. "completed" \in file \/ missingRequired(environment) = {}
    BY DEF setupRequired
  <2>. QED
    BY <2>1 DEF IInv, WizardInv, ValidInv
<1>. QED
  BY <1>1, Invariant, PTL

\* A phase ends in order only with its store written and closed, and nothing outlives it that could write.
THEOREM ClosedBehindAlways == Spec => ClosedBehind
<1>1. IInv => abandoned # "open"
  BY DEF IInv, PhaseInv
<1>2. IInv /\ [Next]_vars =>
        [phase = "running" /\ (phase' = "loading" \/ exit' = "clean") => store = "closed" /\ ~dirty]_vars
  <2>. SUFFICES ASSUME IInv, Next, phase = "running", phase' = "loading" \/ exit' = "clean"
                PROVE  store = "closed" /\ ~dirty
    OBVIOUS
  <2>1. exit = "no" /\ (down.at = "flushing" => store = "closed")
    BY DEF IInv, PhaseInv
  <2>2. ShutdownComplete
    <3>1. ~Wizard /\ ~Start /\ ~Change /\ ~WriteState /\ ~RunTask /\ ~TaskEnds /\ ~Boot
      BY <2>1 DEF Wizard, Post, Check, Call, Store, StoreToken, StoreFails, CloseSettings, Apply, Start, Change,
                  WriteState, RunTask, TaskEnds, Boot
    <3>2. ~CloseStore /\ ~SetupClosed /\ ~Signal /\ \A what \in {"background", "servers", "sockets"} : ~Waited(what)
      BY <2>1 DEF CloseStore, SetupClosed, Signal, Waited
    <3>3. ~StartFails /\ ~ShutdownFails /\ ~HardTimeout /\ ~Crash
      BY <2>1 DEF StartFails, ShutdownFails, HardTimeout, Crash, Ends
    <3>. QED
      BY <3>1, <3>2, <3>3 DEF Next
  <2>. QED
    BY <2>1, <2>2 DEF ShutdownComplete
<1>. QED
  BY <1>1, <1>2, Invariant, PTL DEF Spec, ClosedBehind
================================================================================
