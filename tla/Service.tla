------------------------------ MODULE Service ------------------------------
(***************************************************************************)
(* One process of JellyPass and the containers after it: the main loop     *)
(* with its phases, the setup wizard, the settings file and the orderly    *)
(* shutdown (index.ts, setup.ts, settings.ts, shutdown.ts).                *)
(*                                                                         *)
(* A setting is there or not. The environment names the settings it sets;  *)
(* "tvAddon" and "onePort" stand for TV_ADDON_ENABLED and for ADMIN_PORT = *)
(* PORT, which no step of the wizard sets.                                 *)
(***************************************************************************)
EXTENDS Naturals, Sequences, SequencesExt

CONSTANTS Tab,              \* the administrator's tabs: each waits for one step at a time
          Environments,     \* the environments JellyPass may be started with
          HouseholdChange   \* the forms of the step `household`: what it turns on and off

Required == {"jellyfin", "webhookToken"}
Variable == Required \cup {"seerr", "tmdb", "backfill", "gateway", "app", "proxies"}
Setting == Variable \cup {"completed"}

ASSUME EnvironmentsAssumption == Environments \subseteq SUBSET (Variable \cup {"tvAddon", "onePort"})
ASSUME HouseholdAssumption ==
  \A form \in HouseholdChange :
    /\ form.on \cup form.off \subseteq {"gateway", "app", "proxies"}
    /\ form.on \cap form.off = {}

VARIABLES environment,   \* the environment of the process
          file,          \* the settings file
          settings,      \* SettingsStore.#settings, of the phase
          steps,         \* the tabs whose steps wait in #steps, the running one first
          step,          \* each tab's step
          applying,      \* from finish's check to the start of the next phase
          checked,       \* what that finish checked
          phase,         \* of the process
          stopping,      \* a signal came
          down,          \* createShutdown, or the closing of setup mode
          store,         \* GrantStore: taking changes, refusing them
          dirty,         \* a change was accepted that the state file does not hold
          background,    \* a background task of the phase runs
          abandoned,     \* one of an earlier phase still runs, and whether that phase's store refuses it
          exit           \* how the process ended

wizardVars == <<settings, steps, step, applying, checked>>
serviceVars == <<store, dirty, background, abandoned>>
vars == <<environment, file, wizardVars, phase, stopping, down, serviceVars, exit>>

NoStep == [op |-> "none", at |-> "none", on |-> {}, off |-> {}]
Up == [at |-> "up", waits |-> {}, restarting |-> FALSE]

-----------------------------------------------------------------------------
(* What the settings mean.                                                 *)

mergedEnvironment(stored) == environment \cup (stored \cap Variable)
missingRequired(merged) == Required \ merged

setupRequired(stored) ==
  \/ missingRequired(mergedEnvironment(stored)) # {}
  \/ missingRequired(environment) # {} /\ "completed" \notin stored

\* loadConfig returns a configuration rather than throw.
loadConfig(merged) ==
  /\ Required \subseteq merged
  /\ "backfill" \in merged => "seerr" \in merged
  /\ "app" \in merged => {"gateway", "seerr", "tmdb"} \subseteq merged
  /\ "tvAddon" \in merged => "app" \in merged
  /\ "gateway" \in merged => "proxies" \in merged /\ "onePort" \notin merged

-----------------------------------------------------------------------------
(* The wizard.                                                             *)

Op == {"jellyfin", "seerr", "secrets", "webhook", "tmdb", "tmdbOff", "backfill", "backfillOff", "finish"}

Forms == [op : Op, on : {{}}, off : {{}}]
           \cup {[op |-> "household", on |-> form.on, off |-> form.off] : form \in HouseholdChange}

Locks(form) == CASE form.op = "tmdbOff" -> {"tmdb"}
                 [] form.op = "backfillOff" -> {"backfill"}
                 [] form.op = "household" -> form.on \cup form.off
                 [] form.op \in {"secrets", "webhook", "finish"} -> {}
                 [] OTHER -> {form.op}

\* The checks a step makes before it calls anything.
Refused(form) ==
  LET merged == mergedEnvironment(settings)
      next   == mergedEnvironment((settings \cup form.on) \ form.off)
  IN \/ Locks(form) \cap environment # {}
     \/ form.op \in {"webhook", "backfill"} /\ "seerr" \notin merged
     \/ form.op = "tmdbOff" /\ "app" \in merged
     \/ form.op = "household" /\ \/ "gateway" \in next /\ "proxies" \notin next
                                 \/ "app" \in next /\ ~({"gateway", "seerr", "tmdb"} \subseteq next)
     \/ form.op = "finish" /\ ~loadConfig(merged)

\* What it stores and takes away (what the webhook step writes down of Seerr's webhook is left out).
Stores(form) == CASE form.op = "finish" -> {"completed"}
                  [] form.op = "secrets" -> {"webhookToken"}
                  [] form.op \in {"jellyfin", "seerr", "tmdb", "backfill"} -> {form.op}
                  [] OTHER -> form.on
Removes(form) == CASE form.op = "tmdbOff" -> {"tmdb"}
                   [] form.op = "backfillOff" -> {"backfill"}
                   [] OTHER -> form.off

\* Nothing is left to store: a key that still works, the webhook token.
Kept(form) == \/ form.op = "jellyfin" /\ "jellyfin" \in settings
              \/ form.op = "secrets" /\ "webhookToken" \in mergedEnvironment(settings)

Alive == phase \in {"setup", "running"}
Serving == Alive /\ down.at = "up"

\* #step: the step waits for those before it. Refused steps are answered before another can arrive.
Post(tab, form) ==
  /\ Serving
  /\ applying \in {"timer", "closed"} => steps = <<>>
  /\ step[tab].at = "none"
  /\ step' = [step EXCEPT ![tab] = [op |-> form.op, at |-> "queued", on |-> form.on, off |-> form.off]]
  /\ steps' = Append(steps, tab)
  /\ UNCHANGED <<environment, file, settings, applying, checked, phase, stopping, down, serviceVars, exit>>

\* A mutant of MayRun: steps do not wait for each other.
MayRunAny(tab) == TRUE

MayRun(tab) == Head(steps) = tab

Answer(tab) ==
  /\ step' = [step EXCEPT ![tab] = NoStep]
  /\ \E i \in DOMAIN steps : steps[i] = tab /\ steps' = RemoveAt(steps, i)

\* Where a step goes on after its checks: to the services it calls, or to the file at once.
Calls(form) == form.op \in {"jellyfin", "seerr", "webhook", "tmdb"}
AfterCheck(form) == IF form.op = "webhook" /\ "webhookToken" \notin mergedEnvironment(settings) THEN "token"
                    ELSE IF Calls(form) THEN "calling" ELSE "storing"

\* A mutant of Refuses: the steps behind finish still run.
RefusesUnchecked(form) == Refused(form)

\* Once finish has checked the settings, every step behind it is refused.
Refuses(form) == applying # "no" \/ Refused(form)

Check(tab) ==
  LET form == step[tab]
  IN /\ Alive
     /\ form.at = "queued" /\ MayRun(tab)
     /\ IF Refuses(form)
          THEN Answer(tab) /\ UNCHANGED <<applying, checked>>
          ELSE /\ step' = [step EXCEPT ![tab].at = AfterCheck(form)]
               /\ applying' = IF form.op = "finish" THEN "storing" ELSE applying
               /\ checked' = IF form.op = "finish" THEN settings ELSE checked
               /\ UNCHANGED steps
     /\ UNCHANGED <<environment, file, settings, phase, stopping, down, serviceVars, exit>>

\* Jellyfin, Seerr or TMDB answers, refuses, fails or times out; or there is nothing to store.
Call(tab) ==
  /\ Alive
  /\ step[tab].at = "calling"
  /\ \/ step' = [step EXCEPT ![tab].at = "storing"] /\ UNCHANGED steps
     \/ Answer(tab)
  /\ UNCHANGED <<environment, file, settings, applying, checked, phase, stopping, down, serviceVars, exit>>

\* SettingsStore.update: the change on the settings as they are now, written whole and renamed.
Stored(on, off) ==
  /\ settings' = (settings \cup on) \ off
  /\ file' = settings'

Store(tab) ==
  LET form == step[tab]
  IN /\ Alive
     /\ form.at = "storing" /\ applying # "closed"
     /\ IF Kept(form) THEN UNCHANGED <<settings, file>>
                      ELSE Stored(Stores(form), Removes(form))
     /\ Answer(tab)
     /\ applying' = IF form.op = "finish" THEN "timer" ELSE applying
     /\ UNCHANGED <<environment, checked, phase, stopping, down, serviceVars, exit>>

\* The webhook step first makes the token it gives Seerr.
StoreToken(tab) ==
  /\ Alive
  /\ step[tab].at = "token" /\ applying # "closed"
  /\ Stored({"webhookToken"}, {})
  /\ step' = [step EXCEPT ![tab].at = "calling"]
  /\ UNCHANGED <<environment, steps, applying, checked, phase, stopping, down, serviceVars, exit>>

\* The write fails, or the settings store is closed.
StoreFails(tab) ==
  /\ Alive
  /\ step[tab].at \in {"token", "storing"}
  /\ Answer(tab)
  /\ applying' = IF step[tab].op = "finish" THEN "no" ELSE applying
  /\ checked' = IF step[tab].op = "finish" THEN {} ELSE checked
  /\ UNCHANGED <<environment, file, settings, phase, stopping, down, serviceVars, exit>>

\* #drainAndApply once 50 ms passed and the queue is empty: no change of this wizard from here on.
CloseSettings ==
  /\ Alive
  /\ applying = "timer" /\ steps = <<>>
  /\ applying' = "closed"
  /\ UNCHANGED <<environment, file, settings, steps, step, checked, phase, stopping, down, serviceVars, exit>>

-----------------------------------------------------------------------------
(* The phases and how they end.                                            *)

\* What a new phase begins with.
Fresh ==
  /\ settings' = {} /\ steps' = <<>> /\ step' = [tab \in Tab |-> NoStep] /\ applying' = "no"
  /\ checked' = {} /\ down' = Up
  /\ store' = "closed" /\ dirty' = FALSE /\ background' = FALSE

\* The process ends.
Ends(how) ==
  /\ phase' = "ended" /\ exit' = how
  /\ Fresh /\ stopping' = FALSE /\ abandoned' = "none"
  /\ UNCHANGED <<environment, file>>

\* main starts the next phase in this process; work that did not stop in time goes on.
NextPhase ==
  /\ phase' = "loading" /\ Fresh
  /\ abandoned' = IF background THEN store ELSE abandoned
  /\ UNCHANGED <<environment, file, stopping, exit>>

\* SettingsStore.load, then setup mode or the services.
Start ==
  LET merged == mergedEnvironment(file)
  IN /\ phase = "loading"
     /\ setupRequired(file) \/ loadConfig(merged)
     /\ phase' = IF setupRequired(file) THEN "setup" ELSE "running"
     /\ store' = IF setupRequired(file) THEN "closed" ELSE "open"
     /\ settings' = file
     /\ UNCHANGED <<environment, file, steps, step, applying, checked, stopping, down, dirty, background, abandoned, exit>>

\* The file or the configuration is refused; TMDB refuses its key, a listener cannot bind.
StartFails == phase = "loading" /\ Ends("failed")

\* Setup mode closes its server and every connection.
CloseSetup(restarting) == down' = [at |-> "closing", waits |-> {}, restarting |-> restarting]

SetupClosed ==
  /\ phase = "setup" /\ down.at = "closing"
  /\ IF stopping THEN Ends("clean") ELSE NextPhase

\* createShutdown, idempotent: background work is told to stop, servers and WebSockets close.
BeginShutdown(restarting) ==
  down' = IF down.at = "up"
            THEN [at |-> "stopping", waits |-> {"background", "servers", "sockets"}, restarting |-> restarting]
            ELSE [down EXCEPT !.restarting = restarting]

Close(restarting) == IF phase = "setup" THEN CloseSetup(restarting) ELSE BeginShutdown(restarting)

\* The wizard's apply, after finish answered and its queue emptied.
Apply ==
  /\ Alive
  /\ applying = "closed" /\ ~down.restarting
  /\ Close(TRUE)
  /\ UNCHANGED <<environment, file, wizardVars, phase, stopping, serviceVars, exit>>

\* SIGINT or SIGTERM. Between phases nothing is up that would have to be closed.
Signal ==
  \/ phase = "loading" /\ Ends("clean")
  \/ /\ Alive /\ ~stopping
     /\ stopping' = TRUE
     /\ Close(down.restarting)
     /\ UNCHANGED <<environment, file, wizardVars, phase, serviceVars, exit>>

\* A wait of the shutdown is over: connections are cut off and background work is left after their grace.
Waited(what) ==
  /\ down.at = "stopping" /\ what \in down.waits
  /\ down' = [down EXCEPT !.waits = @ \ {what}]
  /\ UNCHANGED <<environment, file, wizardVars, phase, stopping, serviceVars, exit>>

\* A mutant of Refusing: the store is flushed and stays open.
StaysOpen == store

Refusing == "closed"

\* GrantStore.close: no change is accepted from here on, and the write under way is waited for.
CloseStore ==
  /\ down.at = "stopping" /\ down.waits = {}
  /\ down' = [down EXCEPT !.at = "flushing"]
  /\ store' = Refusing
  /\ UNCHANGED <<environment, file, wizardVars, phase, stopping, dirty, background, abandoned, exit>>

ShutdownComplete ==
  /\ down.at = "flushing" /\ ~dirty
  /\ IF down.restarting /\ ~stopping THEN NextPhase ELSE Ends("clean")

\* The last write failed.
ShutdownFails == down.at = "flushing" /\ dirty /\ Ends("failed")

\* A mutant of HardTimer: cleared before the store closes.
HardTimerUntilClosed == down.at = "stopping"

HardTimer == down.at \in {"stopping", "flushing"}

HardTimeout == HardTimer /\ Ends("failed")

\* A route or a task changes the state, those still open after the shutdown began included.
Change ==
  /\ phase = "running" /\ store = "open"
  /\ dirty' = TRUE
  /\ UNCHANGED <<environment, file, wizardVars, phase, stopping, down, store, background, abandoned, exit>>

WriteState ==
  /\ dirty
  /\ dirty' = FALSE
  /\ UNCHANGED <<environment, file, wizardVars, phase, stopping, down, store, background, abandoned, exit>>

\* BackgroundTasks.run, refused once the shutdown began.
RunTask ==
  /\ phase = "running" /\ down.at = "up"
  /\ background' = TRUE
  /\ UNCHANGED <<environment, file, wizardVars, phase, stopping, down, store, dirty, abandoned, exit>>

\* A task ends when it will.
TaskEnds ==
  /\ \/ background /\ background' = FALSE /\ UNCHANGED abandoned
     \/ abandoned # "none" /\ abandoned' = "none" /\ UNCHANGED background
  /\ UNCHANGED <<environment, file, wizardVars, phase, stopping, down, store, dirty, exit>>

\* The process is killed; the container starts again, whatever ended the last one.
Crash == phase # "ended" /\ Ends("killed")

Boot ==
  /\ phase = "ended"
  /\ phase' = "loading" /\ exit' = "no"
  /\ UNCHANGED <<environment, file, wizardVars, stopping, down, serviceVars>>

-----------------------------------------------------------------------------
Init ==
  /\ environment \in Environments
  /\ file = {} /\ checked = {}
  /\ settings = {} /\ steps = <<>> /\ step = [tab \in Tab |-> NoStep] /\ applying = "no"
  /\ phase = "loading" /\ stopping = FALSE /\ down = Up
  /\ store = "closed" /\ dirty = FALSE /\ background = FALSE /\ abandoned = "none"
  /\ exit = "no"

Wizard ==
  \/ \E tab \in Tab : \/ \E form \in Forms : Post(tab, form)
                      \/ Check(tab) \/ Call(tab) \/ Store(tab) \/ StoreToken(tab) \/ StoreFails(tab)
  \/ CloseSettings \/ Apply

Next ==
  \/ Wizard
  \/ Start \/ StartFails \/ SetupClosed \/ Signal
  \/ \E what \in {"background", "servers", "sockets"} : Waited(what)
  \/ CloseStore \/ ShutdownComplete \/ ShutdownFails \/ HardTimeout
  \/ Change \/ WriteState \/ RunTask \/ TaskEnds
  \/ Crash \/ Boot

Spec == Init /\ [][Next]_vars

\* Timers fire, a step's calls time out and its writes settle. The state file may hang, a task or a
\* socket never end. The drain looks at the queue whenever a step settles, so it sees it empty.
Fairness ==
  /\ \A tab \in Tab : /\ WF_vars(Check(tab)) /\ WF_vars(Call(tab))
                      /\ WF_vars(Store(tab) \/ StoreToken(tab) \/ StoreFails(tab))
  /\ SF_vars(CloseSettings) /\ WF_vars(Apply) /\ WF_vars(SetupClosed) /\ WF_vars(HardTimeout)

FairSpec == Spec /\ Fairness

-----------------------------------------------------------------------------
StepType == [op : Op \cup {"none", "household"}, at : {"none", "queued", "token", "calling", "storing"},
             on : SUBSET {"gateway", "app", "proxies"}, off : SUBSET {"gateway", "app", "proxies"}]

\* The types; a tab's step waits in the queue exactly while it is not answered, and only the first runs.
TypeOK ==
  /\ environment \in Environments /\ file \subseteq Setting /\ settings \subseteq Setting
  /\ steps \in Seq(Tab) /\ step \in [Tab -> StepType]
  /\ applying \in {"no", "storing", "timer", "closed"} /\ checked \subseteq Setting
  /\ phase \in {"loading", "setup", "running", "ended"}
  /\ stopping \in BOOLEAN
  /\ down \in [at : {"up", "closing", "stopping", "flushing"}, waits : SUBSET {"background", "servers", "sockets"},
               restarting : BOOLEAN]
  /\ store \in {"open", "closed"} /\ dirty \in BOOLEAN /\ background \in BOOLEAN
  /\ abandoned \in {"none", "open", "closed"}
  /\ exit \in {"no", "clean", "failed", "killed"}
  /\ \A i, j \in 1 .. Len(steps) : i # j => steps[i] # steps[j]
  /\ \A tab \in Tab : /\ step[tab].at # "none" <=> \E i \in 1 .. Len(steps) : steps[i] = tab
                      /\ step[tab].at \in {"token", "calling", "storing"} => Head(steps) = tab

\* Whatever the tabs do and wherever the process stops, JellyPass starts with the file it left, unless it could
\* not start with the environment alone: each step checks the settings it depends on, and none of them changes
\* under another's checks.
\* TV_ADDON_ENABLED and ADMIN_PORT = PORT are left out: the steps do not look at them.
Startable ==
  /\ environment \cap {"tvAddon", "onePort"} = {}
  /\ missingRequired(environment) = {} => loadConfig(environment)
StartsAgain == Startable => setupRequired(file) \/ loadConfig(mergedEnvironment(file))

\* Nothing changes the settings after finish checked them: what JellyPass starts with next is what was checked.
\* (And the state has its types.)
FinishedAsChecked == TypeOK /\ (applying # "no" => file \ {"completed"} = checked \ {"completed"})

\* An orderly end loses no change: the process exits 0, or the next phase starts, only with the state
\* file holding everything and its store refusing more, so work that outlives the phase changes nothing.
ClosedBehind ==
  /\ [][phase = "running" /\ (phase' = "loading" \/ exit' = "clean") => store = "closed" /\ ~dirty]_vars
  /\ [](abandoned # "open")

\* A signal ends the process, a shutdown ends, and a finished wizard is applied, also when background
\* work, a socket or the disk never answers.
ComesToAnEnd == []<>(~stopping) /\ []<>(down.at = "up") /\ []<>(applying = "no")
=============================================================================
