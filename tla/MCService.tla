----------------------------- MODULE MCService -----------------------------
(***************************************************************************)
(* Service for TLC: two tabs; JellyPass configured by the wizard alone,    *)
(* and by the environment with the wizard for the rest.                    *)
(***************************************************************************)
EXTENDS Service, TLC

CONSTANTS t1, t2

MCEnvironments == {{}, {"jellyfin", "webhookToken", "seerr"}, {"jellyfin", "gateway"}, {"webhookToken", "tmdb", "app"},
                   {"webhookToken", "seerr", "tmdb", "tvAddon"}}

Form(on, off) == [on |-> on, off |-> off]

MCHouseholdChange == {Form({"gateway", "proxies"}, {}), Form({"app"}, {}), Form({}, {"app"}),
                      Form({}, {"gateway", "app"}), Form({}, {"proxies"})}

\* The wizard's steps on any settings, and the ends of a phase on the settings JellyPass runs with first.
Minimal == file \cap Variable \subseteq {"jellyfin", "webhookToken"} /\ \A t \in Tab : step[t].op \in {"none", "finish"}
Explored == Minimal \/ (~dirty /\ ~background /\ abandoned = "none" /\ ~stopping)
=============================================================================
