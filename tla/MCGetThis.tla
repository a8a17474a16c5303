------------------------------- MODULE MCGetThis -------------------------------
(* GetThis with a member of two households, and a member of one of them. *)
EXTENDS GetThis, TLC

CONSTANTS u1, u2, h1, h2

MCHomes == u1 :> {h1, h2} @@ u2 :> {h2}
Alone == u1 :> {h1}
OneOutside == u1 :> {h1} @@ u2 :> {}   \* u2 uses Seerr and is in no household

-----------------------------------------------------------------------------
(* What the safety run explores *)

\* With two calls, no intent grows old enough for a refresh to give up on reading Seerr or Jellyfin.
InTime == spent.calls <= 1 \/ \A n \in DOMAIN age : age[n] < 2

\* Two requests, by calls of two households or by one call and a member who uses Seerr itself.
Following ==
  /\ InTime
  /\ spent.calls + spent.direct <= 2 /\ spent.crashes + spent.declined + spent.replaced = 0

\* Two calls of one household, and a crash or a request declined.
Crashing ==
  /\ Cardinality({a[1] : a \in asked}) <= 1 /\ spent.direct = 0
  /\ spent.crashes + spent.declined <= 1 /\ spent.replaced = 0
  /\ InTime

\* One call, a member who uses Seerr itself, and a household replaced before the call's time runs out.
Replacing ==
  /\ spent.calls <= 1 /\ spent.declined + spent.crashes = 0
  /\ spent.replaced = 1 /\ spent.direct = 1 => \A n \in DOMAIN age : age[n] = 0

\* Reads may fail at any time.  One call at least is u1's, for h1: two calls for h2 differ from two for h1 only in
\* that either of its members may make them.
Explored == failing /\ (asked # {} => h1 \in {a[1] : a \in asked}) /\ (Following \/ Crashing \/ Replacing)
=============================================================================
