----------------------------- MODULE MCObjective -----------------------------
(***************************************************************************)
(* Three instances of Objective, explored side by side: `instance' is      *)
(* chosen in the first state and confines every step.                      *)
(***************************************************************************)
EXTENDS Objective

CONSTANTS o1, o2, c1, c2

VARIABLE instance

Lengths(n) == \A o \in Okr : Length(o) <= n
Limits(n) == \A o \in Okr : okr[o].limit \in {0, n}
Versions(n) == \A o \in Okr : okr[o].version <= n
OneSpec == \A o \in Okr : okr[o].spec <= 1
Bounded == \A o \in Okr : okr[o].agent = "bounded"
OneObjective == okr[o2].state = "none" /\ okr[o1].state # "archived" /\ ~managed.revoked
Timeless == okr' # okr => \E o \in Okr : okr'[o].version # okr[o].version

\* An objective with two key results, from draft to acceptance, as time passes.
CourseStep ==
  /\ instance = "course"
  /\ OneObjective' /\ Limits(2)' /\ OneSpec' /\ Bounded'

\* An objective that is paused, specified anew and agreed on anew.
AgreementsStep ==
  /\ instance = "agreements"
  /\ OneObjective' /\ Lengths(1)' /\ Versions(6)' /\ Timeless

\* Two objectives that compete for one place, and an Agent that is replaced.
LimitStep ==
  /\ instance = "limit"
  /\ run'[c2] = "none" /\ Lengths(1)' /\ Limits(1)' /\ OneSpec'
  /\ Versions(4)' /\ managed'.version <= 4 /\ Timeless

MCInit == Init /\ instance \in {"course", "agreements", "limit"}

MCNext == Next /\ (CourseStep \/ AgreementsStep \/ LimitStep) /\ UNCHANGED instance

MCSpec == MCInit /\ [][MCNext]_<<vars, instance>>
=============================================================================
