----------------------------- MODULE MCOkrRunner -----------------------------
(***************************************************************************)
(* Three instances of OkrRunner, explored side by side: `instance' is      *)
(* chosen in the first state and confines every step.                      *)
(***************************************************************************)
EXTENDS OkrRunner, TLC

CONSTANTS p1, p2, a1, d1, d2, o1

VARIABLE instance

\* Two dialogs of one device, and an autonomy session of another.
Devices == (p1 :> d1 @@ p2 :> d1 @@ a1 :> d2)

Only(windows) == \A w \in Window \ windows : flight'[w] = flight[w]
OneKr == okr'[o1].version = 2 /\ UNCHANGED <<dispatch, seen>>

\* Two dialogs of one device, over one key result.
WindowsStep == instance = "windows" /\ Only({p1, p2}) /\ OneKr

\* A dialog of one device and a session of another.
DevicesStep == instance = "devices" /\ Only({p1, a1}) /\ OneKr

\* One dialog, two key results and both ways of delivery, unless the agreement
\* ends before.
ScheduleStep ==
  /\ instance = "schedule" /\ Only({p1})
  /\ okr'[o1].agreement > 1 => \A c \in Command : dispatch'[d1][c] = "none" /\ sent'[d1][c] = 0

MCInit ==
  /\ RunnerInit
  /\ instance \in {"windows", "devices", "schedule"}
  /\ Length(o1) = IF instance = "schedule" THEN 2 ELSE 1

MCNext == RunnerNext /\ (WindowsStep \/ DevicesStep \/ ScheduleStep) /\ UNCHANGED instance

MCSpec == MCInit /\ [][MCNext]_<<all, instance>>

\* Commands are alike, and so are the dialogs of the device.
Symmetry == Permutations(Command) \cup Permutations(Person)
=============================================================================
