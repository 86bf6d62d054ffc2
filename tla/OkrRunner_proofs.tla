--------------------------- MODULE OkrRunner_proofs ---------------------------
(***************************************************************************)
(* The runner, for any number of devices, dialogs, sessions, objectives    *)
(* and commands: one ticket is one reservation, and a device asks the      *)
(* Coordinator for a run at most once.  For devices with one window each,  *)
(* a run is delivered in one way.                                          *)
(***************************************************************************)
EXTENDS OkrRunner, Objective_proofs

-----------------------------------------------------------------------------
(* The runner: its inductive invariant.                                    *)

CommandOrNone == Command \cup {NoCommand}
Names == Name \cup {NoName}
Pc == {"idle", "claim", "begin", "lookup", "sign", "submit", "sent", "ticket", "release",
       "send", "queue", "return", "declined", "restore"}
CallType == {"none", "read", "prepare", "schedule", "send", "discover", "create", "deliver"}
InputType ==
  [create : BOOLEAN, release : BOOLEAN, expect : CommandOrNone, mode : {"coordinator", "chain"}]
LocatorType == [name : Names, attempted : Attempted]
PinType == {<<>>} \cup (OkrType \X [spent : Int, reserved : Int])
FlightType ==
  [pc : Pc, call : CallType, input : InputType, name : Names, version : Nat, prior : Request,
   command : CommandOrNone, found : CommandOrNone, receipt : Request,
   status : {"none", "idle", "other", "queued"}, saved : LocatorType, pin : PinType]
TxType == [kind : {"ticket", "delivery"}, device : Device, name : Name, command : Command]

RunnerShape ==
  /\ ticket \in [Name -> CommandOrNone]
  /\ journal \in [Device -> [Name -> Request]]
  /\ dispatch \in [Device -> [Command -> Request]]
  /\ pool \subseteq TxType
  /\ published \subseteq Command
  /\ signed \in [Command -> Device \cup {"none"}]
  /\ sent \in [Device -> [Command -> Nat]]
  /\ claimed \in [Device -> SUBSET Command]
  /\ stored \in [Device -> [Okr -> LocatorType]]
  /\ locator \in [Person -> LocatorType]
  /\ view \in [Person -> CommandOrNone]
  /\ flight \in [Window -> FlightType]

\* An objective changes its agreement at most when it changes its version.
Versions == \A o \in Okr : okr[o].agreement <= okr[o].version /\ okr[o].version <= MaxVersion

\* A name is ahead of the present key result, or was the present one before.
Ahead(n) ==
  \/ n[2] > okr[n[1]].agreement
  \/ n[2] = okr[n[1]].agreement /\ n[3] > okr[n[1]].next
Passed(n) ==
  \/ n[2] < okr[n[1]].agreement
  \/ n[2] = okr[n[1]].agreement /\ n[3] < okr[n[1]].next

\* A claim names a key result that a ticket can have.
Named == \A c \in Command : claim[c].okr # "none" => NameIn(c) \in Name

\* A transaction was recorded by its device; a ticket transaction was also signed by
\* it, and so was a ticket.
Submitted ==
  /\ \A tx \in pool : tx.kind = "ticket" =>
       signed[tx.command] = tx.device /\ journal[tx.device][tx.name] # "none"
  /\ \A tx \in pool : tx.kind = "delivery" => dispatch[tx.device][tx.command] # "none"
  /\ \A n \in Name : ticket[n] # NoCommand =>
       signed[ticket[n]] \in Device /\ journal[signed[ticket[n]]][n] # "none"

\* What a device asked for, it signed; it is a run that is reserved; and what it
\* asked of the Coordinator was claimed, and was the present key result.
Done(d, c) == sent[d][c] > 0 \/ dispatch[d][c] # "none"
Asked ==
  \A d \in Device, c \in Command :
    /\ Done(d, c) => signed[c] = d /\ claim[c].okr # "none"
    /\ sent[d][c] > 0 => c \in claimed[d] /\ ~Ahead(NameIn(c))
    /\ dispatch[d][c] # "none" => \E w \in Person : DeviceOf[w] = d

\* What a flight holds at each place.
Fits(w, f) ==
  /\ f.pc # "idle" => f.name \in Name
  /\ f.pc = "idle" <=> f.call = "none"
  /\ f.pc = "submit" => f.command \in Command /\ signed[f.command] = DeviceOf[w]
  /\ f.pc = "ticket" => ticket[f.name] # NoCommand
  /\ f.pc \in {"release", "send", "queue"} => f.found = ticket[f.name]
  /\ f.pc \in {"release", "send", "queue"} \/ f.status = "queued" => f.found # NoCommand
  /\ f.input.release => f.input.expect # NoCommand /\ f.call \in {"send", "deliver"}
  /\ f.pc \in {"release", "send"} => f.input.release /\ f.found = f.input.expect
  /\ f.pc = "send" => f.input.mode # "chain"
  /\ f.pc = "queue" => f.call \in {"send", "schedule"}
  /\ f.pc = "claim" => f.input.release
  /\ f.call \in {"read", "prepare", "schedule", "send"} => w \in Person
  /\ f.call \in {"discover", "create", "deliver"} => w \in AutoSession
  /\ f.call = "deliver" => f.input.mode # "chain"
  /\ f.pc = "restore" => f.saved.name \in Name /\ f.call = "read"

\* A flight that may still ask the Coordinator holds the claim of the run, alone.
Holding(f) ==
  /\ f.input.release /\ f.input.mode # "chain"
  /\ f.pc \in {"begin", "lookup", "sign", "submit", "sent", "ticket", "release", "send"}
Held ==
  \A w \in Window : Holding(flight[w]) =>
    /\ flight[w].input.expect \in claimed[DeviceOf[w]]
    /\ sent[DeviceOf[w]][flight[w].input.expect] = 0
    /\ \A v \in Window :
         Holding(flight[v]) /\ DeviceOf[v] = DeviceOf[w]
           /\ flight[v].input.expect = flight[w].input.expect => v = w

\* A locator names a key result that is present or past.
Placed(l) == (l.name = NoName => l.attempted = "unset") /\ (l.name # NoName => ~Ahead(l.name))
Located(f, l) == f.call \in {"prepare", "send"} => l.name \in Name
Locators ==
  /\ \A w \in Person : Placed(locator[w])
  /\ \A d \in Device, o \in Okr :
       Placed(stored[d][o]) /\ stored[d][o].name \in {n \in Name : n[1] = o} \cup {NoName}
  /\ \A w \in Window : Placed(flight[w].saved)
  /\ \A w \in Person : Located(flight[w], locator[w])

\* One window on each device.
Solo == \A v, w \in Window : DeviceOf[v] = DeviceOf[w] => v = w

\* Device d has not asked for the run of a name, or the name is past.
Open(d, n) == Passed(n) \/ ticket[n] = NoCommand \/ ~Done(d, ticket[n])
Clear(d, l) == l.attempted = "no" => Open(d, l.name)
\* What the one dialog of a device d knows of its deliveries: f is its flight, l
\* its locator and s its store.
Knows(d, f, l, s) ==
  /\ Clear(d, l) /\ Clear(d, f.saved)
  /\ \A o \in Okr : Clear(d, s[o])
  /\ f.pc # "restore" => f.saved = NoLocator
  /\ f.call = "send" =>
       /\ l.name = f.name
       /\ l.attempted = "yes"
       /\ s[f.name[1]] = l
       /\ f.pc # "return" => Open(d, f.name)
  /\ f.call = "prepare" =>
       /\ l.name \in Name
       /\ l.name = f.name \/ Passed(l.name)
       /\ f.receipt # "none" => Open(d, f.name)
  /\ f.call = "schedule" /\ f.pc = "queue" =>
       /\ f.pin # <<>>
       /\ f.pin[1].agreement = claim[f.found].agreement /\ f.pin[1].next < claim[f.found].kr

RunnerInv ==
  /\ ObjectiveInv /\ Versions /\ RunnerShape
  /\ TicketIsReservation /\ Named /\ Submitted /\ Asked /\ Locators
  /\ \A w \in Window : Fits(w, flight[w])
  /\ Held
SoloInv ==
  /\ RunnerInv
  /\ \A w \in Person : Knows(DeviceOf[w], flight[w], locator[w], stored[DeviceOf[w]])
  /\ OneWay

-----------------------------------------------------------------------------
(* Names, and what the contract does under the runner.                     *)

LEMMA NameParts ==
  /\ \A n \in Name : /\ n[1] \in Okr /\ n[2] \in Nat /\ n[3] \in Nat
                     /\ n = <<n[1], n[2], n[3]>>
  /\ NoName \notin Name
  /\ \A o \in Okr, a \in 0 .. MaxVersion, k \in Index : <<o, a, k>> \in Name
  BY ObjectiveAssumption DEF Name, NoName, Index

\* The name of a key result that the objective has.
LEMMA NameOfIs ==
  ASSUME ObjectiveInv, Versions, NEW o \in Okr, NEW k \in Nat, k < Length(o)
  PROVE  /\ NameOf(o, k) \in Name
         /\ NameOf(o, k)[1] = o /\ NameOf(o, k)[2] = okr[o].agreement /\ NameOf(o, k)[3] = k
<1>1. okr[o] \in OkrType
  BY DEF ObjectiveInv, Shape
<1>2. okr[o].agreement \in 0 .. MaxVersion
  BY <1>1, ObjectiveAssumption DEF Versions, OkrType
<1>3. PICK n \in 0 .. MaxMetrics : okr[o].metrics \in [1 .. n -> MetricType]
  BY <1>1 DEF OkrType, MetricsType
<1>4. n \in Nat /\ n <= MaxMetrics /\ DOMAIN okr[o].metrics = 1 .. n
  BY <1>3, ObjectiveAssumption
<1>5. Length(o) = n
  BY <1>4, FS_Interval DEF Length
<1>6. k \in Index
  BY <1>4, <1>5, ObjectiveAssumption DEF Index
<1> QED
  BY <1>2, <1>6, NameParts DEF NameOf

\* Agreements and, under one agreement, present key results only advance; a claim
\* keeps its name.
Later ==
  /\ \A o \in Okr :
       /\ okr'[o].agreement >= okr[o].agreement
       /\ okr'[o].agreement = okr[o].agreement => okr'[o].next >= okr[o].next
  /\ \A c \in Command : claim[c].okr # "none" =>
       /\ claim'[c].okr = claim[c].okr /\ claim'[c].agreement = claim[c].agreement
       /\ claim'[c].kr = claim[c].kr

\* A version that is one higher, with the same or the next agreement.
LEMMA VersionStep ==
  ASSUME Shape, Versions, NEW o \in Okr, NEW new, Changed(o, new),
         DOMAIN new = DOMAIN okr[o],
         \/ new.agreement = okr[o].agreement /\ new.next \in {okr[o].next, okr[o].next + 1}
         \/ new.agreement = okr[o].agreement + 1,
         claim' = claim
  PROVE  Versions' /\ Later
<1>1. okr \in [Okr -> OkrType] /\ okr[o] \in OkrType
  BY DEF Shape
<1>2. PICK r : r = [new EXCEPT !.version = okr[o].version + 1]
  OBVIOUS
<1>3. okr' = [okr EXCEPT ![o] = r] /\ okr[o].version < MaxVersion
  BY <1>2 DEF Changed
<1>4. DOMAIN okr[o] = {"state", "version", "agreement", "spec", "next", "metrics", "agent",
                       "managed", "limit", "live"}
  BY <1>1 DEF OkrType
<1>5. r.version = okr[o].version + 1 /\ r.agreement = new.agreement /\ r.next = new.next
  BY <1>2, <1>4
<1>6. \A p \in Okr : okr'[p] = IF p = o THEN r ELSE okr[p]
  BY <1>1, <1>3
<1>7. \A p \in Okr : okr[p].agreement \in Nat /\ okr[p].version \in Nat /\ okr[p].next \in Nat
  BY <1>1 DEF OkrType
<1>8. Versions'
  BY <1>3, <1>5, <1>6, <1>7, ObjectiveAssumption DEF Versions
<1>9. Later
  BY <1>5, <1>6, <1>7 DEF Later
<1> QED
  BY <1>8, <1>9

\* A step that leaves the objectives alone, and at most settles a claim.
LEMMA ClaimStep ==
  ASSUME Shape, Versions, okr' = okr,
         \/ claim' = claim
         \/ \E c \in Command, spent \in Nat :
              claim' = [claim EXCEPT ![c].spent = spent, ![c].settled = TRUE]
  PROVE  /\ Versions' /\ Later
         /\ \A c \in Command : claim[c].okr = "none" => claim'[c].okr = "none"
<1>1. Versions'
  BY DEF Versions
<1>2. \A o \in Okr : okr[o].agreement \in Nat /\ okr[o].next \in Nat
  BY DEF Shape, OkrType
<1>3. ASSUME NEW c \in Command, NEW spent \in Nat,
             claim' = [claim EXCEPT ![c].spent = spent, ![c].settled = TRUE]
      PROVE  \A e \in Command : /\ claim'[e].okr = claim[e].okr /\ claim'[e].kr = claim[e].kr
                                /\ claim'[e].agreement = claim[e].agreement
  <2>1. PICK r : r = [claim[c] EXCEPT !.spent = spent, !.settled = TRUE]
    OBVIOUS
  <2>2. claim[c] \in ClaimType /\ claim \in [Command -> ClaimType]
    BY DEF Shape
  <2>3. claim' = [claim EXCEPT ![c] = r]
    BY <1>3, <2>1, <2>2
  <2>4. r.okr = claim[c].okr /\ r.kr = claim[c].kr /\ r.agreement = claim[c].agreement
    BY <2>1, <2>2 DEF ClaimType
  <2> QED
    BY <2>2, <2>3, <2>4
<1>4. \A c \in Command : /\ claim'[c].okr = claim[c].okr /\ claim'[c].kr = claim[c].kr
                         /\ claim'[c].agreement = claim[c].agreement
  BY <1>3
<1> QED
  BY <1>1, <1>2, <1>4 DEF Later

\* The steps of the Host and of the Humans.
LEMMA EnvironmentStep ==
  ASSUME ObjectiveInv, Versions, published \subseteq Command, Environment
  PROVE  /\ ObjectiveInv' /\ Versions' /\ Later
         /\ \A c \in Command : claim[c].okr = "none" => claim'[c].okr = "none"
<1> DEFINE Goal == /\ Versions' /\ Later
                   /\ \A c \in Command : claim[c].okr = "none" => claim'[c].okr = "none"
<1>1. Shape /\ Reached \subseteq Command
  BY DEF ObjectiveInv, Reached
<1>2. ASSUME NEW o \in Okr, NEW c \in Command, RequestStop(o, c)
      PROVE  Goal
  BY <1>1, <1>2, ClaimStep DEF RequestStop, Settle
<1>3. ASSUME NEW o \in Okr, NEW c \in Command, BeginCommand(o, c)
      PROVE  Goal
  BY <1>1, <1>3, ClaimStep DEF BeginCommand
<1>4. ASSUME NEW o \in Okr, NEW c \in Command, FinishCommand(o, c)
      PROVE  Goal
  <2>1. claim[c].reserved \in Nat
    BY <1>1 DEF Shape, ClaimType
  <2>2. okr' = okr /\ (claim' = claim \/ \E spent \in 0 .. claim[c].reserved : Settle(o, c, spent))
    BY <1>4 DEF FinishCommand
  <2>3. \/ claim' = claim
        \/ \E e \in Command, spent \in Nat :
              claim' = [claim EXCEPT ![e].spent = spent, ![e].settled = TRUE]
    <3>1. ASSUME NEW spent \in 0 .. claim[c].reserved, Settle(o, c, spent)
          PROVE  \E e \in Command, n \in Nat :
                   claim' = [claim EXCEPT ![e].spent = n, ![e].settled = TRUE]
      <4>1. spent \in Nat
        BY <2>1
      <4> QED
        BY <3>1, <4>1, Zenon DEF Settle
    <3> QED
      BY <2>2, <3>1
  <2> QED
    BY <1>1, <2>2, <2>3, ClaimStep
<1>5. ASSUME NEW o \in Okr, NEW new, Changed(o, new), claim' = claim,
             DOMAIN new = DOMAIN okr[o],
             \/ new.agreement = okr[o].agreement /\ new.next \in {okr[o].next, okr[o].next + 1}
             \/ new.agreement = okr[o].agreement + 1
      PROVE  Goal
  BY <1>1, <1>5, VersionStep
<1>6. \A o \in Okr : okr[o] \in OkrType
  BY <1>1 DEF Shape
<1>7. ASSUME NEW o \in Okr, NEW c \in Command, Observe(o, c)
      PROVE  Goal
  <2>1. PICK met \in BOOLEAN :
          Changed(o, [okr[o] EXCEPT !.metrics[okr[o].next + 1] =
                     [command |-> c, met |-> met, fresh |-> TRUE, verified |-> FALSE]])
    BY <1>7 DEF Observe
  <2>2. PICK new : new = [okr[o] EXCEPT !.metrics[okr[o].next + 1] =
                     [command |-> c, met |-> met, fresh |-> TRUE, verified |-> FALSE]]
    OBVIOUS
  <2>3. DOMAIN new = DOMAIN okr[o] /\ new.agreement = okr[o].agreement /\ new.next = okr[o].next
    BY <1>6, <2>2 DEF OkrType
  <2> QED
    BY <1>5, <1>7, <2>1, <2>2, <2>3 DEF Observe
<1>8. ASSUME NEW o \in Okr, NEW h \in Human, VerifyKr(h, o)
      PROVE  Goal
  <2>1. PICK new : new = [okr[o] EXCEPT !.metrics[okr[o].next + 1].verified = TRUE,
                                        !.next = okr[o].next + 1]
    OBVIOUS
  <2>2. DOMAIN new = DOMAIN okr[o] /\ new.agreement = okr[o].agreement /\ new.next = okr[o].next + 1
    BY <1>6, <2>1 DEF OkrType
  <2> QED
    BY <1>5, <1>8, <2>1, <2>2 DEF VerifyKr
<1>9. ASSUME NEW o \in Okr, NEW h \in Human, Pause(h, o)
      PROVE  Goal
  <2>1. PICK new : new = [okr[o] EXCEPT !.state = "paused", !.agreement = @ + 1]
    OBVIOUS
  <2>2. DOMAIN new = DOMAIN okr[o] /\ new.agreement = okr[o].agreement + 1
    BY <1>6, <2>1 DEF OkrType
  <2> QED
    BY <1>5, <1>9, <2>1, <2>2 DEF Pause
<1>10. ASSUME NEW o \in Okr, NEW h \in Human, ConfirmOkr(h, o)
      PROVE  Goal
  <2>1. PICK limit \in Limit : Activated(o, "bounded", managed.version + 1, limit)
    BY <1>10 DEF ConfirmOkr
  <2>2. PICK new : new = [okr[o] EXCEPT !.state = "active", !.agreement = @ + 1, !.agent = "bounded",
                               !.managed = managed.version + 1, !.limit = limit, !.live = TRUE]
    OBVIOUS
  <2>3. DOMAIN new = DOMAIN okr[o] /\ new.agreement = okr[o].agreement + 1
    BY <1>6, <2>2 DEF OkrType
  <2> QED
    BY <1>5, <1>10, <2>1, <2>2, <2>3 DEF ConfirmOkr, Activated
<1>11. ASSUME NEW o \in Okr, NEW h \in Human, Read(h, o) \/ IssueCapability(h, o) \/ HostReview(o)
      PROVE  Goal
  BY <1>1, <1>11, ClaimStep DEF Read, IssueCapability, HostReview
<1>12. ASSUME NEW o \in Okr, HostReview(o)
      PROVE  Goal
  BY <1>1, <1>12, ClaimStep DEF HostReview
<1> HIDE DEF Goal
<1>13. Goal
  BY <1>1, <1>2, <1>3, <1>4, <1>7, <1>8, <1>9, <1>10, <1>11, <1>12 DEF Environment
<1>14. Next
  BY <1>1 DEF Environment, Next, Agreements, Runs, Measurements
<1>15. ObjectiveInv'
  BY <1>14, NextInv
<1> QED
  BY <1>13, <1>15 DEF Goal

-----------------------------------------------------------------------------
(* What the runner's invariant is kept by when the contract advances.      *)

Triple == Okr \X Nat \X Nat

\* Names are triples, and so is the name in a claim.
LEMMA Triples ==
  ASSUME RunnerInv
  PROVE  /\ Name \subseteq Triple
         /\ \A c \in Command : claim[c].okr # "none" => NameIn(c) \in Triple
         /\ \A n \in Name : ticket[n] # NoCommand =>
              ticket[n] \in Command /\ claim[ticket[n]].okr # "none"
<1>1. Name \subseteq Triple
  BY ObjectiveAssumption DEF Name, Triple, Index
<1>2. \A c \in Command : claim[c] \in ClaimType
  BY DEF RunnerInv, ObjectiveInv, Shape
<1>3. \A c \in Command : claim[c].okr # "none" => NameIn(c) \in Triple
  BY <1>2 DEF NameIn, Triple, ClaimType
<1>4. \A n \in Name : ticket[n] # NoCommand => ticket[n] \in Command
  BY DEF RunnerInv, RunnerShape, CommandOrNone
<1>5. \A n \in Name : ticket[n] # NoCommand => claim[ticket[n]].okr = n[1]
  BY DEF RunnerInv, TicketIsReservation, NameIn
<1> QED
  BY <1>1, <1>3, <1>4, <1>5, NameParts, ObjectiveAssumption

\* Once passed, a name is passed for good; and it never falls ahead again.
LEMMA PassedForGood ==
  ASSUME Shape, Shape', Later
  PROVE  \A n \in Triple : (Passed(n) => Passed(n)') /\ (~Ahead(n) => ~Ahead(n)')
<1> TAKE n \in Triple
<1>1. n[1] \in Okr /\ n[2] \in Nat /\ n[3] \in Nat
  BY DEF Triple
<1>2. /\ okr[n[1]].agreement \in Nat /\ okr[n[1]].next \in Nat
      /\ okr'[n[1]].agreement \in Nat /\ okr'[n[1]].next \in Nat
  BY <1>1 DEF Shape, OkrType
<1> QED
  BY <1>1, <1>2 DEF Later, Passed, Ahead

\* What a dialog knows is kept when the contract advances.
LEMMA KnowsKept ==
  ASSUME RunnerInv, Shape', Later, NEW d \in Device, NEW w \in Window,
         NEW f, NEW l \in LocatorType, NEW s \in [Okr -> LocatorType],
         Fits(w, f), f \in FlightType,
         Placed(l), Placed(f.saved), \A o \in Okr : Placed(s[o]),
         \A n \in Name : Open(d, n) => Open(d, n)',
         Knows(d, f, l, s)
  PROVE  Knows(d, f, l, s)'
<1>1. Shape
  BY DEF RunnerInv, ObjectiveInv
<1>2. \A n \in Name : Passed(n) => Passed(n)'
  BY <1>1, PassedForGood, Triples
<1>3. ASSUME NEW m \in LocatorType, Placed(m), Clear(d, m)
      PROVE  Clear(d, m)'
  <2>1. m.attempted = "no" => m.name \in Name
    BY <1>3 DEF Placed, LocatorType, Names
  <2> QED
    BY <1>3, <2>1 DEF Clear
<1>4. f.saved \in LocatorType
  BY DEF FlightType
<1>5. Clear(d, l)' /\ Clear(d, f.saved)' /\ \A o \in Okr : Clear(d, s[o])'
  BY <1>3, <1>4 DEF Knows
<1>6. f.call # "none" => f.name \in Name
  BY DEF Fits
<1>7. ASSUME f.call = "schedule", f.pc = "queue"
      PROVE  /\ f.pin # <<>>
             /\ f.pin[1].agreement = claim'[f.found].agreement
             /\ f.pin[1].next < claim'[f.found].kr
  <2>1. f.found = ticket[f.name] /\ ticket[f.name] # NoCommand /\ f.name \in Name
    BY <1>7 DEF Fits
  <2>2. f.found \in Command /\ claim[f.found].okr # "none"
    BY <2>1, Triples
  <2>3. claim'[f.found].agreement = claim[f.found].agreement /\ claim'[f.found].kr = claim[f.found].kr
    BY <2>2 DEF Later
  <2> QED
    BY <1>7, <2>3 DEF Knows
<1>8. ASSUME f.call = "send"
      PROVE  /\ l.name = f.name
             /\ l.attempted = "yes"
             /\ s[f.name[1]] = l
             /\ f.pc # "return" => Open(d, f.name)'
  BY <1>6, <1>8 DEF Knows
<1>9. ASSUME f.call = "prepare"
      PROVE  /\ l.name \in Name
             /\ l.name = f.name \/ Passed(l.name)'
             /\ f.receipt # "none" => Open(d, f.name)'
  <2>1. /\ l.name \in Name
        /\ l.name = f.name \/ Passed(l.name)
        /\ f.receipt # "none" => Open(d, f.name)
    BY <1>9 DEF Knows
  <2> QED
    BY <1>2, <1>6, <1>9, <2>1
<1>10. f.pc # "restore" => f.saved = NoLocator
  BY DEF Knows
<1> QED
  BY <1>5, <1>7, <1>8, <1>9, <1>10 DEF Knows

\* A step that leaves the dialogs alone, and closes no name to a device.
LEMMA SoloKept ==
  ASSUME RunnerInv', SoloInv, OneWay', Later, UNCHANGED <<flight, locator, stored>>,
         \A d \in Device, n \in Name : Open(d, n) => Open(d, n)'
  PROVE  SoloInv'
<1>1. ASSUME NEW w \in Person
      PROVE  Knows(DeviceOf[w], flight[w], locator[w], stored[DeviceOf[w]])'
  <2>1. PICK d \in Device : d = DeviceOf[w]
    BY RunnerAssumption DEF Window
  <2>2. RunnerInv /\ Shape'
    BY DEF SoloInv, RunnerInv, ObjectiveInv
  <2>3. /\ flight[w] \in FlightType /\ locator[w] \in LocatorType
        /\ stored[d] \in [Okr -> LocatorType] /\ w \in Window
    BY <2>2 DEF RunnerInv, RunnerShape, Window
  <2>4. /\ Placed(locator[w]) /\ Placed(flight[w].saved)
        /\ \A o \in Okr : Placed(stored[d][o])
    BY <2>2, <2>3 DEF RunnerInv, Locators
  <2>5. Fits(w, flight[w])
    BY <2>2, <2>3 DEF RunnerInv
  <2>6. Knows(d, flight[w], locator[w], stored[d])
    BY <2>1 DEF SoloInv
  <2>7. PICK f, l, s : f = flight[w] /\ l = locator[w] /\ s = stored[d]
    OBVIOUS
  <2>8. Knows(d, f, l, s)'
    BY <2>2, <2>3, <2>4, <2>5, <2>6, <2>7, KnowsKept
  <2>9. f = flight'[w] /\ l = locator'[w] /\ s = stored'[DeviceOf[w]]
    BY <2>1, <2>7
  <2> QED
    BY <2>1, <2>8, <2>9 DEF Knows
<1> QED
  BY <1>1 DEF SoloInv

LEMMA EnvironmentInv ==
  ASSUME RunnerInv, Environment
  PROVE  RunnerInv' /\ (SoloInv => SoloInv')
<1>1. /\ ObjectiveInv' /\ Versions' /\ Later
      /\ \A c \in Command : claim[c].okr = "none" => claim'[c].okr = "none"
  BY EnvironmentStep DEF RunnerInv, RunnerShape
<1>2. UNCHANGED <<records, local>>
  BY DEF Environment
<1>3. Shape /\ Shape'
  BY <1>1 DEF RunnerInv, ObjectiveInv
<1>4. \A n \in Triple : (Passed(n) => Passed(n)') /\ (~Ahead(n) => ~Ahead(n)')
  BY <1>1, <1>3, PassedForGood
<1>5. /\ ticket' = ticket /\ journal' = journal /\ dispatch' = dispatch /\ pool' = pool
      /\ signed' = signed /\ published' = published /\ sent' = sent
      /\ claimed' = claimed /\ stored' = stored /\ locator' = locator /\ view' = view
      /\ unknown' = unknown /\ flight' = flight
  BY <1>2 DEF records, local
<1>6. RunnerShape'
  BY <1>5 DEF RunnerInv, RunnerShape
<1>7. \A c \in Command : claim[c].okr # "none" => NameIn(c)' = NameIn(c) /\ claim'[c].okr # "none"
  BY <1>1 DEF Later, NameIn
<1>8. TicketIsReservation'
  <2>1. \A c \in Command : claim'[c].okr # "none" => ticket[NameIn(c)'] = c
    BY <1>1, <1>7 DEF RunnerInv, TicketIsReservation
  <2>2. \A n \in Name, c \in Command : ticket[n] = c => NameIn(c)' = n
    BY <1>7, Triples, ObjectiveAssumption DEF RunnerInv, TicketIsReservation
  <2> QED
    BY <1>5, <2>1, <2>2, Triples DEF TicketIsReservation, NameIn
<1>9. Submitted' /\ Named'
  BY <1>1, <1>5, <1>7 DEF RunnerInv, Submitted, Named
<1>10. Asked'
  <2> SUFFICES ASSUME NEW d \in Device, NEW c \in Command
      PROVE  /\ Done(d, c) => signed[c] = d /\ claim'[c].okr # "none"
             /\ sent[d][c] > 0 => c \in claimed[d] /\ ~Ahead(NameIn(c))'
             /\ dispatch[d][c] # "none" => \E w \in Person : DeviceOf[w] = d
    BY <1>5 DEF Asked, Done
  <2>1. Done(d, c) => signed[c] = d /\ claim[c].okr # "none"
    BY DEF RunnerInv, Asked
  <2>2. ASSUME sent[d][c] > 0
        PROVE  c \in claimed[d] /\ ~Ahead(NameIn(c))'
    <3>1. claim[c].okr # "none" /\ c \in claimed[d] /\ ~Ahead(NameIn(c))
      BY <2>1, <2>2 DEF RunnerInv, Asked, Done
    <3>2. PICK n \in Triple : n = NameIn(c) /\ n = NameIn(c)'
      BY <1>7, <3>1, Triples
    <3>3. ~Ahead(n)'
      BY <1>4, <3>1, <3>2
    <3>4. ~Ahead(NameIn(c))'
      BY <3>2, <3>3 DEF Ahead
    <3> QED
      BY <3>1, <3>4
  <2>3. dispatch[d][c] # "none" => \E w \in Person : DeviceOf[w] = d
    BY DEF RunnerInv, Asked
  <2> QED
    BY <1>7, <2>1, <2>2, <2>3
<1>11. ASSUME NEW l \in LocatorType, Placed(l)
       PROVE  Placed(l)'
  BY <1>4, <1>11, Triples DEF Placed, LocatorType, Names
<1>12. /\ \A w \in Person : locator[w] \in LocatorType /\ Placed(locator[w])
       /\ \A d \in Device, o \in Okr : stored[d][o] \in LocatorType /\ Placed(stored[d][o])
       /\ \A w \in Window : flight[w].saved \in LocatorType /\ Placed(flight[w].saved)
  BY DEF RunnerInv, RunnerShape, Locators, FlightType
<1>13. Locators'
  BY <1>5, <1>11, <1>12 DEF RunnerInv, Locators
<1>14. \A w \in Window : Fits(w, flight[w])'
  BY <1>5 DEF RunnerInv, Fits
<1>15. Held'
  BY <1>5 DEF RunnerInv, Held
<1>16. RunnerInv'
  BY <1>1, <1>6, <1>8, <1>9, <1>10, <1>13, <1>14, <1>15 DEF RunnerInv
<1>17. ASSUME SoloInv
       PROVE  SoloInv'
  <2>1. \A d \in Device, n \in Name : Open(d, n) => Open(d, n)'
    BY <1>4, <1>5, Triples DEF Open, Done
  <2>2. OneWay'
    BY <1>5, <1>17 DEF SoloInv, OneWay
  <2> QED
    BY <1>1, <1>5, <1>16, <1>17, <2>1, <2>2, SoloKept
<1> QED
  BY <1>16, <1>17

-----------------------------------------------------------------------------
(* The transactions of the runner.                                         *)

\* A ticket is saved and its command reserved.
LEMMA TicketSaved ==
  ASSUME RunnerInv, NEW tx \in pool, tx.kind = "ticket",
         Vacant(tx.name), tx.name[2] = okr[tx.name[1]].agreement,
         PrepareCommand(tx.name[1], tx.command, tx.name[3]),
         ticket' = [ticket EXCEPT ![tx.name] = tx.command],
         journal' = [journal EXCEPT ![tx.device][tx.name] = "confirmed"],
         pool' = pool \ {tx},
         UNCHANGED <<dispatch, signed, published, sent, local>>
  PROVE  RunnerInv' /\ (SoloInv => SoloInv')
<1>1. PICK n \in Name, c \in Command, d \in Device :
        n = tx.name /\ c = tx.command /\ d = tx.device
  BY DEF RunnerInv, RunnerShape, TxType
<1>2. /\ dispatch' = dispatch /\ signed' = signed /\ published' = published /\ sent' = sent
      /\ claimed' = claimed /\ stored' = stored /\ locator' = locator /\ view' = view
      /\ unknown' = unknown /\ flight' = flight
  BY DEF local
<1>3. n[1] \in Okr /\ n[3] \in Index /\ n = <<n[1], n[2], n[3]>>
  BY DEF Name
<1>4. PrepareCommand(n[1], c, n[3]) /\ ticket[n] = NoCommand /\ n[2] = okr[n[1]].agreement
  BY <1>1 DEF Vacant
<1>5. Next
  BY <1>3, <1>4 DEF Next, Runs
<1>6. ObjectiveInv'
  BY <1>5, NextInv DEF RunnerInv
<1>7. Shape /\ Shape'
  BY <1>6 DEF RunnerInv, ObjectiveInv
<1>8. okr' = okr /\ run[c] = "none"
  BY <1>4 DEF PrepareCommand
<1>9. claim[c].okr = "none"
  BY <1>8 DEF RunnerInv, ObjectiveInv, Claims
<1>10. /\ \A e \in Command : e # c => claim'[e] = claim[e]
       /\ claim'[c].okr = n[1] /\ claim'[c].agreement = n[2] /\ claim'[c].kr = n[3]
  BY <1>4, <1>7 DEF PrepareCommand, Shape
<1>11. Versions'
  BY <1>8 DEF RunnerInv, Versions
<1>12. Later
  BY <1>7, <1>8, <1>9, <1>10 DEF Later, Shape, OkrType
<1>13. /\ \A e \in Command : e # c => NameIn(e)' = NameIn(e)
       /\ NameIn(c)' = n
  BY <1>3, <1>10 DEF NameIn
<1>14. /\ ticket' \in [Name -> CommandOrNone]
       /\ ticket'[n] = c /\ \A m \in Name : m # n => ticket'[m] = ticket[m]
  BY <1>1 DEF RunnerInv, RunnerShape, CommandOrNone
<1>15. /\ journal' \in [Device -> [Name -> Request]]
       /\ \A e \in Device, m \in Name : journal[e][m] # "none" => journal'[e][m] # "none"
       /\ journal'[d][n] # "none"
  <2>1. PICK row : row = [journal[d] EXCEPT ![n] = "confirmed"]
    OBVIOUS
  <2>2. journal \in [Device -> [Name -> Request]] /\ journal[d] \in [Name -> Request]
    BY DEF RunnerInv, RunnerShape
  <2>3. journal' = [journal EXCEPT ![d] = row]
    BY <1>1, <2>1, <2>2
  <2>4. /\ row \in [Name -> Request] /\ row[n] = "confirmed"
        /\ \A m \in Name : m # n => row[m] = journal[d][m]
    BY <2>1, <2>2 DEF Request
  <2>5. /\ journal' \in [Device -> [Name -> Request]] /\ journal'[d] = row
        /\ \A e \in Device : e # d => journal'[e] = journal[e]
    BY <2>2, <2>3, <2>4
  <2> QED
    BY <2>4, <2>5
<1>16. RunnerShape'
  BY <1>2, <1>14, <1>15 DEF RunnerInv, RunnerShape
<1>17. Named'
  BY <1>10, <1>13 DEF RunnerInv, Named
<1>18. TicketIsReservation'
  <2>1. \A e \in Command : claim'[e].okr # "none" => ticket'[NameIn(e)'] = e
    <3> TAKE e \in Command
    <3>1. CASE e = c
      BY <1>13, <1>14, <3>1
    <3>2. CASE e # c
      <4>1. claim[e].okr # "none" => NameIn(e) \in Name /\ ticket[NameIn(e)] = e
        BY DEF RunnerInv, Named, TicketIsReservation
      <4> QED
        BY <1>4, <1>10, <1>13, <1>14, <3>2, <4>1, ObjectiveAssumption
    <3> QED
      BY <3>1, <3>2
  <2>2. \A m \in Name, e \in Command : ticket'[m] = e => NameIn(e)' = m
    <3> TAKE m \in Name, e \in Command
    <3>1. CASE m = n
      BY <1>13, <1>14, <3>1
    <3>2. CASE m # n
      <4>1. ticket[m] = e => claim[e].okr # "none" /\ NameIn(e) = m
        BY Triples, ObjectiveAssumption DEF RunnerInv, TicketIsReservation
      <4> QED
        BY <1>9, <1>13, <1>14, <3>2, <4>1
    <3> QED
      BY <3>1, <3>2
  <2> QED
    BY <1>14, <2>1, <2>2 DEF TicketIsReservation, NameIn, CommandOrNone
<1>19. Submitted'
  <2>1. signed[c] = d
    BY <1>1 DEF RunnerInv, Submitted
  <2>2. \A t \in pool' : t \in TxType /\ t \in pool
    BY DEF RunnerInv, RunnerShape
  <2>3. \A t \in pool' :
          /\ t.kind = "ticket" => signed[t.command] = t.device /\ journal'[t.device][t.name] # "none"
          /\ t.kind = "delivery" => dispatch[t.device][t.command] # "none"
    BY <1>15, <2>2 DEF RunnerInv, Submitted, TxType
  <2>4. \A m \in Name : ticket'[m] # NoCommand =>
          signed[ticket'[m]] \in Device /\ journal'[signed[ticket'[m]]][m] # "none"
    <3> TAKE m \in Name
    <3>1. CASE m = n
      BY <1>14, <1>15, <2>1, <3>1
    <3>2. CASE m # n
      BY <1>14, <1>15, <3>2 DEF RunnerInv, Submitted
    <3> QED
      BY <3>1, <3>2
  <2> QED
    BY <1>2, <2>3, <2>4 DEF Submitted
<1>20. Asked'
  <2> SUFFICES ASSUME NEW e \in Device, NEW x \in Command
      PROVE  /\ Done(e, x) => signed[x] = e /\ claim'[x].okr # "none"
             /\ sent[e][x] > 0 => x \in claimed[e] /\ ~Ahead(NameIn(x))'
             /\ dispatch[e][x] # "none" => \E w \in Person : DeviceOf[w] = e
    BY <1>2 DEF Asked, Done
  <2>1. /\ Done(e, x) => signed[x] = e /\ claim[x].okr # "none"
        /\ sent[e][x] > 0 => x \in claimed[e] /\ ~Ahead(NameIn(x)) /\ Done(e, x)
        /\ dispatch[e][x] # "none" => \E w \in Person : DeviceOf[w] = e
    BY DEF RunnerInv, Asked, Done
  <2>2. claim[x].okr # "none" => claim'[x].okr # "none" /\ NameIn(x)' = NameIn(x)
    BY <1>9, <1>10, <1>13
  <2>3. claim[x].okr # "none" /\ ~Ahead(NameIn(x)) => ~Ahead(NameIn(x))'
    <3>1. PICK m : m = NameIn(x)
      OBVIOUS
    <3>2. Ahead(m)' <=> Ahead(m)
      BY <1>8 DEF Ahead
    <3>3. ASSUME NameIn(x)' = m, ~Ahead(m)'
          PROVE  ~Ahead(NameIn(x))'
      BY <3>3 DEF Ahead
    <3> QED
      BY <2>2, <3>1, <3>2, <3>3
  <2> QED
    BY <2>1, <2>2, <2>3
<1>21. Locators'
  BY <1>2, <1>8 DEF RunnerInv, Locators, Placed, Ahead
<1>22. \A w \in Window : Fits(w, flight[w])'
  <2> TAKE w \in Window
  <2>1. Fits(w, flight[w]) /\ flight[w] \in FlightType
    BY DEF RunnerInv, RunnerShape
  <2>2. PICK f : f = flight[w] /\ f = flight'[w]
    BY <1>2
  <2>3. Fits(w, f)'
    <3>1. f.pc = "ticket" => ticket'[f.name] # NoCommand
      BY <1>14, <2>1, <2>2, ObjectiveAssumption DEF Fits
    <3>2. f.pc \in {"release", "send", "queue"} => f.found = ticket'[f.name]
      BY <1>4, <1>14, <2>1, <2>2 DEF Fits
    <3> QED
      BY <1>2, <2>1, <2>2, <3>1, <3>2 DEF Fits
  <2> QED
    BY <2>2, <2>3 DEF Fits
<1>23. Held'
  BY <1>2 DEF RunnerInv, Held
<1>24. RunnerInv'
  BY <1>6, <1>11, <1>16, <1>17, <1>18, <1>19, <1>20, <1>21, <1>22, <1>23 DEF RunnerInv
<1>25. ASSUME SoloInv
       PROVE  SoloInv'
  <2>1. ASSUME NEW e \in Device, NEW m \in Name, Open(e, m)
        PROVE  Open(e, m)'
    <3>1. ~Done(e, c)
      BY <1>9 DEF RunnerInv, Asked
    <3>2. ~Done(e, c)' /\ \A x : Done(e, x)' <=> Done(e, x)
      BY <1>2, <3>1 DEF Done
    <3> QED
      BY <1>8, <1>14, <2>1, <3>1, <3>2 DEF Open, Passed, Done
  <2>2. OneWay'
    BY <1>2, <1>25 DEF SoloInv, OneWay
  <2> QED
    BY <1>2, <1>12, <1>24, <1>25, <2>1, <2>2, SoloKept
<1> QED
  BY <1>24, <1>25

\* What only concerns the records of requests disturbs nothing.
LEMMA Quiet ==
  ASSUME RunnerInv, UNCHANGED <<vars, ticket, signed, sent, local>>, RunnerShape', Submitted',
         \A d \in Device, c \in Command : dispatch'[d][c] = "none" <=> dispatch[d][c] = "none"
  PROVE  RunnerInv' /\ (SoloInv => SoloInv')
<1>1. /\ ticket' = ticket /\ signed' = signed /\ sent' = sent
      /\ claimed' = claimed /\ stored' = stored /\ locator' = locator /\ view' = view
      /\ unknown' = unknown /\ flight' = flight /\ UNCHANGED vars
  BY DEF local
<1>2. okr' = okr /\ claim' = claim
  BY <1>1 DEF vars
<1>3. ObjectiveInv'
  BY <1>1, NextInv DEF RunnerInv
<1>4. \A d \in Device, c \in Command : Done(d, c)' <=> Done(d, c)
  BY <1>1 DEF Done
<1>5. Asked'
  BY <1>1, <1>2, <1>4 DEF RunnerInv, Asked, Ahead, NameIn
<1>6. /\ Versions' /\ TicketIsReservation' /\ Named' /\ Locators' /\ Held'
      /\ \A w \in Window : Fits(w, flight[w])'
  <2>1. Versions' /\ TicketIsReservation' /\ Named'
    BY <1>1, <1>2 DEF RunnerInv, Versions, TicketIsReservation, Named, NameIn
  <2>2. Locators'
    BY <1>1, <1>2 DEF RunnerInv, Locators, Placed, Ahead
  <2>3. Held'
    BY <1>1 DEF RunnerInv, Held
  <2>4. \A w \in Window : Fits(w, flight[w])'
    BY <1>1 DEF RunnerInv, Fits
  <2> QED
    BY <2>1, <2>2, <2>3, <2>4
<1>7. RunnerInv'
  BY <1>3, <1>5, <1>6 DEF RunnerInv
<1>8. ASSUME SoloInv
      PROVE  SoloInv'
  <2>1. ASSUME NEW e \in Device, NEW m \in Name, Open(e, m)
        PROVE  Open(e, m)'
    <3>1. Passed(m)' <=> Passed(m)
      BY <1>2 DEF Passed
    <3>2. CASE ticket[m] = NoCommand
      BY <1>1, <3>2 DEF Open
    <3>3. CASE ticket[m] # NoCommand
      <4>1. PICK c \in Command : c = ticket[m] /\ c = ticket'[m]
        BY <1>1, <3>3, Triples
      <4>2. (~Done(e, c))' <=> ~Done(e, c)
        BY <1>4
      <4> QED
        BY <2>1, <3>1, <3>3, <4>1, <4>2 DEF Open, Done
    <3> QED
      BY <3>2, <3>3
  <2>2. OneWay'
    BY <1>1, <1>8 DEF SoloInv, OneWay
  <2>3. Later
    BY <1>2 DEF Later, RunnerInv, ObjectiveInv, Shape, OkrType
  <2> QED
    BY <1>1, <1>7, <1>8, <2>1, <2>2, <2>3, SoloKept
<1> QED
  BY <1>7, <1>8

\* One entry of a table of a device changes.
LEMMA EntryChanged ==
  ASSUME NEW K, NEW V, NEW t \in [Device -> [K -> V]], NEW d \in Device, NEW k \in K, NEW v \in V,
         NEW u, u = [t EXCEPT ![d][k] = v]
  PROVE  /\ u \in [Device -> [K -> V]]
         /\ u[d][k] = v
         /\ \A e \in Device, m \in K : e # d \/ m # k => u[e][m] = t[e][m]
<1>1. PICK row : row = [t[d] EXCEPT ![k] = v]
  OBVIOUS
<1>2. t[d] \in [K -> V] /\ u = [t EXCEPT ![d] = row]
  BY <1>1
<1>3. row \in [K -> V] /\ row[k] = v /\ \A m \in K : m # k => row[m] = t[d][m]
  BY <1>1, <1>2
<1>4. u \in [Device -> [K -> V]] /\ u[d] = row /\ \A e \in Device : e # d => u[e] = t[e]
  BY <1>2, <1>3
<1> QED
  BY <1>3, <1>4

LEMMA ExecuteTicketInv ==
  ASSUME RunnerInv, NEW tx \in pool, ExecuteTicket(tx)
  PROVE  RunnerInv' /\ (SoloInv => SoloInv')
<1>1. /\ tx.kind = "ticket" /\ pool' = pool \ {tx}
      /\ UNCHANGED <<dispatch, signed, published, sent, local>>
  BY DEF ExecuteTicket
<1>2. CASE /\ Vacant(tx.name) /\ tx.name[2] = okr[tx.name[1]].agreement
           /\ PrepareCommand(tx.name[1], tx.command, tx.name[3])
           /\ ticket' = [ticket EXCEPT ![tx.name] = tx.command]
           /\ journal' = [journal EXCEPT ![tx.device][tx.name] = "confirmed"]
  BY <1>1, <1>2, TicketSaved
<1>3. CASE /\ journal' = [journal EXCEPT ![tx.device][tx.name] = "failed"]
           /\ UNCHANGED <<vars, ticket>>
  <2>1. /\ journal \in [Device -> [Name -> Request]] /\ tx.device \in Device /\ tx.name \in Name
        /\ "failed" \in Request
    BY DEF RunnerInv, RunnerShape, TxType, Request
  <2>2. /\ journal' \in [Device -> [Name -> Request]]
        /\ journal'[tx.device][tx.name] = "failed"
        /\ \A e \in Device, m \in Name : e # tx.device \/ m # tx.name => journal'[e][m] = journal[e][m]
    BY <1>3, <2>1, EntryChanged
  <2>3. \A e \in Device, m \in Name : journal[e][m] # "none" => journal'[e][m] # "none"
    BY <2>2
  <2>4. RunnerShape'
    BY <1>1, <1>3, <2>2 DEF RunnerInv, RunnerShape, local
  <2>5. Submitted'
    <3>1. \A t \in pool' : t \in TxType /\ t \in pool
      BY <1>1 DEF RunnerInv, RunnerShape
    <3>2. \A t \in pool' :
            /\ t.kind = "ticket" => signed[t.command] = t.device /\ journal'[t.device][t.name] # "none"
            /\ t.kind = "delivery" => dispatch[t.device][t.command] # "none"
      BY <2>3, <3>1 DEF RunnerInv, Submitted, TxType
    <3>3. \A m \in Name : ticket[m] # NoCommand =>
            signed[ticket[m]] \in Device /\ journal'[signed[ticket[m]]][m] # "none"
      BY <2>3 DEF RunnerInv, Submitted
    <3> QED
      BY <1>1, <1>3, <3>2, <3>3 DEF Submitted
  <2> QED
    BY <1>1, <1>3, <2>4, <2>5, Quiet
<1> QED
  BY <1>2, <1>3 DEF ExecuteTicket

LEMMA ExecuteDeliveryInv ==
  ASSUME RunnerInv, NEW tx \in pool, ExecuteDelivery(tx)
  PROVE  RunnerInv' /\ (SoloInv => SoloInv')
<1>1. UNCHANGED <<vars, ticket, journal, signed, sent, local>> /\ pool' = pool \ {tx}
  BY DEF ExecuteDelivery
<1>2. PICK v \in Request : v # "none" /\ dispatch' = [dispatch EXCEPT ![tx.device][tx.command] = v]
  BY DEF ExecuteDelivery, Request
<1>3. dispatch \in [Device -> [Command -> Request]] /\ tx.device \in Device /\ tx.command \in Command
  BY DEF RunnerInv, RunnerShape, TxType
<1>4. /\ dispatch' \in [Device -> [Command -> Request]]
      /\ dispatch'[tx.device][tx.command] = v
      /\ \A e \in Device, c \in Command :
           e # tx.device \/ c # tx.command => dispatch'[e][c] = dispatch[e][c]
  BY <1>2, <1>3, EntryChanged
<1>5. \A e \in Device, c \in Command : dispatch'[e][c] = "none" <=> dispatch[e][c] = "none"
  <2>1. dispatch[tx.device][tx.command] # "none"
    BY DEF ExecuteDelivery, RunnerInv, Submitted
  <2> QED
    BY <1>2, <1>4, <2>1
<1>6. published' \subseteq Command
  BY <1>3 DEF ExecuteDelivery, RunnerInv, RunnerShape
<1>7. RunnerShape'
  BY <1>1, <1>4, <1>6 DEF RunnerInv, RunnerShape, local
<1>8. Submitted'
  <2>1. \A t \in pool' : t \in pool /\ t \in TxType
    BY <1>1 DEF RunnerInv, RunnerShape
  <2> QED
    BY <1>1, <1>5, <2>1 DEF RunnerInv, Submitted, TxType
<1> QED
  BY <1>1, <1>5, <1>7, <1>8, Quiet

-----------------------------------------------------------------------------
(* The steps of a window.                                                  *)

\* A place for the locator of objective o.
Belongs(o, l) == Placed(l) /\ l.name \in {n \in Name : n[1] = o} \cup {NoName}

\* The flight of one window moves, and with it its locator and its device's store.
LEMMA FlightMoved ==
  ASSUME RunnerInv, NEW w \in Window, NEW f \in FlightType,
         flight' = [flight EXCEPT ![w] = f],
         UNCHANGED <<vars, records, claimed>>,
         Fits(w, f), Placed(f.saved),
         Holding(f) => Holding(flight[w]) /\ f.input.expect = flight[w].input.expect,
         NEW d \in Device, d = DeviceOf[w],
         NEW l, NEW s \in [Okr -> LocatorType],
         w \in Person => l \in LocatorType /\ Placed(l) /\ locator' = [locator EXCEPT ![w] = l],
         w \in Person => Located(f, l),
         w \notin Person => locator' = locator,
         stored' = [stored EXCEPT ![d] = s], \A o \in Okr : Belongs(o, s[o]),
         view' \in [Person -> CommandOrNone]
  PROVE  RunnerInv'
<1>1. /\ ticket' = ticket /\ journal' = journal /\ dispatch' = dispatch /\ pool' = pool
      /\ signed' = signed /\ published' = published /\ sent' = sent /\ claimed' = claimed
      /\ UNCHANGED vars
  BY DEF records
<1>2. okr' = okr /\ claim' = claim
  BY <1>1 DEF vars
<1>3. ObjectiveInv'
  BY <1>1, NextInv DEF RunnerInv
<1>4. /\ flight \in [Window -> FlightType] /\ locator \in [Person -> LocatorType]
      /\ stored \in [Device -> [Okr -> LocatorType]]
  BY DEF RunnerInv, RunnerShape
<1>5. /\ flight' \in [Window -> FlightType] /\ flight'[w] = f
      /\ \A v \in Window : v # w => flight'[v] = flight[v]
  BY <1>4
<1>6. /\ locator' \in [Person -> LocatorType]
      /\ \A p \in Person : Placed(locator'[p])
  BY <1>4 DEF RunnerInv, Locators
<1>7. /\ stored' \in [Device -> [Okr -> LocatorType]]
      /\ \A e \in Device, o \in Okr : Belongs(o, stored'[e][o])
  BY <1>4 DEF RunnerInv, Locators, Belongs
<1>8. RunnerShape'
  BY <1>1, <1>5, <1>6, <1>7 DEF RunnerInv, RunnerShape
<1>9. Versions' /\ TicketIsReservation' /\ Named' /\ Submitted'
  BY <1>1, <1>2 DEF RunnerInv, Versions, TicketIsReservation, Named, NameIn, Submitted
<1>10. Asked'
  <2>1. \A e \in Device, c \in Command : Done(e, c)' <=> Done(e, c)
    BY <1>1 DEF Done
  <2>2. \A c \in Command : Ahead(NameIn(c))' <=> Ahead(NameIn(c))
    BY <1>2 DEF NameIn, Ahead
  <2> QED
    BY <1>1, <1>2, <2>1, <2>2 DEF RunnerInv, Asked
<1>11. Locators'
  <2>1. \A v \in Window : Placed(flight'[v].saved)
    BY <1>5 DEF RunnerInv, Locators
  <2>2. \A p \in Person : Located(flight'[p], locator'[p])
    BY <1>4, <1>5 DEF RunnerInv, Locators, Window
  <2>3. \A p \in Person : Placed(locator[p])'
    BY <1>2, <1>6 DEF Placed, Ahead
  <2>4. \A e \in Device, o \in Okr : Placed(stored[e][o])'
    BY <1>2, <1>7 DEF Belongs, Placed, Ahead
  <2>5. \A e \in Device, o \in Okr :
          stored'[e][o].name \in {n \in Name : n[1] = o} \cup {NoName}
    BY <1>7 DEF Belongs
  <2>6. \A v \in Window : Placed(flight[v].saved)'
    BY <1>2, <2>1 DEF Placed, Ahead
  <2>7. \A p \in Person : Located(flight[p], locator[p])'
    BY <2>2 DEF Located
  <2> QED
    BY <2>3, <2>4, <2>5, <2>6, <2>7 DEF Locators
<1>12. \A v \in Window : Fits(v, flight[v])'
  <2> TAKE v \in Window
  <2>1. Fits(v, flight'[v])
    BY <1>5 DEF RunnerInv
  <2> QED
    BY <1>1, <2>1 DEF Fits
<1>13. Held'
  <2>1. \A v \in Window : Holding(flight'[v]) =>
          Holding(flight[v]) /\ flight'[v].input.expect = flight[v].input.expect
    BY <1>5
  <2>2. \A v \in Window : Holding(flight[v])' <=> Holding(flight'[v])
    BY DEF Holding
  <2> QED
    BY <1>1, <2>1, <2>2 DEF RunnerInv, Held
<1> QED
  BY <1>3, <1>8, <1>9, <1>10, <1>11, <1>12, <1>13 DEF RunnerInv

\* The flight of a window of device d is f now, and its records are l and s.
NowAt(w, d, f, l, s) ==
  /\ flight' = [flight EXCEPT ![w] = f]
  /\ w \in Person => locator' = [locator EXCEPT ![w] = l]
  /\ w \notin Person => locator' = locator
  /\ stored' = [stored EXCEPT ![d] = s]

\* What the dialogs know, when the flight of one window moves and no name is closed
\* to another device.
LEMMA DialogMoved ==
  ASSUME Solo, SoloInv, RunnerInv', OneWay', UNCHANGED vars,
         NEW w \in Window, NEW f, NEW d \in Device, d = DeviceOf[w], NEW l, NEW s,
         NowAt(w, d, f, l, s),
         \A e \in Device \ {d}, n \in Name : Open(e, n) => Open(e, n)',
         w \in Person => Knows(d, f, l, s)'
  PROVE  SoloInv'
<1>1. ASSUME NEW p \in Person
      PROVE  Knows(DeviceOf[p], flight[p], locator[p], stored[DeviceOf[p]])'
  <2>1. PICK e \in Device : e = DeviceOf[p]
    BY RunnerAssumption DEF Window
  <2>2. RunnerInv /\ Shape' /\ p \in Window
    BY DEF SoloInv, RunnerInv, ObjectiveInv, Window
  <2>3. /\ flight \in [Window -> FlightType] /\ locator \in [Person -> LocatorType]
        /\ stored \in [Device -> [Okr -> LocatorType]]
    BY <2>2 DEF RunnerInv, RunnerShape
  <2>4. CASE p = w
    <3>1. f = flight'[p] /\ l = locator'[p] /\ s = stored'[DeviceOf[p]] /\ d = DeviceOf[p]
      BY <2>1, <2>2, <2>3, <2>4 DEF NowAt
    <3>2. Knows(d, f, l, s)'
      BY <2>4
    <3> QED
      BY <3>1, <3>2 DEF Knows
  <2>5. CASE p # w
    <3>1. e # d
      BY <2>1, <2>2, <2>5 DEF Solo
    <3>2. Later
      BY <2>2 DEF vars, Later, RunnerInv, ObjectiveInv, Shape, OkrType
    <3>3. PICK g, m, t : g = flight[p] /\ m = locator[p] /\ t = stored[e]
      OBVIOUS
    <3>4. g \in FlightType /\ m \in LocatorType /\ t \in [Okr -> LocatorType]
      BY <2>2, <2>3, <3>3
    <3>5. Placed(m) /\ Placed(g.saved) /\ \A o \in Okr : Placed(t[o])
      BY <2>2, <3>3 DEF RunnerInv, Locators
    <3>6. Fits(p, g)
      BY <2>2, <3>3 DEF RunnerInv
    <3>7. Knows(e, g, m, t)
      BY <2>1, <3>3 DEF SoloInv
    <3>8. Knows(e, g, m, t)'
      BY <2>2, <3>1, <3>2, <3>4, <3>5, <3>6, <3>7, KnowsKept
    <3>9. g = flight'[p] /\ m = locator'[p] /\ t = stored'[DeviceOf[p]]
      BY <2>1, <2>2, <2>3, <2>5, <3>1, <3>3 DEF NowAt
    <3> QED
      BY <2>1, <3>8, <3>9 DEF Knows
  <2> QED
    BY <2>4, <2>5
<1> QED
  BY <1>1 DEF SoloInv

\* Both, for a step that only reads what is shared.
LEMMA CallStep ==
  ASSUME RunnerInv, NEW w \in Window, NEW f \in FlightType,
         flight' = [flight EXCEPT ![w] = f],
         UNCHANGED <<vars, records, claimed>>,
         Fits(w, f), Placed(f.saved),
         Holding(f) => Holding(flight[w]) /\ f.input.expect = flight[w].input.expect,
         NEW d \in Device, d = DeviceOf[w],
         NEW l, NEW s \in [Okr -> LocatorType],
         w \in Person => l \in LocatorType /\ Placed(l) /\ locator' = [locator EXCEPT ![w] = l],
         w \in Person => Located(f, l),
         w \notin Person => locator' = locator,
         stored' = [stored EXCEPT ![d] = s], \A o \in Okr : Belongs(o, s[o]),
         view' \in [Person -> CommandOrNone],
         Solo /\ SoloInv /\ w \in Person => Knows(d, f, l, s)
  PROVE  RunnerInv' /\ (Solo /\ SoloInv => SoloInv')
<1>1. RunnerInv'
  BY FlightMoved
<1>2. ASSUME Solo, SoloInv
      PROVE  SoloInv'
  <2>1. /\ okr' = okr /\ claim' = claim /\ sent' = sent /\ dispatch' = dispatch /\ ticket' = ticket
        /\ UNCHANGED vars
    BY DEF vars, records
  <2>2. OneWay'
    BY <1>2, <2>1 DEF SoloInv, OneWay
  <2>3. \A e \in Device, n \in Name : Open(e, n) => Open(e, n)'
    BY <2>1 DEF Open, Passed, Done
  <2>4. w \in Person => Knows(d, f, l, s)'
    BY <1>2, <2>1 DEF Knows, Clear, Open, Passed, Done
  <2>5. NowAt(w, d, f, l, s)
    BY DEF NowAt
  <2> QED
    BY <1>1, <1>2, <2>1, <2>2, <2>3, <2>4, <2>5, DialogMoved
<1> QED
  BY <1>1, <1>2

\* The same when the dialog's own records stay as they are.
LEMMA FlightStep ==
  ASSUME RunnerInv, NEW w \in Window, NEW f \in FlightType,
         flight' = [flight EXCEPT ![w] = f],
         UNCHANGED <<vars, records, claimed, stored, locator, view>>,
         Fits(w, f), Placed(f.saved), w \in Person => Located(f, locator[w]),
         Holding(f) => Holding(flight[w]) /\ f.input.expect = flight[w].input.expect,
         NEW d \in Device, d = DeviceOf[w],
         Solo /\ SoloInv /\ w \in Person => Knows(d, f, locator[w], stored[d])
  PROVE  RunnerInv' /\ (Solo /\ SoloInv => SoloInv')
<1>1. /\ locator \in [Person -> LocatorType] /\ stored \in [Device -> [Okr -> LocatorType]]
      /\ view \in [Person -> CommandOrNone]
  BY DEF RunnerInv, RunnerShape
<1>2. PICK l, s : l = locator[w] /\ s = stored[d]
  OBVIOUS
<1>3. /\ w \in Person => l \in LocatorType /\ Placed(l) /\ locator' = [locator EXCEPT ![w] = l]
      /\ w \notin Person => locator' = locator
      /\ s \in [Okr -> LocatorType] /\ stored' = [stored EXCEPT ![d] = s]
      /\ \A o \in Okr : Belongs(o, s[o])
      /\ view' \in [Person -> CommandOrNone]
  BY <1>1, <1>2 DEF RunnerInv, Locators, Belongs
<1>4. /\ Solo /\ SoloInv /\ w \in Person => Knows(d, f, l, s)
      /\ w \in Person => Located(f, l)
  BY <1>2
<1>5. UNCHANGED <<vars, records, claimed>>
  OBVIOUS
<1> QED
  BY <1>3, <1>4, <1>5, CallStep

\* What every step of a window is shown to do.
Kept == RunnerInv' /\ (Solo /\ SoloInv => SoloInv')

LEMMA LandedIs ==
  /\ NoLocator \in LocatorType /\ Placed(NoLocator)
  /\ NoInput \in InputType
  /\ Landed \in FlightType /\ \A w : Fits(w, Landed)
  /\ ~Holding(Landed) /\ Landed.saved = NoLocator /\ Landed.call = "none"
<1>1. NoLocator \in LocatorType /\ Placed(NoLocator)
  BY DEF NoLocator, LocatorType, Names, Attempted, Placed
<1>2. NoInput \in InputType
  BY DEF NoInput, InputType, CommandOrNone
<1>3. Landed \in FlightType
  BY <1>1, <1>2 DEF Landed, FlightType, Pc, CallType, Names, Request, CommandOrNone, PinType
<1>4. \A w : Fits(w, Landed)
  BY DEF Fits, Landed, NoInput
<1> QED
  BY <1>1, <1>2, <1>3, <1>4 DEF Holding, Landed, NoInput

\* The places of a window's own records.
LEMMA Own ==
  ASSUME RunnerInv, NEW w \in Window
  PROVE  /\ DeviceOf[w] \in Device
         /\ flight[w] \in FlightType /\ Fits(w, flight[w]) /\ Placed(flight[w].saved)
         /\ w \in Person => /\ locator[w] \in LocatorType /\ Placed(locator[w])
                           /\ Located(flight[w], locator[w])
         /\ stored[DeviceOf[w]] \in [Okr -> LocatorType]
         /\ \A o \in Okr : Belongs(o, stored[DeviceOf[w]][o])
         /\ flight \in [Window -> FlightType] /\ locator \in [Person -> LocatorType]
         /\ stored \in [Device -> [Okr -> LocatorType]] /\ view \in [Person -> CommandOrNone]
<1>1. DeviceOf[w] \in Device
  BY RunnerAssumption
<1>2. RunnerShape /\ Locators
  BY DEF RunnerInv
<1> QED
  BY <1>1, <1>2 DEF RunnerInv, RunnerShape, Locators, Belongs

\* A call that is over.
LEMMA Landing ==
  ASSUME RunnerInv, NEW w \in Window, flight' = [flight EXCEPT ![w] = Landed],
         UNCHANGED <<vars, records, claimed>>,
         NEW d \in Device, d = DeviceOf[w],
         NEW l, NEW s \in [Okr -> LocatorType],
         w \in Person => l \in LocatorType /\ Placed(l) /\ locator' = [locator EXCEPT ![w] = l],
         w \notin Person => locator' = locator,
         stored' = [stored EXCEPT ![d] = s], \A o \in Okr : Belongs(o, s[o]),
         view' \in [Person -> CommandOrNone],
         Solo /\ SoloInv /\ w \in Person => Clear(d, l) /\ \A o \in Okr : Clear(d, s[o])
  PROVE  Kept
<1>1. Solo /\ SoloInv /\ w \in Person => Knows(d, Landed, l, s)
  BY DEF Knows, Landed, Clear, NoLocator
<1> QED
  BY <1>1, LandedIs, CallStep DEF Kept, Located

\* The locators of the one dialog of a device, at any place.
LEMMA ClearAt ==
  ASSUME SoloInv, NEW w \in Person
  PROVE  Clear(DeviceOf[w], locator[w]) /\ \A o \in Okr : Clear(DeviceOf[w], stored[DeviceOf[w]][o])
  BY DEF SoloInv, Knows

LEMMA ScheduledInv ==
  ASSUME RunnerInv, NEW w \in Window, Scheduled(w)
  PROVE  Kept
<1>1. flight' = [flight EXCEPT ![w] = Landed] /\ UNCHANGED <<vars, records, claimed, stored, locator, view>>
  BY DEF Scheduled
<1>2. PICK d \in Device : d = DeviceOf[w]
  BY Own
<1>3. Solo /\ SoloInv /\ w \in Person => Knows(d, Landed, locator[w], stored[d])
  BY <1>2, ClearAt DEF Knows, Landed, Clear, NoLocator
<1> QED
  BY <1>1, <1>2, <1>3, LandedIs, FlightStep DEF Kept, Located

\* A dialog that loses its locator and what it shows.
LEMMA Cleared ==
  ASSUME RunnerInv, NEW w \in Window,
         IF w \in Person
         THEN locator' = [locator EXCEPT ![w] = NoLocator] /\ view' = [view EXCEPT ![w] = NoCommand]
         ELSE UNCHANGED <<locator, view>>
  PROVE  /\ w \in Person => locator' = [locator EXCEPT ![w] = NoLocator]
         /\ w \notin Person => locator' = locator
         /\ view' \in [Person -> CommandOrNone]
  BY Own DEF CommandOrNone

LEMMA ThrowInv ==
  ASSUME RunnerInv, NEW w \in Window, Throw(w)
  PROVE  Kept
<1>1. PICK d \in Device, s \in [Okr -> LocatorType] : d = DeviceOf[w] /\ s = stored[d]
  BY Own
<1>2. /\ flight' = [flight EXCEPT ![w] = Landed] /\ UNCHANGED <<vars, records, claimed>>
      /\ stored' = stored
      /\ w \in Person => locator' = [locator EXCEPT ![w] = NoLocator]
      /\ w \notin Person => locator' = locator
      /\ view' \in [Person -> CommandOrNone]
  BY Cleared DEF Throw
<1>3. stored' = [stored EXCEPT ![d] = s] /\ \A o \in Okr : Belongs(o, s[o])
  BY <1>1, <1>2, Own
<1>4. Solo /\ SoloInv /\ w \in Person => Clear(d, NoLocator) /\ \A o \in Okr : Clear(d, s[o])
  BY <1>1, ClearAt DEF Clear, NoLocator
<1>5. PICK l : l = NoLocator
  OBVIOUS
<1>6. /\ w \in Person => l \in LocatorType /\ Placed(l) /\ locator' = [locator EXCEPT ![w] = l]
      /\ Solo /\ SoloInv /\ w \in Person => Clear(d, l) /\ \A o \in Okr : Clear(d, s[o])
  BY <1>2, <1>4, <1>5, LandedIs
<1>7. UNCHANGED <<vars, records, claimed>>
  BY <1>2
<1>8. d = DeviceOf[w] /\ flight' = [flight EXCEPT ![w] = Landed]
  BY <1>1, <1>2
<1>9. (w \notin Person => locator' = locator) /\ view' \in [Person -> CommandOrNone]
  BY <1>2
<1> QED
  BY <1>3, <1>6, <1>7, <1>8, <1>9, Landing

LEMMA ReopenInv ==
  ASSUME RunnerInv, NEW w \in Window, Reopen(w)
  PROVE  Kept
<1>1. PICK d \in Device, s \in [Okr -> LocatorType], f \in FlightType :
        d = DeviceOf[w] /\ s = stored[d] /\ f = flight[w]
  BY Own
<1>2. /\ UNCHANGED <<vars, records, claimed>>
      /\ stored' = stored /\ flight' = flight /\ f.pc = "idle"
      /\ w \in Person => locator' = [locator EXCEPT ![w] = NoLocator]
      /\ w \notin Person => locator' = locator
      /\ view' \in [Person -> CommandOrNone]
  BY <1>1, Cleared DEF Reopen
<1>3. stored' = [stored EXCEPT ![d] = s] /\ \A o \in Okr : Belongs(o, s[o])
  BY <1>1, <1>2, Own
<1>4. flight' = [flight EXCEPT ![w] = f]
  BY <1>1, <1>2, Own
<1>5. f.call = "none" /\ Fits(w, f) /\ Placed(f.saved)
  BY <1>1, <1>2, Own DEF Fits
<1>6. Solo /\ SoloInv /\ w \in Person => Knows(d, f, NoLocator, s)
  <2> SUFFICES ASSUME SoloInv, w \in Person
               PROVE  Knows(d, f, NoLocator, s)
    OBVIOUS
  <2>1. Knows(d, f, locator[w], s)
    BY <1>1 DEF SoloInv
  <2> QED
    BY <1>2, <1>5, <2>1 DEF Knows, Clear, NoLocator
<1>7. PICK l : l = NoLocator
  OBVIOUS
<1>8. /\ w \in Person => l \in LocatorType /\ Placed(l) /\ locator' = [locator EXCEPT ![w] = l]
      /\ Solo /\ SoloInv /\ w \in Person => Knows(d, f, l, s)
  BY <1>2, <1>6, <1>7, LandedIs
<1>9. Holding(f) => Holding(flight[w]) /\ f.input.expect = flight[w].input.expect
  BY <1>1
<1>10. UNCHANGED <<vars, records, claimed>> /\ d = DeviceOf[w]
  BY <1>1, <1>2
<1>11. (w \notin Person => locator' = locator) /\ view' \in [Person -> CommandOrNone]
  BY <1>2
<1> QED
  BY <1>3, <1>4, <1>5, <1>8, <1>9, <1>10, <1>11, CallStep DEF Kept, Located

\* A call of step that has read a key result.
LEMMA StartStep ==
  ASSUME RunnerInv, NEW w \in Window, NEW o \in Okr, NEW k \in Nat, k < Length(o),
         NEW call \in CallType \ {"none"}, NEW input \in InputType,
         Start(w, o, k, call, input), UNCHANGED <<vars, records, claimed, stored, locator, view>>,
         call \in {"read", "prepare", "schedule", "send"} => w \in Person,
         call \in {"discover", "create", "deliver"} => w \in AutoSession,
         call = "deliver" => input.mode # "chain",
         input.release => input.expect # NoCommand /\ call \in {"send", "deliver"},
         input.release /\ input.mode # "chain" =>
           Holding(flight[w]) /\ input.expect = flight[w].input.expect,
         call \in {"prepare", "send"} => locator[w].name \in Name,
         NEW d \in Device, d = DeviceOf[w],
         Solo /\ SoloInv /\ w \in Person =>
           /\ call = "send" =>
                /\ locator[w].name = NameOf(o, k) /\ locator[w].attempted = "yes"
                /\ stored[d][o] = locator[w] /\ Open(d, NameOf(o, k))
           /\ call = "prepare" =>
                /\ locator[w].name \in Name
                /\ locator[w].name = NameOf(o, k) \/ Passed(locator[w].name)
  PROVE  Kept
<1>1. PICK n \in Name : n = NameOf(o, k) /\ n[1] = o
  BY NameOfIs DEF RunnerInv
<1>2. PICK f : f = [Landed EXCEPT !.pc = "lookup", !.call = call, !.input = input, !.name = n,
                                  !.version = okr[o].version, !.prior = journal[d][n]]
  OBVIOUS
<1>3. flight' = [flight EXCEPT ![w] = f]
  BY <1>1, <1>2 DEF Start
<1>4. okr[o].version \in Nat /\ journal[d][n] \in Request
  BY DEF RunnerInv, ObjectiveInv, Shape, OkrType, RunnerShape
<1>5. /\ f.pc = "lookup" /\ f.call = call /\ f.input = input /\ f.name = n
      /\ f.status = "none" /\ f.receipt = "none" /\ f.saved = NoLocator
  BY <1>2 DEF Landed
<1>6. f \in FlightType
  BY <1>2, <1>4, LandedIs DEF FlightType, Pc, Names
<1>7. Fits(w, f) /\ Placed(f.saved)
  BY <1>5, LandedIs DEF Fits
<1>8. Holding(f) => Holding(flight[w]) /\ f.input.expect = flight[w].input.expect
  BY <1>5 DEF Holding
<1>9. Solo /\ SoloInv /\ w \in Person => Knows(d, f, locator[w], stored[d])
  <2> SUFFICES ASSUME Solo, SoloInv, w \in Person
               PROVE  Knows(d, f, locator[w], stored[d])
    OBVIOUS
  <2>1. Clear(d, locator[w]) /\ (\A p \in Okr : Clear(d, stored[d][p])) /\ Clear(d, f.saved)
    BY <1>5, ClearAt DEF Clear, NoLocator
  <2> QED
    BY <1>1, <1>5, <2>1 DEF Knows
<1> QED
  BY <1>3, <1>5, <1>6, <1>7, <1>8, <1>9, FlightStep DEF Kept, Located

LEMMA ReadPlanInv ==
  ASSUME RunnerInv, NEW w \in Window, NEW o \in Okr, ReadPlan(w, o) \/ Heartbeat(w, o)
  PROVE  Kept
<1>1. PICK d \in Device, k \in Nat : d = DeviceOf[w] /\ k = okr[o].next
  BY Own DEF RunnerInv, ObjectiveInv, Shape, OkrType
<1>2. /\ k < Length(o) /\ UNCHANGED <<vars, records, claimed, stored, locator, view>>
      /\ \/ w \in Person /\ Start(w, o, k, "read", NoInput)
         \/ w \in AutoSession /\ Start(w, o, k, "discover", NoInput)
  BY <1>1 DEF ReadPlan, Heartbeat, Advances
<1>3. NoInput \in InputType /\ ~NoInput.release
  BY LandedIs DEF NoInput
<1>4. CASE w \in Person /\ Start(w, o, k, "read", NoInput)
  BY <1>1, <1>2, <1>3, <1>4, StartStep DEF CallType
<1>5. CASE w \in AutoSession /\ Start(w, o, k, "discover", NoInput)
  BY <1>1, <1>2, <1>3, <1>5, StartStep DEF CallType
<1> QED
  BY <1>2, <1>4, <1>5

\* A call of step that has not begun to read.
LEMMA CallMade ==
  ASSUME RunnerInv, NEW w \in Window, NEW n \in Name, NEW call \in {"prepare", "schedule", "create"},
         flight' = [flight EXCEPT ![w] = [Landed EXCEPT !.pc = "begin", !.call = call, !.name = n,
                                                        !.input.create = TRUE]],
         UNCHANGED <<vars, records, claimed, stored, locator, view>>,
         IF call = "create" THEN w \in AutoSession ELSE w \in Person,
         call = "prepare" => locator[w].name = n
  PROVE  Kept
<1>1. PICK d \in Device : d = DeviceOf[w]
  BY Own
<1>2. PICK input : input = [NoInput EXCEPT !.create = TRUE]
  OBVIOUS
<1>3. input \in InputType /\ ~input.release
  BY <1>2, LandedIs DEF InputType, NoInput
<1>4. PICK f : f = [Landed EXCEPT !.pc = "begin", !.call = call, !.name = n, !.input = input]
  OBVIOUS
<1>5. flight' = [flight EXCEPT ![w] = f]
  BY <1>2, <1>4 DEF Landed
<1>6. f \in FlightType
  BY <1>3, <1>4, LandedIs DEF FlightType, Pc, Names, CallType
<1>7. /\ f.pc = "begin" /\ f.call = call /\ f.input = input /\ f.name = n
      /\ f.status = "none" /\ f.receipt = "none" /\ f.saved = NoLocator
  BY <1>4 DEF Landed
<1>8. Fits(w, f) /\ Placed(f.saved) /\ ~Holding(f)
  BY <1>3, <1>7, LandedIs DEF Fits, Holding
<1>9. Solo /\ SoloInv /\ w \in Person => Knows(d, f, locator[w], stored[d])
  <2> SUFFICES ASSUME Solo, SoloInv, w \in Person
               PROVE  Knows(d, f, locator[w], stored[d])
    OBVIOUS
  <2>1. Clear(d, locator[w]) /\ (\A p \in Okr : Clear(d, stored[d][p])) /\ Clear(d, f.saved)
    BY <1>1, <1>7, ClearAt DEF Clear, NoLocator
  <2> QED
    BY <1>7, <2>1 DEF Knows
<1> QED
  BY <1>1, <1>5, <1>6, <1>7, <1>8, <1>9, FlightStep DEF Kept, Located

LEMMA PrepareRunInv ==
  ASSUME RunnerInv, NEW w \in Window, NEW o \in Okr, PrepareRun(w, o)
  PROVE  Kept
<1>1. PICK k \in Nat : k = okr[o].next /\ k < Length(o)
  BY DEF RunnerInv, ObjectiveInv, Shape, OkrType, PrepareRun, Advances
<1>2. PICK n \in Name : n = NameOf(o, k) /\ n = locator[w].name
  BY <1>1, NameOfIs DEF RunnerInv, PrepareRun
<1> QED
  BY <1>2, CallMade DEF PrepareRun

LEMMA ScheduleInv ==
  ASSUME RunnerInv, NEW w \in Window, NEW o \in Okr, NEW k \in Index, Schedule(w, o, k)
  PROVE  Kept
<1>1. k \in Nat /\ k < Length(o)
  BY ObjectiveAssumption DEF Index, Schedule, Advances
<1>2. NameOf(o, k) \in Name
  BY <1>1, NameOfIs DEF RunnerInv
<1> QED
  BY <1>2, CallMade DEF Schedule

LEMMA QueuePreparedInv ==
  ASSUME RunnerInv, NEW w \in Window, NEW o \in Okr, NEW k \in Index, QueuePrepared(w, o, k)
  PROVE  Kept
<1>1. PICK d \in Device : d = DeviceOf[w]
  BY Own
<1>2. k \in Nat /\ k < Length(o)
  BY ObjectiveAssumption DEF Index, QueuePrepared
<1>3. PICK n \in Name : n = NameOf(o, k) /\ n[1] = o /\ n[2] = okr[o].agreement /\ n[3] = k
  BY <1>2, NameOfIs DEF RunnerInv
<1>4. PICK t \in Command : t = ticket[n] /\ Pinned(w, t, TRUE)
  BY <1>3, Triples DEF QueuePrepared
<1>5. NameIn(t) = n
  BY <1>4, ObjectiveAssumption DEF RunnerInv, TicketIsReservation
<1>6. claim[t].okr = o /\ claim[t].agreement = okr[o].agreement /\ claim[t].kr = k
  BY <1>3, <1>5 DEF NameIn
<1>7. okr[o].next < k
  BY DEF QueuePrepared, RunnerInv, ObjectiveInv, Shape, OkrType, Index
<1>8. PICK pin : pin = PinOf(t)
  OBVIOUS
<1>9. pin \in PinType /\ pin # <<>> /\ pin[1] = okr[o]
  BY <1>6, <1>8 DEF PinOf, PinType, RunnerInv, ObjectiveInv, Shape
<1>10. PICK f : f = [Landed EXCEPT !.pc = "queue", !.call = "schedule", !.name = n, !.found = t,
                                   !.pin = pin]
  OBVIOUS
<1>11. flight' = [flight EXCEPT ![w] = f]
  BY <1>3, <1>4, <1>8, <1>10 DEF QueuePrepared
<1>12. f \in FlightType
  BY <1>9, <1>10, LandedIs DEF FlightType, Pc, Names, CallType, CommandOrNone
<1>13. /\ f.pc = "queue" /\ f.call = "schedule" /\ f.input = NoInput /\ f.name = n
       /\ f.found = t /\ f.pin = pin
       /\ f.status = "none" /\ f.receipt = "none" /\ f.saved = NoLocator
  BY <1>10 DEF Landed
<1>14. w \in Person
  BY DEF QueuePrepared
<1>15. ~NoInput.release
  BY DEF NoInput
<1>16. Fits(w, f) /\ Placed(f.saved) /\ ~Holding(f)
  BY <1>4, <1>13, <1>14, <1>15, LandedIs, ObjectiveAssumption DEF Fits, Holding
<1>17. Solo /\ SoloInv /\ w \in Person => Knows(d, f, locator[w], stored[d])
  <2> SUFFICES ASSUME Solo, SoloInv, w \in Person
               PROVE  Knows(d, f, locator[w], stored[d])
    OBVIOUS
  <2>1. Clear(d, locator[w]) /\ (\A p \in Okr : Clear(d, stored[d][p])) /\ Clear(d, f.saved)
    BY <1>1, <1>13, ClearAt DEF Clear, NoLocator
  <2> QED
    BY <1>6, <1>7, <1>9, <1>13, <2>1 DEF Knows
<1>18. UNCHANGED <<vars, records, claimed, stored, locator, view>>
  BY DEF QueuePrepared
<1> QED
  BY <1>1, <1>11, <1>12, <1>13, <1>16, <1>17, <1>18, FlightStep DEF Kept, Located

\* A flight goes on with the same call.
Running == {"begin", "lookup", "sign", "submit", "sent", "ticket", "release", "send"}
LEMMA Onward ==
  ASSUME RunnerInv, NEW w \in Window, NEW f \in FlightType,
         flight' = [flight EXCEPT ![w] = f],
         UNCHANGED <<vars, records, claimed, stored, locator, view>>,
         Fits(w, f), f.call = flight[w].call, f.name = flight[w].name,
         f.input = flight[w].input, f.saved = flight[w].saved,
         f.receipt # "none" => flight[w].receipt # "none",
         flight[w].pc \notin {"return", "restore"},
         f.pc \in Running => flight[w].pc \in Running,
         f.pc = "queue" => f.call # "schedule"
  PROVE  Kept
<1>1. PICK d \in Device : d = DeviceOf[w]
  BY Own
<1>2. PICK g : g = flight[w]
  OBVIOUS
<1>3. Placed(f.saved) /\ (w \in Person => Located(f, locator[w]))
  BY Own DEF Located
<1>4. Holding(f) => Holding(flight[w]) /\ f.input.expect = flight[w].input.expect
  BY DEF Holding, Running
<1>5. Solo /\ SoloInv /\ w \in Person => Knows(d, f, locator[w], stored[d])
  <2> SUFFICES ASSUME Solo, SoloInv, w \in Person
               PROVE  Knows(d, f, locator[w], stored[d])
    OBVIOUS
  <2>1. Knows(d, g, locator[w], stored[d])
    BY <1>1, <1>2 DEF SoloInv
  <2> QED
    BY <1>2, <2>1 DEF Knows
<1> QED
  BY <1>1, <1>3, <1>4, <1>5, FlightStep DEF Kept

\* A call of step returns.
LEMMA ReturnStep ==
  ASSUME RunnerInv, NEW w \in Window, flight[w].pc \notin {"idle", "return", "restore"}, Return(w),
         UNCHANGED <<vars, records, claimed, stored, locator, view>>
  PROVE  Kept
<1>1. flight[w] \in FlightType /\ Fits(w, flight[w]) /\ flight \in [Window -> FlightType]
  BY Own
<1>2. PICK f : f = [flight[w] EXCEPT !.pc = "return"]
  OBVIOUS
<1>3. flight' = [flight EXCEPT ![w] = f]
  BY <1>1, <1>2 DEF Return
<1>4. f \in FlightType
  BY <1>1, <1>2 DEF FlightType, Pc
<1>5. /\ f.pc = "return" /\ f.call = flight[w].call /\ f.name = flight[w].name
      /\ f.input = flight[w].input /\ f.saved = flight[w].saved /\ f.receipt = flight[w].receipt
      /\ f.found = flight[w].found /\ f.status = flight[w].status /\ f.command = flight[w].command
  BY <1>1, <1>2 DEF FlightType
<1>6. Fits(w, f)
  BY <1>1, <1>5 DEF Fits
<1> QED
  BY <1>3, <1>4, <1>5, <1>6, Onward DEF Running

LEMMA BeginInv ==
  ASSUME RunnerInv, NEW w \in Window, Begin(w)
  PROVE  Kept
<1>1. PICK d \in Device, g \in FlightType : d = DeviceOf[w] /\ g = flight[w] /\ Fits(w, g)
  BY Own
<1>2. g.pc = "begin" /\ UNCHANGED <<vars, records, claimed, stored, locator, view>>
  BY <1>1 DEF Begin
<1>3. PICK o \in Okr : o = g.name[1] /\ g.name \in Name
  BY <1>1, <1>2, NameParts DEF Fits
<1>4. PICK k \in Nat : k = IF g.call = "schedule" THEN g.name[3] ELSE okr[o].next
  BY <1>3, NameParts DEF RunnerInv, ObjectiveInv, Shape, OkrType
<1>5. CASE Return(w)
  BY <1>1, <1>2, <1>5, ReturnStep
<1>6. CASE /\ Reviewed(w, NameOf(o, okr[o].next)) /\ Advances(o, k)
           /\ Start(w, o, k, g.call, g.input)
  <2>1. k < Length(o)
    BY <1>6 DEF Advances
  <2>2. PICK n \in Name : n = NameOf(o, k) /\ n[1] = o /\ n[2] = okr[o].agreement /\ n[3] = k
    BY <2>1, NameOfIs DEF RunnerInv
  <2>3. g.input \in InputType /\ g.call \in CallType
    BY DEF FlightType
  <2>4. g.call # "none"
    BY <1>1, <1>2 DEF Fits
  <2>5. Kept
    <3>1. ASSUME Solo, SoloInv, w \in Person
          PROVE  /\ g.call = "send" =>
                      /\ locator[w].name = NameOf(o, k) /\ locator[w].attempted = "yes"
                      /\ stored[d][o] = locator[w] /\ Open(d, NameOf(o, k))
                 /\ g.call = "prepare" =>
                      /\ locator[w].name \in Name
                      /\ locator[w].name = NameOf(o, k) \/ Passed(locator[w].name)
      <4>1. Knows(d, g, locator[w], stored[d])
        BY <1>1, <3>1 DEF SoloInv
      <4>2. ASSUME g.call = "send"
            PROVE  /\ locator[w].name = NameOf(o, k) /\ locator[w].attempted = "yes"
                   /\ stored[d][o] = locator[w] /\ Open(d, NameOf(o, k))
        <5>1. g.name = n
          BY <1>1, <1>4, <1>6, <2>2, <4>2 DEF Reviewed
        <5> QED
          BY <1>2, <1>3, <2>2, <4>1, <4>2, <5>1 DEF Knows
      <4>3. ASSUME g.call = "prepare"
            PROVE  /\ locator[w].name \in Name
                   /\ locator[w].name = n \/ Passed(locator[w].name)
        <5>1. PICK m \in Name : m = locator[w].name /\ (m = g.name \/ Passed(m))
          BY <4>1, <4>3 DEF Knows
        <5>2. ~Ahead(m)
          BY <3>1, <5>1, NameParts DEF RunnerInv, Locators, Placed
        <5>3. m = g.name => m = n \/ Passed(m)
          <6> SUFFICES ASSUME m = g.name
                       PROVE  m = n \/ Passed(m)
            OBVIOUS
          <6>1. m[1] = o /\ m[2] \in Nat /\ m[3] \in Nat /\ m = <<m[1], m[2], m[3]>>
            BY <1>3, NameParts
          <6>2. okr[o].agreement \in Nat /\ okr[o].next \in Nat
            BY DEF RunnerInv, ObjectiveInv, Shape, OkrType
          <6>3. n = <<o, okr[o].agreement, okr[o].next>>
            BY <1>4, <2>2, <4>3, NameParts
          <6> QED
            BY <5>2, <6>1, <6>2, <6>3 DEF Ahead, Passed
        <5> QED
          BY <5>1, <5>3
      <4> QED
        BY <2>2, <4>2, <4>3
    <3>2. /\ g.input.release => g.input.expect # NoCommand /\ g.call \in {"send", "deliver"}
          /\ g.call \in {"read", "prepare", "schedule", "send"} => w \in Person
          /\ g.call \in {"discover", "create", "deliver"} => w \in AutoSession
          /\ g.call = "deliver" => g.input.mode # "chain"
          /\ g.call \in {"prepare", "send"} => locator[w].name \in Name
      BY <1>1, Own DEF Fits, Located
    <3>3. g.input.release /\ g.input.mode # "chain" =>
            Holding(flight[w]) /\ g.input.expect = flight[w].input.expect
      BY <1>1, <1>2 DEF Holding
    <3>4. g.call \in CallType \ {"none"} /\ Start(w, o, k, g.call, g.input)
      BY <1>6, <2>3, <2>4
    <3>5. PICK call \in CallType \ {"none"}, input \in InputType : call = g.call /\ input = g.input
      BY <2>3, <3>4
    <3> QED
      BY <1>1, <1>2, <2>1, <3>1, <3>2, <3>3, <3>4, <3>5, StartStep
  <2> QED
    BY <2>5
<1> QED
  BY <1>1, <1>3, <1>4, <1>5, <1>6 DEF Begin

LEMMA LookupInv ==
  ASSUME RunnerInv, NEW w \in Window, Lookup(w)
  PROVE  Kept
<1>1. PICK g \in FlightType : g = flight[w] /\ Fits(w, g) /\ flight \in [Window -> FlightType]
  BY Own
<1>2. g.pc = "lookup" /\ UNCHANGED <<vars, records, claimed, stored, locator, view>>
  BY <1>1 DEF Lookup
<1>3. ASSUME NEW pc \in {"ticket", "sign", "return"}, NEW status \in {g.status, "idle", "other"},
             pc = "ticket" => ticket[g.name] # NoCommand,
             flight' = [flight EXCEPT ![w] = [g EXCEPT !.pc = pc, !.status = status]]
      PROVE  Kept
  <2>1. PICK f : f = [g EXCEPT !.pc = pc, !.status = status]
    OBVIOUS
  <2>2. f \in FlightType
    BY <2>1 DEF FlightType, Pc
  <2>3. /\ f.pc = pc /\ f.call = g.call /\ f.name = g.name /\ f.status = status
        /\ f.input = g.input /\ f.saved = g.saved /\ f.receipt = g.receipt
        /\ f.found = g.found /\ f.command = g.command
    BY <2>1 DEF FlightType
  <2>4. Fits(w, f)
    BY <1>1, <1>2, <1>3, <2>3 DEF Fits
  <2> QED
    BY <1>1, <1>2, <1>3, <2>1, <2>2, <2>3, <2>4, Onward DEF Running
<1>4. CASE ticket[g.name] # NoCommand /\ Goto(w, "ticket")
  <2>1. flight' = [flight EXCEPT ![w] = [g EXCEPT !.pc = "ticket", !.status = g.status]]
    BY <1>1, <1>4 DEF Goto, FlightType
  <2> QED
    BY <1>3, <1>4, <2>1
<1>5. CASE Goto(w, "sign")
  <2>1. flight' = [flight EXCEPT ![w] = [g EXCEPT !.pc = "sign", !.status = g.status]]
    BY <1>1, <1>5 DEF Goto, FlightType
  <2> QED
    BY <1>3, <2>1
<1>6. CASE flight' = [flight EXCEPT ![w].pc = "return", ![w].status =
             IF @ = "none" /\ flight[w].prior = "none" /\ flight[w].name \notin unknown[w]
             THEN "idle" ELSE "other"]
  <2>1. PICK status \in {"idle", "other"} :
          flight' = [flight EXCEPT ![w] = [g EXCEPT !.pc = "return", !.status = status]]
    BY <1>1, <1>6 DEF FlightType
  <2> QED
    BY <1>3, <2>1
<1> QED
  BY <1>1, <1>4, <1>5, <1>6 DEF Lookup

LEMMA AnswerInv ==
  ASSUME RunnerInv, NEW w \in Window, Answer(w)
  PROVE  Kept
<1>1. PICK d \in Device, g \in FlightType :
        d = DeviceOf[w] /\ g = flight[w] /\ Fits(w, g) /\ flight \in [Window -> FlightType]
  BY Own
<1>2. /\ g.pc = "sent" /\ UNCHANGED <<vars, records, claimed, stored, locator, view>>
      /\ g.name \in Name
  BY <1>1 DEF Answer, Fits
<1>3. journal[d][g.name] \in Request /\ g.receipt \in Request
  BY <1>2 DEF RunnerInv, RunnerShape, FlightType
<1>4. PICK pc \in {"ticket", "return"}, receipt \in Request :
        /\ pc = IF ticket[g.name] # NoCommand THEN "ticket" ELSE "return"
        /\ receipt = IF g.receipt = "none" THEN g.receipt ELSE journal[d][g.name]
  BY <1>3
<1>5. PICK f : f = [g EXCEPT !.pc = pc, !.receipt = receipt]
  OBVIOUS
<1>6. flight' = [flight EXCEPT ![w] = f]
  BY <1>1, <1>4, <1>5 DEF Answer, FlightType
<1>7. f \in FlightType
  BY <1>5 DEF FlightType, Pc
<1>8. /\ f.pc = pc /\ f.call = g.call /\ f.name = g.name /\ f.status = g.status
      /\ f.input = g.input /\ f.saved = g.saved /\ f.receipt = receipt
      /\ f.found = g.found /\ f.command = g.command
  BY <1>5 DEF FlightType
<1>9. Fits(w, f)
  BY <1>1, <1>2, <1>4, <1>8 DEF Fits
<1> QED
  BY <1>1, <1>2, <1>4, <1>6, <1>7, <1>8, <1>9, Onward DEF Running

LEMMA TicketInv ==
  ASSUME RunnerInv, NEW w \in Window, Ticket(w)
  PROVE  Kept
<1>1. PICK g \in FlightType : g = flight[w] /\ Fits(w, g) /\ flight \in [Window -> FlightType]
  BY Own
<1>2. g.pc = "ticket" /\ UNCHANGED <<vars, records, claimed, stored, locator, view>>
  BY <1>1 DEF Ticket
<1>3. PICK t \in Command : t = ticket[g.name]
  BY <1>1, <1>2, Triples DEF Fits
<1>4. PICK pc \in {"release", "return"}, status \in {"queued", "other"} :
        /\ pc = IF Deliverable(w, t) THEN "release" ELSE "return"
        /\ status = IF run[t] = "queued" THEN "queued" ELSE "other"
  OBVIOUS
<1>5. PICK f : f = [g EXCEPT !.found = t, !.status = status, !.pc = pc]
  OBVIOUS
<1>6. flight' = [flight EXCEPT ![w] = f]
  BY <1>1, <1>3, <1>4, <1>5 DEF Ticket, FlightType
<1>7. f \in FlightType
  BY <1>5 DEF FlightType, Pc, CommandOrNone
<1>8. /\ f.pc = pc /\ f.call = g.call /\ f.name = g.name /\ f.status = status
      /\ f.input = g.input /\ f.saved = g.saved /\ f.receipt = g.receipt
      /\ f.found = t /\ f.command = g.command
  BY <1>5 DEF FlightType
<1>9. pc = "release" => g.input.release /\ g.input.expect = t
  BY <1>1, <1>4 DEF Deliverable, Fits
<1>10. Fits(w, f)
  BY <1>1, <1>2, <1>3, <1>8, <1>9, ObjectiveAssumption DEF Fits
<1> QED
  BY <1>1, <1>2, <1>6, <1>7, <1>8, <1>10, Onward DEF Running

LEMMA ReleaseInv ==
  ASSUME RunnerInv, NEW w \in Window, Release(w)
  PROVE  Kept
<1>1. PICK g \in FlightType : g = flight[w] /\ Fits(w, g) /\ flight \in [Window -> FlightType]
  BY Own
<1>2. g.pc = "release" /\ UNCHANGED <<vars, records, claimed, stored, locator, view>>
  BY <1>1 DEF Release
<1>3. CASE Return(w)
  BY <1>1, <1>2, <1>3, ReturnStep
<1>4. CASE flight' = [flight EXCEPT
             ![w].pc = IF flight[w].input.mode = "chain" THEN "queue" ELSE "send",
             ![w].pin = PinOf(flight[w].found)]
  <2>1. PICK t \in Command : t = g.found /\ t = ticket[g.name] /\ claim[t].okr # "none"
    BY <1>1, <1>2, Triples DEF Fits
  <2>2. claim[t].okr \in Okr
    BY <2>1 DEF RunnerInv, ObjectiveInv, Shape, ClaimType
  <2>3. PICK pin : pin = PinOf(t)
    OBVIOUS
  <2>4. pin \in PinType
    BY <2>2, <2>3 DEF PinOf, PinType, RunnerInv, ObjectiveInv, Shape
  <2>5. PICK pc \in {"queue", "send"} : pc = IF g.input.mode = "chain" THEN "queue" ELSE "send"
    OBVIOUS
  <2>6. PICK f : f = [g EXCEPT !.pc = pc, !.pin = pin]
    OBVIOUS
  <2>7. flight' = [flight EXCEPT ![w] = f]
    BY <1>1, <1>4, <2>1, <2>3, <2>5, <2>6 DEF FlightType
  <2>8. f \in FlightType
    BY <2>4, <2>6 DEF FlightType, Pc
  <2>9. /\ f.pc = pc /\ f.call = g.call /\ f.name = g.name /\ f.status = g.status
        /\ f.input = g.input /\ f.saved = g.saved /\ f.receipt = g.receipt
        /\ f.found = g.found /\ f.command = g.command
    BY <2>6 DEF FlightType
  <2>10. g.input.release /\ g.call \in {"send", "deliver"}
    BY <1>1, <1>2 DEF Fits
  <2>11. Fits(w, f)
    BY <1>1, <1>2, <2>5, <2>9, <2>10 DEF Fits
  <2> QED
    BY <1>1, <1>2, <2>5, <2>7, <2>8, <2>9, <2>10, <2>11, Onward DEF Running
<1> QED
  BY <1>3, <1>4 DEF Release

\* The store of device d once locator l is saved: it is kept under its objective.
SavedRow(d, l) == [stored[d] EXCEPT ![l.name[1]] = l]
LEMMA SavedAt ==
  ASSUME RunnerInv, NEW w \in Person, NEW d \in Device, d = DeviceOf[w],
         NEW l \in LocatorType, l.name \in Name, Placed(l)
  PROVE  /\ SavedRow(d, l) \in [Okr -> LocatorType]
         /\ \A o \in Okr : Belongs(o, SavedRow(d, l)[o])
         /\ SavedRow(d, l)[l.name[1]] = l
         /\ \A o \in Okr : o # l.name[1] => SavedRow(d, l)[o] = stored[d][o]
<1>0. PICK s : s = SavedRow(d, l)
  OBVIOUS
<1>1. stored[d] \in [Okr -> LocatorType] /\ l.name[1] \in Okr
  BY Own, NameParts DEF Window
<1>2. /\ s \in [Okr -> LocatorType] /\ s[l.name[1]] = l
      /\ \A o \in Okr : o # l.name[1] => s[o] = stored[d][o]
  BY <1>0, <1>1 DEF SavedRow
<1>3. \A o \in Okr : Belongs(o, stored[d][o])
  BY Own DEF Window
<1>4. \A o \in Okr : Belongs(o, s[o])
  BY <1>2, <1>3 DEF Belongs
<1> QED
  BY <1>0, <1>2, <1>4

\* A call that ends by saving a locator.
LEMMA SaveLanding ==
  ASSUME RunnerInv, NEW w \in Person, flight' = [flight EXCEPT ![w] = Landed],
         UNCHANGED <<vars, records, claimed>>,
         NEW l \in LocatorType, l.name \in Name, Placed(l), Save(w, l),
         view' \in [Person -> CommandOrNone],
         Solo /\ SoloInv => Clear(DeviceOf[w], l)
  PROVE  Kept
<1>1. PICK d \in Device : d = DeviceOf[w] /\ w \in Window
  BY Own DEF Window
<1>2. PICK s \in [Okr -> LocatorType] :
           /\ stored' = [stored EXCEPT ![d] = s]
           /\ \A o \in Okr : Belongs(o, s[o])
           /\ s[l.name[1]] = l
           /\ \A o \in Okr : o # l.name[1] => s[o] = stored[d][o]
  <2>1. PICK t : t = SavedRow(d, l)
    OBVIOUS
  <2>2. stored' = [stored EXCEPT ![d] = t]
    BY <1>1, <2>1, Own DEF Save, SavedRow
  <2>3. /\ t \in [Okr -> LocatorType]
        /\ \A o \in Okr : Belongs(o, t[o])
        /\ t[l.name[1]] = l
        /\ \A o \in Okr : o # l.name[1] => t[o] = stored[d][o]
    BY <1>1, <2>1, SavedAt
  <2> QED
    BY <2>2, <2>3
<1>3. Solo /\ SoloInv => Clear(d, l) /\ \A o \in Okr : Clear(d, s[o])
  BY <1>1, <1>2, ClearAt
<1>4. locator' = [locator EXCEPT ![w] = l]
  BY DEF Save
<1> QED
  BY <1>1, <1>2, <1>3, <1>4, Landing

\* A call that ends and leaves the locators alone.
LEMMA PlainLanding ==
  ASSUME RunnerInv, NEW w \in Window, flight' = [flight EXCEPT ![w] = Landed],
         UNCHANGED <<vars, records, claimed>>, UNCHANGED <<stored, locator>>,
         view' \in [Person -> CommandOrNone]
  PROVE  Kept
<1>0. PICK l : l = locator[w]
  OBVIOUS
<1>1. PICK d \in Device, s \in [Okr -> LocatorType] : d = DeviceOf[w] /\ s = stored[d]
  BY Own
<1>2. stored' = [stored EXCEPT ![d] = s] /\ \A o \in Okr : Belongs(o, s[o])
  BY <1>1, Own
<1>3. /\ w \in Person => l \in LocatorType /\ Placed(l) /\ locator' = [locator EXCEPT ![w] = l]
      /\ w \notin Person => locator' = locator
  BY <1>0, Own
<1>4. Solo /\ SoloInv /\ w \in Person => Clear(d, l) /\ \A o \in Okr : Clear(d, s[o])
  BY <1>0, <1>1, ClearAt
<1>5. d = DeviceOf[w]
  BY <1>1
<1> QED
  BY <1>2, <1>3, <1>4, <1>5, Landing

LEMMA SaveRestoredInv ==
  ASSUME RunnerInv, NEW w \in Window, SaveRestored(w)
  PROVE  Kept
<1>1. PICK g \in FlightType : g = flight[w] /\ Fits(w, g) /\ Placed(g.saved) /\ g.pc = "restore"
  BY Own DEF SaveRestored
<1>2. g.saved \in LocatorType /\ g.saved.name \in Name
  BY <1>1 DEF Fits, FlightType
<1>3. CASE w \in Person
  <2>1. Solo /\ SoloInv => Clear(DeviceOf[w], g.saved)
    BY <1>1, <1>3 DEF SoloInv, Knows
  <2>2. view' \in [Person -> CommandOrNone]
    BY Own DEF SaveRestored
  <2>3. /\ flight' = [flight EXCEPT ![w] = Landed] /\ UNCHANGED <<vars, records, claimed>>
        /\ Save(w, g.saved)
    BY <1>1 DEF SaveRestored
  <2> QED
    BY <1>1, <1>2, <1>3, <2>1, <2>2, <2>3, SaveLanding
<1>4. w \in Person
  BY <1>1 DEF Fits
<1> QED
  BY <1>3, <1>4

LEMMA ShowType ==
  ASSUME RunnerInv, NEW w \in Window, Show(w)
  PROVE  view' \in [Person -> CommandOrNone]
<1>1. flight[w].found \in CommandOrNone /\ view \in [Person -> CommandOrNone]
  BY Own DEF FlightType
<1> QED
  BY <1>1 DEF Show, CommandOrNone

LEMMA PreparedInv ==
  ASSUME RunnerInv, NEW w \in Window, Prepared(w)
  PROVE  Kept
<1>1. PICK g \in FlightType :
        g = flight[w] /\ Fits(w, g) /\ g.pc = "return" /\ g.call = "prepare"
  BY Own DEF Prepared
<1>2. /\ flight' = [flight EXCEPT ![w] = Landed] /\ UNCHANGED <<vars, records, claimed>>
      /\ view' \in [Person -> CommandOrNone] /\ w \in Person
  BY <1>1, ShowType DEF Prepared, Fits
<1>3. PICK d \in Device, l \in LocatorType :
        d = DeviceOf[w] /\ l = locator[w] /\ Placed(l) /\ l.name \in Name
  BY <1>1, <1>2, Own DEF Located
<1>4. ASSUME NEW a \in Attempted, Save(w, [l EXCEPT !.attempted = a]),
             Solo /\ SoloInv /\ a = "no" => Open(d, l.name)
      PROVE  Kept
  <2>1. PICK m : m = [l EXCEPT !.attempted = a]
    OBVIOUS
  <2>2. m \in LocatorType /\ m.name = l.name /\ m.attempted = a
    BY <2>1 DEF LocatorType
  <2>3. Placed(m)
    BY <1>3, <2>2, NameParts DEF Placed
  <2>4. Solo /\ SoloInv => Clear(DeviceOf[w], m)
    BY <1>3, <1>4, <2>2 DEF Clear
  <2> QED
    BY <1>2, <1>3, <1>4, <2>1, <2>2, <2>3, <2>4, SaveLanding
<1>5. SoloInv => Knows(d, g, l, stored[d])
  BY <1>1, <1>2, <1>3 DEF SoloInv
<1>6. CASE g.receipt # "none" /\ Save(w, [l EXCEPT !.attempted = "no"])
  <2>1. SoloInv => Open(d, l.name)
    BY <1>1, <1>5, <1>6 DEF Knows, Open
  <2> QED
    BY <1>4, <1>6, <2>1 DEF Attempted
<1>7. CASE Save(w, [locator[w] EXCEPT !.attempted = IF @ = "unset" THEN "yes" ELSE @])
  <2>1. PICK a \in Attempted : a = IF l.attempted = "unset" THEN "yes" ELSE l.attempted
    BY DEF LocatorType, Attempted
  <2>2. Save(w, [l EXCEPT !.attempted = a])
    BY <1>3, <1>7, <2>1 DEF LocatorType
  <2>3. SoloInv /\ a = "no" => Open(d, l.name)
    BY <1>5, <2>1 DEF Knows, Clear
  <2> QED
    BY <1>4, <2>2, <2>3
<1>8. CASE UNCHANGED <<stored, locator>>
  BY <1>2, <1>8, PlainLanding
<1> QED
  BY <1>1, <1>3, <1>6, <1>7, <1>8 DEF Prepared

LEMMA SentRunInv ==
  ASSUME RunnerInv, NEW w \in Window, SentRun(w)
  PROVE  Kept
<1>1. PICK g \in FlightType :
        g = flight[w] /\ Fits(w, g) /\ g.pc \in {"return", "declined"} /\ g.call = "send"
  BY Own DEF SentRun
<1>2. /\ flight' = [flight EXCEPT ![w] = Landed] /\ UNCHANGED <<vars, records, claimed>>
      /\ w \in Person
  BY <1>1 DEF SentRun, Fits
<1>3. view' \in [Person -> CommandOrNone]
  BY Own DEF SentRun, CommandOrNone
<1>4. CASE UNCHANGED <<stored, locator>>
  BY <1>2, <1>3, <1>4, PlainLanding
<1>5. CASE g.pc = "declined" /\ Save(w, [locator[w] EXCEPT !.attempted = "no"])
  <2>1. PICK d \in Device, l \in LocatorType :
          d = DeviceOf[w] /\ l = locator[w] /\ Placed(l) /\ l.name \in Name
    BY <1>1, <1>2, Own DEF Located
  <2>2. PICK m : m = [l EXCEPT !.attempted = "no"]
    OBVIOUS
  <2>3. m \in LocatorType /\ m.name = l.name /\ m.attempted = "no"
    BY <2>2 DEF LocatorType, Attempted
  <2>4. Placed(m)
    BY <2>1, <2>3, NameParts DEF Placed
  <2>5. SoloInv => Knows(d, g, l, stored[d])
    BY <1>1, <1>2, <2>1 DEF SoloInv
  <2>6. Solo /\ SoloInv => Clear(DeviceOf[w], m)
    BY <1>1, <1>5, <2>1, <2>3, <2>5 DEF Clear, Knows
  <2> QED
    BY <1>2, <1>3, <1>5, <2>1, <2>2, <2>3, <2>4, <2>6, SaveLanding
<1> QED
  BY <1>1, <1>4, <1>5 DEF SentRun

LEMMA SendRunInv ==
  ASSUME RunnerInv, NEW w \in Window, NEW mode \in Mode, SendRun(w, mode)
  PROVE  Kept
<1>1. PICK d \in Device, old \in LocatorType :
        d = DeviceOf[w] /\ w \in Person /\ old = locator[w] /\ Placed(old) /\ old.attempted = "no"
  BY Own DEF SendRun
<1>2. old.name \in Name
  BY <1>1 DEF Placed, LocatorType, Names
<1>3. PICK l : l = [old EXCEPT !.attempted = "yes"]
  OBVIOUS
<1>4. l \in LocatorType /\ l.name = old.name /\ l.attempted = "yes"
  BY <1>3 DEF LocatorType, Attempted
<1>5. Placed(l)
  BY <1>1, <1>2, <1>4, NameParts DEF Placed
<1>6. stored' = [stored EXCEPT ![d][l.name[1]] = l] /\ locator' = [locator EXCEPT ![w] = l]
  BY <1>1, <1>3 DEF SendRun
<1>7. PICK s \in [Okr -> LocatorType] :
           /\ stored' = [stored EXCEPT ![d] = s]
           /\ \A o \in Okr : Belongs(o, s[o])
           /\ s[l.name[1]] = l
           /\ \A o \in Okr : o # l.name[1] => s[o] = stored[d][o]
  <2>1. PICK t : t = SavedRow(d, l)
    OBVIOUS
  <2>2. stored' = [stored EXCEPT ![d] = t]
    BY <1>6, <2>1, Own DEF SavedRow
  <2>3. /\ t \in [Okr -> LocatorType]
        /\ \A o \in Okr : Belongs(o, t[o])
        /\ t[l.name[1]] = l
        /\ \A o \in Okr : o # l.name[1] => t[o] = stored[d][o]
    BY <1>1, <1>2, <1>4, <1>5, <2>1, SavedAt
  <2> QED
    BY <2>2, <2>3
<1>8. PICK c \in Command : c = view[w]
  BY <1>1, Own DEF SendRun, CommandOrNone
<1>9. PICK input : input = [NoInput EXCEPT !.release = TRUE, !.expect = c, !.mode = mode]
  OBVIOUS
<1>10. /\ input \in InputType /\ input.release /\ input.expect = c /\ c # NoCommand
  BY <1>9, LandedIs, RunnerAssumption, ObjectiveAssumption DEF InputType, CommandOrNone, NoInput
<1>11. PICK f : f = [Landed EXCEPT !.pc = "claim", !.call = "send", !.name = l.name, !.input = input]
  OBVIOUS
<1>12. flight' = [flight EXCEPT ![w] = f]
  BY <1>1, <1>3, <1>8, <1>9, <1>11 DEF SendRun
<1>13. f \in FlightType
  BY <1>2, <1>4, <1>10, <1>11, LandedIs DEF FlightType, Pc, Names, CallType
<1>14. /\ f.pc = "claim" /\ f.call = "send" /\ f.input = input /\ f.name = l.name
       /\ f.status = "none" /\ f.receipt = "none" /\ f.saved = NoLocator
  BY <1>11 DEF Landed
<1>15. Fits(w, f) /\ Placed(f.saved) /\ ~Holding(f)
  BY <1>1, <1>2, <1>4, <1>10, <1>14, LandedIs DEF Fits, Holding
<1>16. Solo /\ SoloInv /\ w \in Person => Knows(d, f, l, s)
  <2> SUFFICES ASSUME Solo, SoloInv, w \in Person
               PROVE  Knows(d, f, l, s)
    OBVIOUS
  <2>1. Clear(d, old) /\ \A o \in Okr : Clear(d, stored[d][o])
    BY <1>1, ClearAt
  <2>2. Open(d, l.name)
    BY <1>1, <1>4, <2>1 DEF Clear
  <2>3. Clear(d, l) /\ Clear(d, f.saved)
    BY <1>4, <1>14 DEF Clear, NoLocator
  <2>4. \A o \in Okr : Clear(d, s[o])
    BY <1>7, <2>1, <2>3
  <2> QED
    BY <1>4, <1>7, <1>14, <2>2, <2>3, <2>4 DEF Knows
<1>17. /\ d = DeviceOf[w] /\ w \in Person => l \in LocatorType /\ Placed(l) /\ Located(f, l)
  BY <1>1, <1>2, <1>4, <1>5 DEF Located
<1>18. view' \in [Person -> CommandOrNone] /\ UNCHANGED <<vars, records, claimed>>
  BY Own DEF SendRun
<1>19. d = DeviceOf[w] /\ w \in Person
  BY <1>1
<1> QED
  BY <1>6, <1>7, <1>12, <1>13, <1>15, <1>16, <1>17, <1>18, <1>19, CallStep DEF Kept

LEMMA RestoreInv ==
  ASSUME RunnerInv, NEW w \in Window, Restore(w)
  PROVE  Kept
<1>1. PICK d \in Device, g \in FlightType :
        d = DeviceOf[w] /\ g = flight[w] /\ Fits(w, g) /\ g.pc = "return" /\ g.call = "read"
        /\ flight \in [Window -> FlightType]
  BY Own DEF Restore
<1>2. PICK o \in Okr : o = g.name[1] /\ g.name \in Name /\ w \in Person
  <2>1. g.name \in Name /\ w \in Person
    BY <1>1 DEF Fits
  <2> QED
    BY <2>1, NameParts
<1>3. UNCHANGED <<vars, records, claimed, stored>>
  BY DEF Restore
<1>4. CASE /\ flight' = [flight EXCEPT ![w] = Landed]
           /\ view' = [view EXCEPT ![w] = NoCommand]
           /\ locator' = [locator EXCEPT ![w] = NoLocator]
  <2>1. PICK l : l = NoLocator
    OBVIOUS
  <2>2. PICK s \in [Okr -> LocatorType] : s = stored[d]
    BY <1>1, Own
  <2>3. stored' = [stored EXCEPT ![d] = s] /\ \A p \in Okr : Belongs(p, s[p])
    BY <1>1, <1>3, <2>2, Own
  <2>4. l \in LocatorType /\ Placed(l) /\ locator' = [locator EXCEPT ![w] = l]
    BY <1>4, <2>1, LandedIs
  <2>5. view' \in [Person -> CommandOrNone]
    BY <1>4, Own DEF CommandOrNone
  <2>6. SoloInv => Clear(d, l) /\ \A p \in Okr : Clear(d, s[p])
    BY <1>1, <1>2, <2>1, <2>2, ClearAt DEF Clear, NoLocator
  <2>7. UNCHANGED <<vars, records, claimed>> /\ d = DeviceOf[w] /\ w \in Person
        /\ flight' = [flight EXCEPT ![w] = Landed]
    BY <1>1, <1>2, <1>3, <1>4
  <2> QED
    BY <2>3, <2>4, <2>5, <2>6, <2>7, Landing
<1>5. CASE /\ okr[o].state = "active" /\ okr[o].next < Length(o)
           /\ locator' = locator /\ Show(w)
           /\ \E v \in {"unset", "no", "yes"} :
                /\ flight' = [flight EXCEPT ![w].pc = "restore",
                     ![w].saved = [name |-> NameOf(o, okr[o].next), attempted |-> v]]
                /\ v = "no" => stored[d][o] = [name |-> NameOf(o, okr[o].next), attempted |-> v]
  <2>1. PICK k \in Nat : k = okr[o].next /\ k < Length(o)
    BY <1>5 DEF RunnerInv, ObjectiveInv, Shape, OkrType
  <2>2. PICK n \in Name : n = NameOf(o, k) /\ n[1] = o /\ n[2] = okr[o].agreement /\ n[3] = k
    BY <2>1, NameOfIs DEF RunnerInv
  <2>3. PICK v \in {"unset", "no", "yes"} :
          /\ flight' = [flight EXCEPT ![w].pc = "restore", ![w].saved = [name |-> n, attempted |-> v]]
          /\ v = "no" => stored[d][o] = [name |-> n, attempted |-> v]
    BY <1>5, <2>1, <2>2
  <2>4. PICK m : m = [name |-> n, attempted |-> v]
    OBVIOUS
  <2>5. m \in LocatorType /\ m.name = n /\ m.attempted = v
    BY <2>4 DEF LocatorType, Names, Attempted
  <2>6. Placed(m)
    BY <2>1, <2>2, <2>5, NameParts DEF Placed, Ahead, RunnerInv, ObjectiveInv, Shape, OkrType
  <2>7. PICK f : f = [g EXCEPT !.pc = "restore", !.saved = m]
    OBVIOUS
  <2>8. flight' = [flight EXCEPT ![w] = f]
    BY <1>1, <2>3, <2>4, <2>7 DEF FlightType
  <2>9. f \in FlightType
    BY <2>5, <2>7 DEF FlightType, Pc
  <2>10. /\ f.pc = "restore" /\ f.call = g.call /\ f.name = g.name /\ f.status = g.status
         /\ f.input = g.input /\ f.saved = m /\ f.receipt = g.receipt
         /\ f.found = g.found /\ f.command = g.command
    BY <2>7 DEF FlightType
  <2>11. Fits(w, f) /\ ~Holding(f)
    BY <1>1, <2>5, <2>10 DEF Fits, Holding
  <2>12. PICK s \in [Okr -> LocatorType], l \in LocatorType : s = stored[d] /\ l = locator[w]
    BY <1>1, <1>2, Own
  <2>13. SoloInv => Knows(d, f, l, s)
    <3> SUFFICES ASSUME SoloInv
                 PROVE  Knows(d, f, l, s)
      OBVIOUS
    <3>1. Clear(d, l) /\ \A p \in Okr : Clear(d, s[p])
      BY <1>1, <1>2, <2>12, ClearAt
    <3>2. Clear(d, m)
      BY <2>3, <2>4, <2>5, <2>12, <3>1 DEF Clear
    <3> QED
      BY <1>1, <2>10, <3>1, <3>2 DEF Knows
  <2>14. stored' = [stored EXCEPT ![d] = s] /\ \A p \in Okr : Belongs(p, s[p])
    BY <1>1, <1>3, <2>12, Own
  <2>15. Placed(l) /\ locator' = [locator EXCEPT ![w] = l] /\ Located(f, l) /\ Placed(f.saved)
    BY <1>1, <1>2, <1>5, <2>6, <2>10, <2>12, Own DEF Located
  <2>16. view' \in [Person -> CommandOrNone]
    BY <1>5, ShowType
  <2>17. UNCHANGED <<vars, records, claimed>> /\ d = DeviceOf[w] /\ w \in Person
    BY <1>1, <1>2, <1>3
  <2> QED
    BY <2>8, <2>9, <2>11, <2>13, <2>14, <2>15, <2>16, <2>17, CallStep DEF Kept
<1>6. ASSUME NEW n, NEW old, n = NameOf(o, okr[o].next), old = stored[d][o],
             NEW base, base = IF old.name = n THEN old ELSE [name |-> n, attempted |-> "unset"],
             NEW m, m = IF g.found # NoCommand /\ base.attempted = "unset"
                        THEN [base EXCEPT !.attempted = "yes"] ELSE base
      PROVE  \E v \in {"unset", "no", "yes"} :
               m = [name |-> n, attempted |-> v] /\ (v = "no" => old = m)
  <2>1. old \in LocatorType
    BY <1>1, <1>6, Own
  <2>2. PICK a \in Attempted : base = [name |-> n, attempted |-> a] /\ (a = "no" => base = old)
    BY <1>6, <2>1 DEF LocatorType, Attempted
  <2> QED
    BY <1>6, <2>2 DEF Attempted
<1>7. PICK n, old : n = NameOf(o, okr[o].next) /\ old = stored[d][o]
  OBVIOUS
<1>8. PICK base : base = IF old.name = n THEN old ELSE [name |-> n, attempted |-> "unset"]
  OBVIOUS
<1>9. PICK m : m = IF g.found # NoCommand /\ base.attempted = "unset"
                   THEN [base EXCEPT !.attempted = "yes"] ELSE base
  OBVIOUS
<1>10. PICK v \in {"unset", "no", "yes"} :
         m = [name |-> n, attempted |-> v] /\ (v = "no" => old = m)
  BY <1>6, <1>7, <1>8, <1>9
<1>11. CASE okr[o].state = "active" /\ okr[o].next < Length(o)
  <2>1. /\ flight' = [flight EXCEPT ![w].pc = "restore", ![w].saved = m]
        /\ Show(w) /\ locator' = locator
    BY <1>1, <1>2, <1>7, <1>8, <1>9, <1>11, ZenonT(40) DEF Restore
  <2> QED
    BY <1>5, <1>7, <1>10, <1>11, <2>1
<1>12. CASE ~(okr[o].state = "active" /\ okr[o].next < Length(o))
  BY <1>1, <1>2, <1>4, <1>12 DEF Restore
<1> QED
  BY <1>11, <1>12, Zenon

LEMMA AutonomyInv ==
  ASSUME RunnerInv, NEW w \in Window, Autonomy(w)
  PROVE  Kept
<1>1. PICK d \in Device, g \in FlightType :
        d = DeviceOf[w] /\ g = flight[w] /\ Fits(w, g) /\ g.pc = "return"
  BY Own DEF Autonomy
<1>2. w \in AutoSession /\ w \notin Person
  BY RunnerAssumption DEF Autonomy
<1>3. PICK o \in Okr : o = g.name[1] /\ g.name \in Name
  BY <1>1, NameParts DEF Fits
<1>4. UNCHANGED <<vars, records, claimed, stored, locator, view>>
  BY DEF Autonomy
<1>5. CASE /\ Advances(o, okr[o].next)
           /\ flight' = [flight EXCEPT ![w] =
                [Landed EXCEPT !.pc = "begin", !.call = "create", !.name = NameOf(o, okr[o].next),
                               !.input.create = TRUE]]
  <2>1. okr[o].next \in Nat /\ okr[o].next < Length(o)
    BY <1>5 DEF Advances, RunnerInv, ObjectiveInv, Shape, OkrType
  <2>2. NameOf(o, okr[o].next) \in Name
    BY <2>1, NameOfIs DEF RunnerInv
  <2> QED
    BY <1>2, <1>4, <1>5, <2>2, CallMade
<1>6. CASE /\ g.status = "queued"
           /\ flight' = [flight EXCEPT ![w] =
                [Landed EXCEPT !.pc = "claim", !.call = "deliver", !.name = g.name,
                               !.input = [NoInput EXCEPT !.release = TRUE, !.expect = g.found]]]
  <2>1. g.found \in Command /\ g.found # NoCommand
    BY <1>1, <1>6 DEF Fits, FlightType, CommandOrNone
  <2>2. PICK input : input = [NoInput EXCEPT !.release = TRUE, !.expect = g.found]
    OBVIOUS
  <2>3. input \in InputType /\ input.release /\ input.expect = g.found /\ input.mode = "coordinator"
    BY <2>1, <2>2, LandedIs DEF InputType, CommandOrNone, NoInput
  <2>4. PICK f : f = [Landed EXCEPT !.pc = "claim", !.call = "deliver", !.name = g.name,
                                    !.input = input]
    OBVIOUS
  <2>5. f \in FlightType
    BY <1>3, <2>3, <2>4, LandedIs, ZenonT(40) DEF FlightType, Pc, Names, CallType
  <2>6. /\ f.pc = "claim" /\ f.call = "deliver" /\ f.input = input /\ f.name = g.name
        /\ f.status = "none" /\ f.receipt = "none" /\ f.saved = NoLocator
    BY <2>4 DEF Landed
  <2>7. Fits(w, f) /\ Placed(f.saved) /\ ~Holding(f)
    BY <1>2, <1>3, <2>1, <2>3, <2>6, LandedIs DEF Fits, Holding
  <2>8. flight' = [flight EXCEPT ![w] = f]
    BY <1>6, <2>2, <2>4
  <2> QED
    BY <1>1, <1>2, <1>4, <2>5, <2>7, <2>8, FlightStep DEF Kept
<1>7. CASE flight' = [flight EXCEPT ![w] = Landed]
  BY <1>1, <1>2, <1>4, <1>7, LandedIs, FlightStep DEF Kept
<1> QED
  BY <1>1, <1>3, <1>5, <1>6, <1>7 DEF Autonomy

-----------------------------------------------------------------------------
(* The steps of a window that change what is shared.                       *)

\* The flight of one window moves, and the requests of its device with it.
LEMMA RecordMoved ==
  ASSUME RunnerInv, NEW w \in Window, NEW f \in FlightType,
         flight' = [flight EXCEPT ![w] = f], UNCHANGED <<vars, ticket, stored, locator, view>>,
         Fits(w, f)', Placed(f.saved), w \in Person => Located(f, locator[w]),
         \A c \in Command : signed[c] # "none" => signed'[c] = signed[c],
         RunnerShape', Submitted', Asked', Held'
  PROVE  RunnerInv'
<1>1. UNCHANGED vars /\ ticket' = ticket /\ stored' = stored /\ locator' = locator /\ view' = view
  OBVIOUS
<1>2. okr' = okr /\ claim' = claim
  BY <1>1 DEF vars
<1>3. ObjectiveInv'
  BY <1>1, NextInv DEF RunnerInv
<1>4. /\ flight'[w] = f
      /\ \A v \in Window : v # w => flight'[v] = flight[v]
  BY Own
<1>5. Versions' /\ TicketIsReservation' /\ Named'
  <2>1. Versions'
    BY <1>2 DEF RunnerInv, Versions
  <2>2. TicketIsReservation'
    BY <1>1, <1>2 DEF RunnerInv, TicketIsReservation, NameIn
  <2>3. Named'
    BY <1>2 DEF RunnerInv, Named, NameIn
  <2> QED
    BY <2>1, <2>2, <2>3
<1>6. Locators'
  <2>1. \A v \in Window : Placed(flight'[v].saved)
    BY <1>4 DEF RunnerInv, Locators
  <2>2. \A p \in Person : Located(flight'[p], locator[p])
    BY <1>4 DEF RunnerInv, Locators, Window
  <2> QED
    BY <1>1, <1>2, <2>1, <2>2 DEF RunnerInv, Locators, Placed, Ahead, Located
<1>7. \A v \in Window : Fits(v, flight[v])'
  <2> TAKE v \in Window
  <2>1. CASE v = w
    BY <1>4, <2>1 DEF Fits
  <2>2. CASE v # w
    <3>1. PICK g \in FlightType : g = flight[v] /\ g = flight'[v] /\ Fits(v, g)
      BY <1>4, <2>2, Own
    <3>2. g.pc = "submit" => signed'[g.command] = DeviceOf[v]
      BY <3>1, RunnerAssumption DEF Fits
    <3>3. Fits(v, g)'
      BY <1>1, <3>1, <3>2 DEF Fits
    <3> QED
      BY <3>1, <3>3 DEF Fits
  <2> QED
    BY <2>1, <2>2
<1> QED
  BY <1>3, <1>5, <1>6, <1>7 DEF RunnerInv

LEMMA RecordSolo ==
  ASSUME Solo, SoloInv, RunnerInv', OneWay',
         NEW w \in Window, NEW f, flight' = [flight EXCEPT ![w] = f],
         UNCHANGED <<vars, ticket, stored, locator>>,
         NEW d \in Device, d = DeviceOf[w], NEW l, NEW s, l = locator[w], s = stored[d],
         \A e \in Device \ {d}, c \in Command : Done(e, c)' => Done(e, c),
         w \in Person => Knows(d, f, l, s)'
  PROVE  SoloInv'
<1>1. RunnerInv
  BY DEF SoloInv
<1>2. UNCHANGED vars /\ ticket' = ticket /\ stored' = stored /\ locator' = locator
  OBVIOUS
<1>3. NowAt(w, d, f, l, s)
  <2>1. w \in Person => locator' = [locator EXCEPT ![w] = l]
    BY <1>1, <1>2, Own
  <2>2. stored' = [stored EXCEPT ![d] = s]
    BY <1>1, <1>2, Own
  <2> QED
    BY <1>2, <2>1, <2>2 DEF NowAt
<1>4. ASSUME NEW e \in Device \ {d}, NEW n \in Name, Open(e, n)
      PROVE  Open(e, n)'
  <2>1. Passed(n)' <=> Passed(n)
    BY <1>2 DEF Passed, vars
  <2>2. CASE ticket[n] = NoCommand
    BY <1>2, <2>2 DEF Open
  <2>3. CASE ticket[n] # NoCommand
    <3>1. PICK c \in Command : c = ticket[n] /\ c = ticket'[n]
      BY <1>1, <1>2, <2>3, Triples
    <3> QED
      BY <1>4, <2>1, <2>3, <3>1 DEF Open, Done
  <2> QED
    BY <2>2, <2>3
<1>5. \A e \in Device \ {d}, n \in Name : Open(e, n) => Open(e, n)'
  BY <1>4
<1>6. UNCHANGED vars
  BY <1>2
<1> QED
  BY <1>3, <1>5, <1>6, DialogMoved

\* A flight that goes on holds no more than before.
LEMMA HeldOn ==
  ASSUME RunnerInv, NEW w \in Window, NEW f, flight' = [flight EXCEPT ![w] = f],
         claimed' = claimed, sent' = sent,
         Holding(f) => Holding(flight[w]) /\ f.input.expect = flight[w].input.expect
  PROVE  Held'
<1>1. /\ flight'[w] = f
      /\ \A v \in Window : v # w => flight'[v] = flight[v]
  BY Own
<1>2. \A v \in Window : Holding(flight'[v]) =>
        Holding(flight[v]) /\ flight'[v].input.expect = flight[v].input.expect
  BY <1>1
<1>3. \A v \in Window : Holding(flight[v])' <=> Holding(flight'[v])
  BY DEF Holding
<1> QED
  BY <1>2, <1>3 DEF RunnerInv, Held

\* The flight f follows g in the same call.
Continues(f, g) ==
  /\ f.call = g.call /\ f.name = g.name /\ f.input = g.input /\ f.saved = g.saved
  /\ f.found = g.found /\ f.status = g.status
LEMMA MovedTo ==
  ASSUME NEW g \in FlightType, NEW pc \in Pc, NEW f, f = [g EXCEPT !.pc = pc]
  PROVE  /\ f \in FlightType /\ f.pc = pc /\ Continues(f, g)
         /\ f.receipt = g.receipt /\ f.command = g.command /\ f.pin = g.pin
  BY DEF FlightType, Continues

LEMMA ClaimRunInv ==
  ASSUME RunnerInv, NEW w \in Window, ClaimRun(w)
  PROVE  Kept
<1>1. PICK d \in Device, g \in FlightType :
        /\ d = DeviceOf[w] /\ g = flight[w] /\ Fits(w, g) /\ flight \in [Window -> FlightType]
        /\ g.pc = "claim"
  BY Own DEF ClaimRun
<1>2. PICK c \in Command : c = g.input.expect /\ g.input.release /\ g.call \in {"send", "deliver"}
  BY <1>1 DEF Fits, FlightType, InputType, CommandOrNone
<1>3. PICK f : f = [g EXCEPT !.pc = "begin"]
  OBVIOUS
<1>4. flight' = [flight EXCEPT ![w] = f]
  BY <1>1, <1>3 DEF ClaimRun, Goto
<1>5. /\ f \in FlightType /\ f.pc = "begin" /\ Continues(f, g)
      /\ f.receipt = g.receipt /\ f.command = g.command
  BY <1>3, MovedTo DEF Pc
<1>6. UNCHANGED <<vars, records, stored, locator, view>>
  BY DEF ClaimRun
<1>7. /\ ticket' = ticket /\ journal' = journal /\ dispatch' = dispatch /\ pool' = pool
      /\ signed' = signed /\ published' = published /\ sent' = sent
      /\ stored' = stored /\ locator' = locator /\ view' = view
      /\ okr' = okr /\ claim' = claim
  BY <1>6 DEF records, vars
<1>8. Fits(w, f)'
  BY <1>1, <1>5, <1>7 DEF Fits, Continues
<1>9. Placed(f.saved) /\ (w \in Person => Located(f, locator[w]))
  BY <1>1, <1>5, Own DEF Located, Continues
<1>10. /\ claimed' \in [Device -> SUBSET Command]
       /\ \A e \in Device : claimed[e] \subseteq claimed'[e]
       /\ g.input.mode # "chain" => c \notin claimed[d] /\ c \in claimed'[d]
  <2>1. claimed \in [Device -> SUBSET Command]
    BY DEF RunnerInv, RunnerShape
  <2>2. CASE g.input.mode = "chain"
    BY <1>1, <2>1, <2>2 DEF ClaimRun
  <2>3. CASE g.input.mode # "chain"
    <3>1. c \notin claimed[d] /\ claimed' = [claimed EXCEPT ![d] = claimed[d] \cup {c}]
      BY <1>1, <1>2, <2>3 DEF ClaimRun, Claim
    <3> QED
      BY <2>1, <3>1
  <2> QED
    BY <2>2, <2>3
<1>11. flight' \in [Window -> FlightType] /\ flight'[w] = f
       /\ \A v \in Window : v # w => flight'[v] = flight[v]
  BY <1>1, <1>4, <1>5
<1>12. RunnerShape'
  BY <1>7, <1>10, <1>11 DEF RunnerInv, RunnerShape
<1>13. Submitted'
  BY <1>7 DEF RunnerInv, Submitted
<1>14. Asked'
  BY <1>7, <1>10 DEF RunnerInv, Asked, Done, Ahead, NameIn
<1>15. Held'
  <2>1. \A v \in Window : Holding(flight[v])' <=> Holding(flight'[v])
    BY DEF Holding
  <2>2. \A v \in Window : v # w /\ Holding(flight'[v]) =>
          /\ flight'[v].input.expect \in claimed[DeviceOf[v]]
          /\ sent[DeviceOf[v]][flight'[v].input.expect] = 0
    BY <1>11 DEF RunnerInv, Held
  <2>3. \A v \in Window : DeviceOf[v] \in Device
    BY RunnerAssumption
  <2>4. Holding(f) => g.input.mode # "chain" /\ f.input.expect = c
    BY <1>2, <1>5 DEF Holding, Continues
  <2>5. c \notin claimed[d] => sent[d][c] = 0
    BY DEF RunnerInv, Asked, RunnerShape
  <2>6. ASSUME NEW v \in Window, Holding(flight'[v])
        PROVE  /\ flight'[v].input.expect \in claimed'[DeviceOf[v]]
               /\ sent[DeviceOf[v]][flight'[v].input.expect] = 0
    <3>1. CASE v = w
      BY <1>1, <1>10, <1>11, <2>4, <2>5, <2>6, <3>1
    <3>2. CASE v # w
      BY <1>10, <2>2, <2>3, <2>6, <3>2
    <3> QED
      BY <3>1, <3>2
  <2>7. ASSUME NEW v \in Window, NEW x \in Window, Holding(flight'[v]), Holding(flight'[x]),
               DeviceOf[x] = DeviceOf[v], flight'[x].input.expect = flight'[v].input.expect
        PROVE  x = v
    <3>1. CASE v = w /\ x # w
      BY <1>1, <1>10, <1>11, <2>2, <2>4, <2>7, <3>1
    <3>2. CASE v # w /\ x = w
      BY <1>1, <1>10, <1>11, <2>2, <2>4, <2>7, <3>2
    <3>3. CASE v # w /\ x # w
      BY <1>11, <2>7, <3>3 DEF RunnerInv, Held
    <3> QED
      BY <3>1, <3>2, <3>3
  <2> QED
    BY <1>7, <2>1, <2>6, <2>7 DEF Held
<1>16. RunnerInv'
  BY <1>4, <1>5, <1>6, <1>7, <1>8, <1>9, <1>12, <1>13, <1>14, <1>15, RecordMoved
<1>17. ASSUME Solo, SoloInv
       PROVE  SoloInv'
  <2>1. OneWay'
    BY <1>7, <1>17 DEF SoloInv, OneWay
  <2>2. PICK l, s : l = locator[w] /\ s = stored[d]
    OBVIOUS
  <2>3. w \in Person => Knows(d, g, l, s)
    BY <1>1, <1>17, <2>2 DEF SoloInv
  <2>4. w \in Person => Knows(d, f, l, s)
    BY <1>1, <1>2, <1>5, <2>3 DEF Knows, Continues
  <2>5. w \in Person => Knows(d, f, l, s)'
    BY <1>7, <2>4 DEF Knows, Clear, Open, Passed, Done
  <2>6. \A e \in Device \ {d}, x \in Command : Done(e, x)' => Done(e, x)
    BY <1>7 DEF Done
  <2>7. UNCHANGED <<vars, ticket, stored, locator>> /\ d = DeviceOf[w]
    BY <1>1, <1>6, <1>7
  <2> QED
    BY <1>4, <1>16, <1>17, <2>1, <2>2, <2>5, <2>6, <2>7, RecordSolo
<1> QED
  BY <1>16, <1>17 DEF Kept

LEMMA SignInv ==
  ASSUME RunnerInv, NEW w \in Window, Sign(w)
  PROVE  Kept
<1>1. PICK d \in Device, g \in FlightType :
        /\ d = DeviceOf[w] /\ g = flight[w] /\ Fits(w, g) /\ flight \in [Window -> FlightType]
        /\ g.pc = "sign"
  BY Own DEF Sign
<1>2. UNCHANGED <<vars, ticket, journal, dispatch, pool, published, sent,
                  claimed, stored, locator, view>>
  BY DEF Sign
<1>3. CASE Return(w) /\ UNCHANGED signed
  <2>1. UNCHANGED <<vars, records, claimed, stored, locator, view>>
    BY <1>2, <1>3 DEF records
  <2> QED
    BY <1>1, <1>3, <2>1, ReturnStep
<1>4. ASSUME NEW c \in Command, signed[c] = "none", signed' = [signed EXCEPT ![c] = DeviceOf[w]],
             flight' = [flight EXCEPT ![w].pc = "submit", ![w].command = c]
      PROVE  Kept
  <2>1. PICK f : f = [g EXCEPT !.pc = "submit", !.command = c]
    OBVIOUS
  <2>2. flight' = [flight EXCEPT ![w] = f]
    BY <1>1, <1>4, <2>1 DEF FlightType
  <2>3. f \in FlightType
    BY <2>1 DEF FlightType, Pc, CommandOrNone
  <2>4. f.pc = "submit" /\ f.command = c /\ Continues(f, g) /\ f.receipt = g.receipt
    BY <2>1 DEF FlightType, Continues
  <2>5. /\ ticket' = ticket /\ journal' = journal /\ dispatch' = dispatch /\ pool' = pool
        /\ published' = published /\ sent' = sent /\ claimed' = claimed
        /\ stored' = stored /\ locator' = locator /\ view' = view
        /\ okr' = okr /\ claim' = claim /\ UNCHANGED vars
    BY <1>2 DEF vars
  <2>6. /\ signed' \in [Command -> Device \cup {"none"}] /\ signed'[c] = d
        /\ \A x \in Command : signed[x] # "none" => signed'[x] = signed[x]
    BY <1>1, <1>4 DEF RunnerInv, RunnerShape
  <2>7. Fits(w, f)'
    BY <1>1, <2>4, <2>5, <2>6 DEF Fits, Continues
  <2>8. Placed(f.saved) /\ (w \in Person => Located(f, locator[w]))
    BY <1>1, <2>4, Own DEF Located, Continues
  <2>9. RunnerShape'
    <3>1. flight' \in [Window -> FlightType]
      BY <1>1, <2>2, <2>3
    <3> QED
      BY <2>5, <2>6, <3>1 DEF RunnerInv, RunnerShape
  <2>10. Submitted'
    <3>1. \A tx \in pool : tx.kind = "ticket" => signed'[tx.command] = tx.device
      BY <2>6, RunnerAssumption DEF RunnerInv, RunnerShape, Submitted, TxType
    <3>2. \A n \in Name : ticket[n] # NoCommand => signed'[ticket[n]] = signed[ticket[n]]
      BY <2>6, Triples, RunnerAssumption DEF RunnerInv, Submitted
    <3> QED
      BY <2>5, <3>1, <3>2 DEF RunnerInv, Submitted
  <2>11. Asked'
    <3>1. \A e \in Device, x \in Command : signed[x] = e => signed'[x] = e
      BY <2>6, RunnerAssumption
    <3> QED
      BY <2>5, <3>1 DEF RunnerInv, Asked, Done, Ahead, NameIn
  <2>12. Held'
    <3>1. Holding(f) => Holding(flight[w]) /\ f.input.expect = flight[w].input.expect
      BY <1>1, <2>4 DEF Holding, Continues
    <3> QED
      BY <2>2, <2>5, <3>1, HeldOn
  <2>13. RunnerInv'
    BY <2>2, <2>3, <2>5, <2>6, <2>7, <2>8, <2>9, <2>10, <2>11, <2>12, RecordMoved
  <2>14. ASSUME Solo, SoloInv
         PROVE  SoloInv'
    <3>1. OneWay'
      BY <2>5, <2>14 DEF SoloInv, OneWay
    <3>2. PICK l, s : l = locator[w] /\ s = stored[d]
      OBVIOUS
    <3>3. w \in Person => Knows(d, g, l, s)
      BY <1>1, <2>14, <3>2 DEF SoloInv
    <3>4. w \in Person => Knows(d, f, l, s)
      BY <1>1, <2>4, <3>3 DEF Knows, Continues
    <3>5. w \in Person => Knows(d, f, l, s)'
      BY <2>5, <3>4 DEF Knows, Clear, Open, Passed, Done
    <3>6. \A e \in Device \ {d}, x \in Command : Done(e, x)' => Done(e, x)
      BY <2>5 DEF Done
    <3>7. UNCHANGED <<vars, ticket, stored, locator>> /\ d = DeviceOf[w]
      BY <1>1, <2>5
    <3> QED
      BY <2>2, <2>13, <2>14, <3>1, <3>2, <3>5, <3>6, <3>7, RecordSolo
  <2> QED
    BY <2>13, <2>14 DEF Kept
<1> QED
  BY <1>3, <1>4 DEF Sign

LEMMA SubmitInv ==
  ASSUME RunnerInv, NEW w \in Window, Submit(w)
  PROVE  Kept
<1>1. PICK d \in Device, g \in FlightType :
        /\ d = DeviceOf[w] /\ g = flight[w] /\ Fits(w, g) /\ flight \in [Window -> FlightType]
        /\ g.pc = "submit"
  BY Own DEF Submit
<1>2. UNCHANGED <<vars, ticket, dispatch, signed, published, sent, claimed, stored, locator, view>>
  BY DEF Submit
<1>3. PICK n \in Name, c \in Command : n = g.name /\ c = g.command /\ signed[c] = d
  BY <1>1 DEF Fits
<1>4. CASE Return(w) /\ UNCHANGED <<journal, pool, unknown>>
  <2>1. UNCHANGED <<vars, records, claimed, stored, locator, view>>
    BY <1>2, <1>4 DEF records
  <2> QED
    BY <1>1, <1>4, <2>1, ReturnStep
<1>5. CASE Goto(w, "sent") /\ UNCHANGED <<journal, pool>>
  <2>1. UNCHANGED <<vars, records, claimed, stored, locator, view>>
    BY <1>2, <1>5 DEF records
  <2>2. PICK f : f = [g EXCEPT !.pc = "sent"]
    OBVIOUS
  <2>3. flight' = [flight EXCEPT ![w] = f]
    BY <1>1, <1>5, <2>2 DEF Goto
  <2>4. /\ f \in FlightType /\ f.pc = "sent" /\ Continues(f, g)
        /\ f.receipt = g.receipt /\ f.command = g.command
    BY <2>2, MovedTo DEF Pc
  <2>5. Fits(w, f)
    BY <1>1, <2>4 DEF Fits, Continues
  <2> QED
    BY <1>1, <2>1, <2>3, <2>4, <2>5, Onward DEF Continues, Running
<1>6. CASE /\ Fresh(w)
           /\ journal' = [journal EXCEPT ![DeviceOf[w]][flight[w].name] = "pending"]
           /\ pool' = pool \cup {[kind |-> "ticket", device |-> DeviceOf[w],
                                  name |-> flight[w].name, command |-> flight[w].command]}
           /\ flight' = [flight EXCEPT ![w].pc = "sent", ![w].receipt = "pending"]
  <2>1. PICK f : f = [g EXCEPT !.pc = "sent", !.receipt = "pending"]
    OBVIOUS
  <2>2. flight' = [flight EXCEPT ![w] = f]
    BY <1>1, <1>6, <2>1 DEF FlightType
  <2>3. f \in FlightType
    BY <2>1 DEF FlightType, Pc, Request
  <2>4. f.pc = "sent" /\ Continues(f, g) /\ f.receipt = "pending"
    BY <2>1 DEF FlightType, Continues
  <2>5. /\ ticket' = ticket /\ signed' = signed /\ dispatch' = dispatch
        /\ published' = published /\ sent' = sent /\ claimed' = claimed
        /\ stored' = stored /\ locator' = locator /\ view' = view
        /\ okr' = okr /\ claim' = claim /\ UNCHANGED vars
    BY <1>2 DEF vars
  <2>6. /\ journal' \in [Device -> [Name -> Request]] /\ journal'[d][n] = "pending"
        /\ \A e \in Device, m \in Name : e # d \/ m # n => journal'[e][m] = journal[e][m]
    <3>1. journal \in [Device -> [Name -> Request]] /\ "pending" \in Request
      BY DEF RunnerInv, RunnerShape, Request
    <3>2. journal' = [journal EXCEPT ![d][n] = "pending"]
      BY <1>1, <1>3, <1>6
    <3> QED
      BY <3>1, <3>2, EntryChanged
  <2>7. \A e \in Device, m \in Name : journal[e][m] # "none" => journal'[e][m] # "none"
    BY <2>6
  <2>8. PICK tx \in TxType : /\ tx.kind = "ticket" /\ tx.device = d /\ tx.name = n /\ tx.command = c
                             /\ pool' = pool \cup {tx}
    BY <1>1, <1>3, <1>6 DEF TxType
  <2>9. Fits(w, f)'
    BY <1>1, <2>4, <2>5 DEF Fits, Continues
  <2>10. Placed(f.saved) /\ (w \in Person => Located(f, locator[w]))
    BY <1>1, <2>4, Own DEF Located, Continues
  <2>11. RunnerShape'
    <3>1. flight' \in [Window -> FlightType]
      BY <1>1, <2>2, <2>3
    <3> QED
      BY <2>5, <2>6, <2>8, <3>1 DEF RunnerInv, RunnerShape
  <2>12. Submitted'
    <3>1. ASSUME NEW x \in pool'
          PROVE  /\ x.kind = "ticket" =>
                      signed[x.command] = x.device /\ journal'[x.device][x.name] # "none"
                 /\ x.kind = "delivery" => dispatch[x.device][x.command] # "none"
      <4>1. CASE x = tx
        BY <1>3, <2>6, <2>8, <4>1
      <4>2. CASE x \in pool
        <5>1. x \in TxType
          BY <4>2 DEF RunnerInv, RunnerShape
        <5> QED
          BY <2>7, <4>2, <5>1 DEF RunnerInv, Submitted, TxType
      <4> QED
        BY <2>8, <4>1, <4>2
    <3>2. \A m \in Name : ticket[m] # NoCommand =>
            signed[ticket[m]] \in Device /\ journal'[signed[ticket[m]]][m] # "none"
      BY <2>7 DEF RunnerInv, Submitted
    <3> QED
      BY <2>5, <3>1, <3>2 DEF Submitted
  <2>13. Asked'
    BY <2>5 DEF RunnerInv, Asked, Done, Ahead, NameIn
  <2>14. Held'
    <3>1. Holding(f) => Holding(flight[w]) /\ f.input.expect = flight[w].input.expect
      BY <1>1, <2>4 DEF Holding, Continues
    <3> QED
      BY <2>2, <2>5, <3>1, HeldOn
  <2>15. RunnerInv'
    BY <2>2, <2>3, <2>5, <2>9, <2>10, <2>11, <2>12, <2>13, <2>14, RecordMoved
  <2>16. ASSUME Solo, SoloInv
         PROVE  SoloInv'
    <3>1. OneWay'
      BY <2>5, <2>16 DEF SoloInv, OneWay
    <3>2. PICK l, s : l = locator[w] /\ s = stored[d]
      OBVIOUS
    <3>3. w \in Person => Knows(d, g, l, s)
      BY <1>1, <2>16, <3>2 DEF SoloInv
    <3>4. Open(d, n)
      <4>1. journal[d][n] = "none"
        BY <1>1, <1>3, <1>6 DEF Fresh
      <4>2. ticket[n] # NoCommand => ticket[n] \in Command /\ signed[ticket[n]] # d
        BY <4>1, Triples DEF RunnerInv, Submitted
      <4> QED
        BY <4>2 DEF RunnerInv, Asked, Open
    <3>5. w \in Person => Knows(d, f, l, s)
      BY <1>1, <1>3, <2>4, <3>3, <3>4 DEF Knows, Continues
    <3>6. w \in Person => Knows(d, f, l, s)'
      BY <2>5, <3>5 DEF Knows, Clear, Open, Passed, Done
    <3>7. \A e \in Device \ {d}, x \in Command : Done(e, x)' => Done(e, x)
      BY <2>5 DEF Done
    <3>8. UNCHANGED <<vars, ticket, stored, locator>> /\ d = DeviceOf[w]
      BY <1>1, <2>5
    <3> QED
      BY <2>2, <2>15, <2>16, <3>1, <3>2, <3>6, <3>7, <3>8, RecordSolo
  <2> QED
    BY <2>15, <2>16 DEF Kept
<1> QED
  BY <1>4, <1>5, <1>6 DEF Submit

\* A flight has delivered the run t of its name, one way or the other: what the
\* dialog remembers does not offer it again.
LEMMA KnowsClosed ==
  ASSUME RunnerInv, SoloInv, NEW w \in Person, NEW d \in Device, d = DeviceOf[w],
         NEW g, g = flight[w], g.pc \in {"send", "queue"},
         NEW f, f.pc = "return", Continues(f, g), f.receipt = g.receipt,
         UNCHANGED <<vars, ticket>>,
         NEW t \in Command, t = ticket[g.name],
         \A c \in Command \ {t} : Done(d, c)' => Done(d, c),
         g.call = "send" \/ (g.call = "schedule" /\ Ahead(g.name)),
         NEW l, NEW s, l = locator[w], s = stored[d]
  PROVE  Knows(d, f, l, s)'
<1>1. okr' = okr /\ claim' = claim /\ ticket' = ticket
  BY DEF vars
<1>2. Knows(d, g, l, s)
  BY DEF SoloInv
<1>3. w \in Window /\ g.name \in Name
  BY Own DEF Window, Fits
<1>4. ASSUME NEW n \in Name, n # g.name, Open(d, n)
      PROVE  Open(d, n)'
  <2>1. Passed(n)' <=> Passed(n)
    BY <1>1 DEF Passed
  <2>2. CASE ticket[n] = NoCommand
    BY <1>1, <2>2 DEF Open
  <2>3. CASE ticket[n] # NoCommand
    <3>1. PICK c \in Command : c = ticket[n] /\ c = ticket'[n]
      BY <1>1, <2>3, Triples
    <3>2. c # t
      BY <1>3, <1>4, <3>1, ObjectiveAssumption DEF RunnerInv, TicketIsReservation
    <3> QED
      BY <1>4, <2>1, <2>3, <3>1, <3>2 DEF Open, Done
  <2> QED
    BY <2>2, <2>3
<1>5. f.saved = NoLocator
  BY <1>2 DEF Knows, Continues
<1>6. Clear(d, f.saved)'
  BY <1>5 DEF Clear, NoLocator
<1>7. /\ l \in LocatorType /\ Placed(l)
      /\ \A o \in Okr : s[o] \in LocatorType /\ Belongs(o, s[o])
  BY <1>3, Own
<1>8. Clear(d, l)'
  <2>1. l.attempted = "no" => l.name \in Name /\ Open(d, l.name) /\ l.name # g.name
    BY <1>2, <1>3, <1>7, NameParts DEF Knows, Clear, Placed, LocatorType, Names
  <2> QED
    BY <1>4, <2>1 DEF Clear
<1>9. ASSUME NEW o \in Okr
      PROVE  Clear(d, s[o])'
  <2>1. s[o].attempted = "no" => s[o].name \in Name /\ s[o].name[1] = o /\ ~Ahead(s[o].name)
    BY <1>7, NameParts DEF Belongs, Placed
  <2>2. s[o].attempted = "no" => Open(d, s[o].name)
    BY <1>2 DEF Knows, Clear
  <2>3. s[o].attempted = "no" => s[o].name # g.name
    BY <1>2, <2>1 DEF Knows
  <2> QED
    BY <1>4, <2>1, <2>2, <2>3 DEF Clear
<1> QED
  BY <1>1, <1>2, <1>5, <1>6, <1>8, <1>9 DEF Knows, Continues

\* A run that policyPin lets pass is the present one of its name, or one ahead.
LEMMA PinnedName ==
  ASSUME RunnerInv, NEW w \in Window, NEW n \in Name, NEW t \in Command, t = ticket[n],
         NEW scheduled, Pinned(w, t, scheduled)
  PROVE  /\ NameIn(t) = n /\ claim[t].okr = n[1] /\ claim[t].okr # "none"
         /\ signed[t] = DeviceOf[w]
         /\ ~scheduled => ~Passed(n) /\ ~Ahead(n)
<1>1. NameIn(t) = n
  BY ObjectiveAssumption DEF RunnerInv, TicketIsReservation
<1>2. /\ n[1] \in Okr /\ n[2] \in Nat /\ n[3] \in Nat
      /\ claim[t].okr = n[1] /\ claim[t].agreement = n[2] /\ claim[t].kr = n[3]
  BY <1>1, NameParts DEF NameIn
<1>3. okr[n[1]].agreement \in Nat /\ okr[n[1]].next \in Nat
  BY <1>2 DEF RunnerInv, ObjectiveInv, Shape, OkrType
<1> QED
  BY <1>1, <1>2, <1>3, ObjectiveAssumption DEF Pinned, Passed, Ahead

LEMMA SendInv ==
  ASSUME RunnerInv, NEW w \in Window, Send(w)
  PROVE  Kept
<1>1. PICK d \in Device, g \in FlightType :
        /\ d = DeviceOf[w] /\ g = flight[w] /\ Fits(w, g) /\ flight \in [Window -> FlightType]
        /\ g.pc = "send"
  BY Own DEF Send
<1>2. UNCHANGED <<vars, ticket, journal, dispatch, pool, signed, published,
                  claimed, stored, locator, view>>
  BY DEF Send
<1>3. PICK n \in Name, t \in Command : n = g.name /\ t = g.found /\ t = ticket[n]
  BY <1>1, Triples DEF Fits
<1>4. Return(w)
  BY DEF Send
<1>5. CASE sent' = sent
  <2>1. UNCHANGED <<vars, records, claimed, stored, locator, view>>
    BY <1>2, <1>5 DEF records
  <2> QED
    BY <1>1, <1>4, <2>1, ReturnStep
<1>6. CASE Pinned(w, t, FALSE) /\ sent' = [sent EXCEPT ![d][t] = @ + 1]
  <2>1. PICK f : f = [g EXCEPT !.pc = "return"]
    OBVIOUS
  <2>2. flight' = [flight EXCEPT ![w] = f]
    BY <1>1, <1>4, <2>1 DEF Return
  <2>3. /\ f \in FlightType /\ f.pc = "return" /\ Continues(f, g)
        /\ f.receipt = g.receipt /\ f.command = g.command
    BY <2>1, MovedTo DEF Pc
  <2>4. /\ ticket' = ticket /\ journal' = journal /\ dispatch' = dispatch /\ pool' = pool
        /\ signed' = signed /\ published' = published /\ claimed' = claimed
        /\ stored' = stored /\ locator' = locator /\ view' = view
        /\ okr' = okr /\ claim' = claim /\ UNCHANGED vars
    BY <1>2 DEF vars
  <2>5. Holding(g) /\ g.input.expect = t
    BY <1>1, <1>3 DEF Holding, Fits
  <2>6. t \in claimed[d] /\ sent[d][t] = 0
    BY <1>1, <2>5 DEF RunnerInv, Held
  <2>7. /\ sent' \in [Device -> [Command -> Nat]] /\ sent'[d][t] = 1
        /\ \A e \in Device, c \in Command : e # d \/ c # t => sent'[e][c] = sent[e][c]
    <3>1. sent \in [Device -> [Command -> Nat]] /\ 1 \in Nat
      BY DEF RunnerInv, RunnerShape
    <3>2. PICK one \in Nat : one = 1 /\ one = sent[d][t] + 1
      BY <2>6
    <3>3. sent' = [sent EXCEPT ![d][t] = one]
      BY <1>6, <3>2
    <3> QED
      BY <3>1, <3>2, <3>3, EntryChanged
  <2>8. /\ NameIn(t) = n /\ claim[t].okr # "none" /\ signed[t] = d /\ ~Passed(n) /\ ~Ahead(n)
    BY <1>1, <1>3, <1>6, PinnedName
  <2>9. Fits(w, f)'
    BY <1>1, <2>3, <2>4 DEF Fits, Continues
  <2>10. Placed(f.saved) /\ (w \in Person => Located(f, locator[w]))
    BY <1>1, <2>3, Own DEF Located, Continues
  <2>11. flight' \in [Window -> FlightType] /\ flight'[w] = f
         /\ \A v \in Window : v # w => flight'[v] = flight[v]
    BY <1>1, <2>2, <2>3
  <2>12. RunnerShape'
    BY <2>4, <2>7, <2>11 DEF RunnerInv, RunnerShape
  <2>13. Submitted'
    BY <2>4 DEF RunnerInv, Submitted
  <2>14. Asked'
    <3> SUFFICES ASSUME NEW e \in Device, NEW c \in Command
        PROVE  /\ sent'[e][c] > 0 \/ dispatch[e][c] # "none" => signed[c] = e /\ claim[c].okr # "none"
               /\ sent'[e][c] > 0 => c \in claimed[e] /\ ~Ahead(NameIn(c))
               /\ dispatch[e][c] # "none" => \E v \in Person : DeviceOf[v] = e
      BY <2>4 DEF Asked, Done, Ahead, NameIn
    <3>1. CASE e = d /\ c = t
      BY <2>6, <2>8, <3>1 DEF RunnerInv, Asked
    <3>2. CASE e # d \/ c # t
      BY <2>7, <3>2 DEF RunnerInv, Asked, Done
    <3> QED
      BY <3>1, <3>2
  <2>15. Held'
    <3>1. ~Holding(f)
      BY <2>3 DEF Holding
    <3>2. \A v \in Window : Holding(flight'[v]) => v # w /\ flight'[v] = flight[v] /\ Holding(flight[v])
      BY <2>11, <3>1
    <3>3. \A v \in Window : Holding(flight[v])' <=> Holding(flight'[v])
      BY DEF Holding
    <3>4. \A v \in Window : DeviceOf[v] \in Device /\ claimed[DeviceOf[v]] \subseteq Command
      BY RunnerAssumption DEF RunnerInv, RunnerShape
    <3>5. ASSUME NEW v \in Window, Holding(flight'[v])
          PROVE  /\ flight'[v].input.expect \in claimed[DeviceOf[v]]
                 /\ sent'[DeviceOf[v]][flight'[v].input.expect] = 0
      <4>1. PICK c \in Command : c = flight[v].input.expect /\ c \in claimed[DeviceOf[v]]
                                 /\ sent[DeviceOf[v]][c] = 0
        BY <3>2, <3>4, <3>5 DEF RunnerInv, Held
      <4>2. DeviceOf[v] # d \/ c # t
        BY <1>1, <2>5, <3>2, <3>5, <4>1 DEF RunnerInv, Held
      <4>3. sent'[DeviceOf[v]][c] = 0
        BY <2>7, <3>4, <4>1, <4>2
      <4> QED
        BY <3>2, <3>5, <4>1, <4>3
    <3> QED
      BY <2>4, <3>2, <3>3, <3>5 DEF RunnerInv, Held
  <2>16. RunnerInv'
    BY <2>2, <2>3, <2>4, <2>9, <2>10, <2>12, <2>13, <2>14, <2>15, RecordMoved
  <2>17. ASSUME Solo, SoloInv
         PROVE  SoloInv'
    <3>1. PICK l, s : l = locator[w] /\ s = stored[d]
      OBVIOUS
    <3>2. g.call \in {"send", "deliver"}
      BY <1>1 DEF Fits
    <3>3. w \in Person => Knows(d, g, l, s) /\ g.call = "send"
      BY <1>1, <2>17, <3>1, <3>2, RunnerAssumption DEF SoloInv, Fits
    <3>4. dispatch[d][t] = "none"
      <4>1. CASE w \in Person
        <5>1. Open(d, n)
          BY <1>1, <1>3, <3>3, <4>1 DEF Knows
        <5> QED
          BY <1>3, <2>8, <5>1, ObjectiveAssumption DEF Open, Done
      <4>2. CASE w \notin Person
        <5>1. \A v \in Person : v \in Window /\ v # w
          BY <4>2 DEF Window
        <5> QED
          BY <1>1, <2>17, <5>1 DEF RunnerInv, Asked, Solo
      <4> QED
        BY <4>1, <4>2
    <3>5. OneWay'
      BY <2>4, <2>7, <2>17, <3>4 DEF SoloInv, OneWay
    <3>6. \A e \in Device, c \in Command : e # d \/ c # t => (Done(e, c)' => Done(e, c))
      BY <2>4, <2>7 DEF Done
    <3>7. w \in Person => Knows(d, f, l, s)'
      <4> SUFFICES ASSUME w \in Person
                   PROVE  Knows(d, f, l, s)'
        OBVIOUS
      <4>1. UNCHANGED <<vars, ticket>> /\ \A c \in Command \ {t} : Done(d, c)' => Done(d, c)
        BY <2>4, <3>6
      <4> QED
        BY <1>1, <1>3, <2>3, <2>17, <3>1, <3>3, <4>1, KnowsClosed
    <3>8. UNCHANGED <<vars, ticket, stored, locator>> /\ d = DeviceOf[w]
      BY <1>1, <2>4
    <3>9. \A e \in Device \ {d}, c \in Command : Done(e, c)' => Done(e, c)
      BY <3>6
    <3> QED
      BY <2>2, <2>16, <2>17, <3>1, <3>5, <3>7, <3>8, <3>9, RecordSolo
  <2> QED
    BY <2>16, <2>17 DEF Kept
<1> QED
  BY <1>1, <1>3, <1>5, <1>6 DEF Send

LEMMA QueueTargetInv ==
  ASSUME RunnerInv, NEW w \in Window, QueueTarget(w)
  PROVE  Kept
<1>1. PICK d \in Device, g \in FlightType :
        /\ d = DeviceOf[w] /\ g = flight[w] /\ Fits(w, g) /\ flight \in [Window -> FlightType]
        /\ g.pc = "queue"
  BY Own DEF QueueTarget
<1>2. UNCHANGED <<vars, ticket, journal, signed, published, sent,
                  claimed, stored, locator, view>>
  BY DEF QueueTarget
<1>3. PICK n \in Name, t \in Command : n = g.name /\ t = g.found /\ t = ticket[n]
  BY <1>1, Triples DEF Fits
<1>4. g.call \in {"send", "schedule"} /\ w \in Person
  BY <1>1 DEF Fits
<1>5. CASE Return(w) /\ UNCHANGED <<dispatch, pool>>
  <2>1. UNCHANGED <<vars, records, claimed, stored, locator, view>>
    BY <1>2, <1>5 DEF records
  <2> QED
    BY <1>1, <1>5, <2>1, ReturnStep
<1>6. CASE flight' = [flight EXCEPT ![w].pc = "declined"] /\ UNCHANGED <<dispatch, pool>>
  <2>1. UNCHANGED <<vars, records, claimed, stored, locator, view>>
    BY <1>2, <1>6 DEF records
  <2>2. PICK f : f = [g EXCEPT !.pc = "declined"]
    OBVIOUS
  <2>3. flight' = [flight EXCEPT ![w] = f]
    BY <1>1, <1>6, <2>2
  <2>4. /\ f \in FlightType /\ f.pc = "declined" /\ Continues(f, g)
        /\ f.receipt = g.receipt /\ f.command = g.command
    BY <2>2, MovedTo DEF Pc
  <2>5. Fits(w, f)
    BY <1>1, <2>4 DEF Fits, Continues
  <2> QED
    BY <1>1, <2>1, <2>3, <2>4, <2>5, Onward DEF Continues, Running
<1>7. CASE /\ Pinned(w, t, g.call = "schedule") /\ PinOf(t) = g.pin
           /\ dispatch' = [dispatch EXCEPT ![d][t] = "pending"]
           /\ pool' = pool \cup {[kind |-> "delivery", device |-> d, name |-> n, command |-> t]}
           /\ Return(w)
  <2>1. PICK f : f = [g EXCEPT !.pc = "return"]
    OBVIOUS
  <2>2. flight' = [flight EXCEPT ![w] = f]
    BY <1>1, <1>7, <2>1 DEF Return
  <2>3. /\ f \in FlightType /\ f.pc = "return" /\ Continues(f, g)
        /\ f.receipt = g.receipt /\ f.command = g.command
    BY <2>1, MovedTo DEF Pc
  <2>4. /\ ticket' = ticket /\ journal' = journal /\ sent' = sent
        /\ signed' = signed /\ published' = published /\ claimed' = claimed
        /\ stored' = stored /\ locator' = locator /\ view' = view
        /\ okr' = okr /\ claim' = claim /\ UNCHANGED vars
    BY <1>2 DEF vars
  <2>5. /\ dispatch' \in [Device -> [Command -> Request]] /\ dispatch'[d][t] = "pending"
        /\ \A e \in Device, c \in Command : e # d \/ c # t => dispatch'[e][c] = dispatch[e][c]
    <3>1. dispatch \in [Device -> [Command -> Request]] /\ "pending" \in Request
      BY DEF RunnerInv, RunnerShape, Request
    <3> QED
      BY <1>7, <3>1, EntryChanged
  <2>6. PICK tx \in TxType : /\ tx.kind = "delivery" /\ tx.device = d /\ tx.command = t
                             /\ pool' = pool \cup {tx}
    BY <1>7 DEF TxType
  <2>7. /\ NameIn(t) = n /\ claim[t].okr = n[1] /\ claim[t].okr # "none" /\ signed[t] = d
        /\ g.call = "send" => ~Passed(n) /\ ~Ahead(n)
    <3>1. PICK b : b = (g.call = "schedule") /\ Pinned(w, t, b)
      BY <1>7
    <3>2. t = ticket[n] /\ (g.call = "send" => ~b)
      BY <1>3, <3>1
    <3> QED
      BY <1>1, <3>1, <3>2, PinnedName
  <2>8. Fits(w, f)'
    BY <1>1, <2>3, <2>4 DEF Fits, Continues
  <2>9. Placed(f.saved) /\ (w \in Person => Located(f, locator[w]))
    BY <1>1, <2>3, Own DEF Located, Continues
  <2>10. RunnerShape'
    <3>1. flight' \in [Window -> FlightType]
      BY <1>1, <2>2, <2>3
    <3> QED
      BY <2>4, <2>5, <2>6, <3>1 DEF RunnerInv, RunnerShape
  <2>11. Submitted'
    <3>1. ASSUME NEW x \in pool'
          PROVE  /\ x.kind = "ticket" =>
                      signed[x.command] = x.device /\ journal[x.device][x.name] # "none"
                 /\ x.kind = "delivery" => dispatch'[x.device][x.command] # "none"
      <4>1. CASE x = tx
        BY <2>5, <2>6, <4>1
      <4>2. CASE x \in pool
        <5>1. x \in TxType
          BY <4>2 DEF RunnerInv, RunnerShape
        <5> QED
          BY <2>5, <4>2, <5>1 DEF RunnerInv, Submitted, TxType
      <4> QED
        BY <2>6, <4>1, <4>2
    <3> QED
      BY <2>4, <3>1 DEF RunnerInv, Submitted
  <2>12. Asked'
    <3> SUFFICES ASSUME NEW e \in Device, NEW c \in Command
        PROVE  /\ sent[e][c] > 0 \/ dispatch'[e][c] # "none" => signed[c] = e /\ claim[c].okr # "none"
               /\ sent[e][c] > 0 => c \in claimed[e] /\ ~Ahead(NameIn(c))
               /\ dispatch'[e][c] # "none" => \E v \in Person : DeviceOf[v] = e
      BY <2>4 DEF Asked, Done, Ahead, NameIn
    <3>1. CASE e = d /\ c = t
      BY <1>1, <1>4, <2>7, <3>1 DEF RunnerInv, Asked
    <3>2. CASE e # d \/ c # t
      BY <2>5, <3>2 DEF RunnerInv, Asked, Done
    <3> QED
      BY <3>1, <3>2
  <2>13. Held'
    <3>1. ~Holding(f)
      BY <2>3 DEF Holding
    <3> QED
      BY <2>2, <2>4, <3>1, HeldOn
  <2>14. RunnerInv'
    BY <2>2, <2>3, <2>4, <2>8, <2>9, <2>10, <2>11, <2>12, <2>13, RecordMoved
  <2>15. ASSUME Solo, SoloInv
         PROVE  SoloInv'
    <3>1. PICK l, s : l = locator[w] /\ s = stored[d]
      OBVIOUS
    <3>2. Knows(d, g, l, s)
      BY <1>1, <1>4, <2>15, <3>1 DEF SoloInv
    <3>3. ASSUME g.call = "schedule"
          PROVE  Ahead(n)
      <4>1. /\ g.pin[1].agreement = claim[t].agreement /\ g.pin[1].next < claim[t].kr
        BY <1>1, <1>3, <3>2, <3>3 DEF Knows
      <4>2. g.pin[1] = okr[n[1]]
        BY <1>7, <2>7 DEF PinOf
      <4>3. claim[t].agreement = n[2] /\ claim[t].kr = n[3]
        BY <2>7, NameParts DEF NameIn
      <4>4. n[3] \in Nat /\ n[1] \in Okr /\ okr[n[1]].next \in Nat
        BY NameParts DEF RunnerInv, ObjectiveInv, Shape, OkrType
      <4> QED
        BY <4>1, <4>2, <4>3, <4>4 DEF Ahead
    <3>4. sent[d][t] = 0
      <4>1. sent[d][t] \in Nat
        BY DEF RunnerInv, RunnerShape
      <4>2. CASE g.call = "send"
        <5>1. Open(d, n)
          BY <1>1, <1>3, <3>2, <4>2 DEF Knows
        <5> QED
          BY <1>3, <2>7, <4>1, <4>2, <5>1, ObjectiveAssumption DEF Open, Done
      <4>3. CASE g.call = "schedule"
        BY <2>7, <3>3, <4>1, <4>3 DEF RunnerInv, Asked
      <4> QED
        BY <1>4, <4>2, <4>3
    <3>5. OneWay'
      BY <2>4, <2>5, <2>15, <3>4 DEF SoloInv, OneWay
    <3>6. \A e \in Device, c \in Command : e # d \/ c # t => (Done(e, c)' => Done(e, c))
      BY <2>4, <2>5 DEF Done
    <3>7. Knows(d, f, l, s)'
      <4>1. UNCHANGED <<vars, ticket>> /\ \A c \in Command \ {t} : Done(d, c)' => Done(d, c)
        BY <2>4, <3>6
      <4> QED
        BY <1>1, <1>3, <1>4, <2>3, <2>15, <3>1, <3>3, <4>1, KnowsClosed
    <3>8. UNCHANGED <<vars, ticket, stored, locator>> /\ d = DeviceOf[w]
      BY <1>1, <2>4
    <3>9. \A e \in Device \ {d}, c \in Command : Done(e, c)' => Done(e, c)
      BY <3>6
    <3> QED
      BY <2>2, <2>14, <2>15, <3>1, <3>5, <3>7, <3>8, <3>9, RecordSolo
  <2> QED
    BY <2>14, <2>15 DEF Kept
<1> QED
  BY <1>1, <1>3, <1>5, <1>6, <1>7 DEF QueueTarget

-----------------------------------------------------------------------------
(* The invariant, and what it proves.                                      *)

\* An objective that was agreed on n key results
LEMMA AgreedType ==
  ASSUME NEW n \in 1 .. MaxMetrics
  PROVE  /\ Agreed(n) \in OkrType
         /\ Agreed(n).next = 0 /\ Agreed(n).state = "active" /\ Agreed(n).agreement = 1
         /\ Agreed(n).version = 2 /\ Agreed(n).limit \in Nat
         /\ Agreed(n).metrics = [i \in 1 .. n |-> Unmeasured]
<1>1. PICK limit \in Nat : limit = CHOOSE l \in Limit : TRUE
  BY RunnerAssumption, ObjectiveAssumption
<1>2. PICK m : m = [i \in 1 .. n |-> Unmeasured]
  OBVIOUS
<1>3. m \in MetricsType
  <2>1. Unmeasured \in MetricType
    BY DEF Unmeasured, MetricType
  <2>2. n \in 0 .. MaxMetrics /\ m \in [1 .. n -> MetricType]
    BY <1>2, <2>1, ObjectiveAssumption
  <2> QED
    BY <2>2 DEF MetricsType
<1>4. PICK a : a = [NoOkr EXCEPT !.state = "active", !.version = 2, !.agreement = 1, !.spec = 1,
                                 !.managed = 2, !.metrics = m, !.limit = limit, !.live = TRUE]
  OBVIOUS
<1>5. a = Agreed(n)
  BY <1>1, <1>2, <1>4 DEF Agreed
<1>6. a \in OkrType
  BY <1>3, <1>4, NoOkrType DEF OkrType, State
<1>7. a.next = 0 /\ a.state = "active" /\ a.agreement = 1 /\ a.version = 2
  BY <1>4 DEF NoOkr
<1>8. a.limit = limit /\ a.metrics = m
  BY <1>4 DEF NoOkr
<1> QED
  BY <1>1, <1>2, <1>5, <1>6, <1>7, <1>8

LEMMA RunnerInitInv == RunnerInit => SoloInv
<1> SUFFICES ASSUME RunnerInit PROVE SoloInv
  OBVIOUS
<1>1. PICK n \in 1 .. MaxMetrics : okr = [o \in Okr |-> Agreed(n)]
  BY DEF RunnerInit
<1>2. \A o \in Okr : okr[o] = Agreed(n)
  BY <1>1
<1>3. Shape
  <2>1. "none" \in RunState
    BY DEF RunState
  <2>2. policy \in [Okr -> [agreement : Nat, managed : Nat, max_calls : Nat]]
    BY <1>2, AgreedType DEF RunnerInit
  <2>3. okr \in [Okr -> OkrType]
    BY <1>1, AgreedType
  <2>4. NoClaim \in ClaimType
    BY DEF ClaimType, NoClaim
  <2>5. claim \in [Command -> ClaimType] /\ run \in [Command -> RunState]
    BY <2>1, <2>4 DEF RunnerInit
  <2>6. ledger \in [Okr -> [spent : Int, reserved : Int]]
    BY DEF RunnerInit
  <2>7. managed \in [version : Nat, control : BOOLEAN, revoked : BOOLEAN]
    BY DEF RunnerInit
  <2> QED
    BY <2>2, <2>3, <2>5, <2>6, <2>7 DEF Shape
<1>4. Objects
  <2> SUFFICES ASSUME NEW o \in Okr PROVE Sound(o, okr[o])
    BY DEF Objects
  <2>1. PICK r : r = okr[o] /\ r = Agreed(n)
    BY <1>2
  <2>2. ledger[o].spent = 0 /\ ledger[o].reserved = 0
    BY DEF RunnerInit
  <2>3. 1 .. 0 = {}
    OBVIOUS
  <2>4. \A i \in DOMAIN r.metrics : r.metrics[i].command = NoCommand
    <3>1. PICK m : m = r.metrics /\ m = [i \in 1 .. n |-> Unmeasured]
      BY <2>1, AgreedType
    <3>2. \A i \in DOMAIN m : m[i] = Unmeasured
      BY <3>1
    <3> QED
      BY <3>1, <3>2 DEF Unmeasured
  <2>5. r.next = 0 /\ r.agreement = 1 /\ r.limit \in Nat
    BY <2>1, AgreedType
  <2>6. Sound(o, r)
    BY <2>2, <2>3, <2>4, <2>5 DEF Sound
  <2> QED
    BY <2>1, <2>6
<1>5. \A c \in Command : claim[c].okr = "none" /\ ~claim[c].settled /\ run[c] = "none"
  BY DEF RunnerInit, NoClaim
<1>6. Claims
  BY <1>5 DEF Claims, Settled
<1>7. Accepted
  BY <1>5 DEF Accepted, ReservedAfterReview, RunnerInit
<1>8. Accounts
  <2>1. \A o \in Okr : ReservedOf(o) = {} /\ SpentOf(o) = {}
    BY <1>5, ObjectiveAssumption DEF ReservedOf, SpentOf
  <2>2. \A o \in Okr : Owed(o) = {} /\ Paid(o) = {}
    BY <2>1 DEF Owed, Paid, Blocks
  <2> QED
    BY <2>2, FS_EmptySet DEF Accounts, RunnerInit
<1>9. ObjectiveInv
  BY <1>3, <1>4, <1>6, <1>7, <1>8 DEF ObjectiveInv
<1>10. Versions
  <2>1. \A o \in Okr : okr[o].agreement = 1 /\ okr[o].version = 2
    BY <1>2, AgreedType
  <2> QED
    BY <2>1, RunnerAssumption, ObjectiveAssumption DEF Versions
<1>11. /\ flight = [w \in Window |-> Landed] /\ locator = [w \in Person |-> NoLocator]
       /\ stored = [d \in Device |-> [o \in Okr |-> NoLocator]]
  BY DEF RunnerInit
<1>12. RunnerShape
  BY <1>11, LandedIs DEF RunnerInit, RunnerShape, CommandOrNone, Request
<1>13. TicketIsReservation /\ Named /\ Submitted
  BY <1>5 DEF RunnerInit, TicketIsReservation, Named, Submitted
<1>14. Asked
  BY DEF RunnerInit, Asked, Done
<1>15. NoLocator.name = NoName
  BY DEF NoLocator
<1>16. Locators
  <2>1. \A w \in Window : flight[w] = Landed
    BY <1>11
  <2>2. \A w \in Person : locator[w] = NoLocator /\ flight[w] = Landed
    BY <1>11, <2>1 DEF Window
  <2>3. \A d \in Device, o \in Okr : stored[d][o] = NoLocator
    BY <1>11
  <2>4. ~("none" \in {"prepare", "send"})
    OBVIOUS
  <2>5. \A w \in Person : Located(flight[w], locator[w])
    BY <2>2, <2>4, LandedIs DEF Located
  <2> QED
    BY <1>15, <2>1, <2>2, <2>3, <2>5, LandedIs DEF Locators
<1>17. \A w \in Window : Fits(w, flight[w])
  BY <1>11, LandedIs
<1>18. Held
  BY <1>11, LandedIs DEF Held
<1>19. RunnerInv
  BY <1>9, <1>10, <1>12, <1>13, <1>14, <1>16, <1>17, <1>18 DEF RunnerInv
<1>20. \A w \in Person : Knows(DeviceOf[w], flight[w], locator[w], stored[DeviceOf[w]])
  <2> TAKE w \in Person
  <2>1. flight[w] = Landed /\ locator[w] = NoLocator /\ DeviceOf[w] \in Device
    BY <1>11, RunnerAssumption DEF Window
  <2>2. \A o \in Okr : stored[DeviceOf[w]][o] = NoLocator
    BY <1>11, <2>1
  <2>3. Clear(DeviceOf[w], NoLocator)
    BY DEF Clear, NoLocator
  <2>4. Landed.call = "none" /\ Landed.saved = NoLocator
    BY LandedIs
  <2> QED
    BY <2>1, <2>2, <2>3, <2>4 DEF Knows
<1>21. OneWay
  BY DEF RunnerInit, OneWay
<1> QED
  BY <1>19, <1>20, <1>21 DEF SoloInv

\* One step, whoever takes it
LEMMA RunnerNextInv ==
  ASSUME RunnerInv, [RunnerNext]_all
  PROVE  Kept
<1>1. ASSUME NEW w \in Window, Step(w)
      PROVE  Kept
  BY <1>1, LookupInv, SignInv, SubmitInv, AnswerInv, TicketInv, ReleaseInv, SendInv, QueueTargetInv
     DEF Step
<1>2. ASSUME NEW w \in Window, Caller(w)
      PROVE  Kept
  <2>1. ASSUME NEW o \in Okr, ReadPlan(w, o) \/ PrepareRun(w, o) \/ Heartbeat(w, o)
        PROVE  Kept
    BY <2>1, ReadPlanInv, PrepareRunInv
  <2>2. ASSUME NEW o \in Okr, NEW k \in Index, Schedule(w, o, k) \/ QueuePrepared(w, o, k)
        PROVE  Kept
    BY <2>2, ScheduleInv, QueuePreparedInv
  <2>3. ASSUME NEW mode \in Mode, SendRun(w, mode)
        PROVE  Kept
    BY <2>3, SendRunInv
  <2>4. ASSUME \/ ClaimRun(w) \/ Begin(w) \/ Restore(w) \/ SaveRestored(w) \/ Prepared(w)
               \/ SentRun(w) \/ Scheduled(w) \/ Autonomy(w) \/ Throw(w) \/ Reopen(w)
        PROVE  Kept
    BY <2>4, ClaimRunInv, BeginInv, RestoreInv, SaveRestoredInv, PreparedInv, SentRunInv,
       ScheduledInv, AutonomyInv, ThrowInv, ReopenInv
  <2> QED
    BY <1>2, <2>1, <2>2, <2>3, <2>4 DEF Caller
<1>3. ASSUME NEW tx \in pool, ExecuteTicket(tx) \/ ExecuteDelivery(tx)
      PROVE  Kept
  BY <1>3, ExecuteTicketInv, ExecuteDeliveryInv DEF Kept
<1>4. CASE Environment
  BY <1>4, EnvironmentInv DEF Kept
<1>5. CASE UNCHANGED all
  <2>1. UNCHANGED <<vars, ticket, signed, sent, local>>
    BY <1>5 DEF all, records
  <2>2. UNCHANGED <<ticket, journal, dispatch, pool, signed, published, sent>>
    BY <1>5 DEF all, records
  <2>3. UNCHANGED <<claimed, stored, locator, view, flight>>
    BY <1>5 DEF all, local
  <2>4. RunnerShape' /\ Submitted'
    BY <2>2, <2>3 DEF RunnerInv, RunnerShape, Submitted
  <2>5. \A d \in Device, c \in Command : dispatch'[d][c] = "none" <=> dispatch[d][c] = "none"
    BY <2>2
  <2> QED
    BY <2>1, <2>4, <2>5, Quiet DEF Kept
<1> QED
  BY <1>1, <1>2, <1>3, <1>4, <1>5 DEF RunnerNext

\* Only Send counts a request, of a run that its flight alone holds the claim of
\* and has not asked for.
LEMMA SentOnceKept ==
  ASSUME RunnerInv, SentOnce, [RunnerNext]_all
  PROVE  SentOnce'
<1>1. ASSUME NEW w \in Window, Send(w)
      PROVE  SentOnce'
  <2>1. PICK d \in Device, g \in FlightType : d = DeviceOf[w] /\ g = flight[w] /\ Fits(w, g)
    BY Own DEF RunnerInv
  <2>2. g.pc = "send"
    BY <1>1, <2>1 DEF Send
  <2>3. g.input.release /\ g.found = g.input.expect /\ g.input.mode # "chain"
    BY <2>1, <2>2 DEF Fits
  <2>4. Holding(g)
    BY <2>2, <2>3 DEF Holding
  <2>5. sent[d][g.found] = 0
    BY <2>1, <2>3, <2>4 DEF RunnerInv, Held
  <2>6. sent' = sent \/ sent' = [sent EXCEPT ![d][g.found] = @ + 1]
    BY <1>1, <2>1 DEF Send
  <2>7. sent \in [Device -> [Command -> Nat]]
    BY DEF RunnerInv, RunnerShape
  <2> QED
    BY <2>5, <2>6, <2>7 DEF SentOnce
<1>2. ASSUME sent' = sent
      PROVE  SentOnce'
  BY <1>2 DEF SentOnce
<1>3. ASSUME NEW w \in Window, Step(w), ~Send(w)
      PROVE  sent' = sent
  BY <1>3 DEF Step, Lookup, Sign, Submit, Answer, Ticket, Release, QueueTarget, records
<1>4. ASSUME NEW w \in Window, Caller(w)
      PROVE  sent' = sent
  <2>1. ASSUME NEW o \in Okr, ReadPlan(w, o) \/ PrepareRun(w, o) \/ Heartbeat(w, o)
        PROVE  sent' = sent
    BY <2>1 DEF ReadPlan, PrepareRun, Heartbeat, records
  <2>2. ASSUME NEW o \in Okr, NEW k \in Index, Schedule(w, o, k) \/ QueuePrepared(w, o, k)
        PROVE  sent' = sent
    BY <2>2 DEF Schedule, QueuePrepared, records
  <2>3. ASSUME NEW mode \in Mode, SendRun(w, mode)
        PROVE  sent' = sent
    BY <2>3 DEF SendRun, records
  <2>4. ASSUME \/ ClaimRun(w) \/ Begin(w) \/ Restore(w) \/ SaveRestored(w) \/ Prepared(w)
               \/ SentRun(w) \/ Scheduled(w) \/ Autonomy(w) \/ Throw(w) \/ Reopen(w)
        PROVE  sent' = sent
    BY <2>4 DEF ClaimRun, Begin, Restore, SaveRestored, Prepared, SentRun, Scheduled, Autonomy,
                Throw, Reopen, records
  <2> QED
    BY <1>4, <2>1, <2>2, <2>3, <2>4 DEF Caller
<1>5. ASSUME NEW tx \in pool, ExecuteTicket(tx) \/ ExecuteDelivery(tx)
      PROVE  sent' = sent
  BY <1>5 DEF ExecuteTicket, ExecuteDelivery
<1>6. ASSUME Environment \/ UNCHANGED all
      PROVE  sent' = sent
  BY <1>6 DEF Environment, all, records
<1> QED
  BY <1>1, <1>2, <1>3, <1>4, <1>5, <1>6 DEF RunnerNext

\* Of every key result of every agreement at most one command is reserved, the one
\* its ticket names, whichever of any number of devices, dialogs and sessions plan
\* it at once, and however late their broadcasts execute (advance,
\* createSelfPayOkrSubmitter).
THEOREM OneReservation == RunnerSpec => []TicketIsReservation
<1>1. RunnerInit => RunnerInv
  BY RunnerInitInv DEF SoloInv
<1>2. RunnerInv /\ [RunnerNext]_all => RunnerInv'
  BY RunnerNextInv DEF Kept
<1>3. RunnerInv => TicketIsReservation
  BY DEF RunnerInv
<1> QED
  BY <1>1, <1>2, <1>3, PTL DEF RunnerSpec

\* A device asks the Coordinator for a run at most once, through any number of its
\* windows: the claim in its delivery journal is held by one flight, and given
\* back by none (send and autonomy's advance, deliveryJournal.claim).
THEOREM CoordinatorAskedOnce == RunnerSpec => []SentOnce
<1>1. RunnerInit => RunnerInv /\ SentOnce
  <2>1. RunnerInit => RunnerInv
    BY RunnerInitInv DEF SoloInv
  <2>2. RunnerInit => \A d \in Device, c \in Command : sent[d][c] = 0
    BY DEF RunnerInit
  <2> QED
    BY <2>1, <2>2 DEF SentOnce
<1>2. RunnerInv /\ SentOnce /\ [RunnerNext]_all => RunnerInv' /\ SentOnce'
  BY RunnerNextInv, SentOnceKept DEF Kept
<1> QED
  BY <1>1, <1>2, PTL DEF RunnerSpec

\* On devices with one window each, whatever that window lost by an error, a closed
\* dialog or a declined fee, it never both queues a run on chain and asks the
\* Coordinator for it: the locator it restores says of every run it asked for
\* that a delivery was attempted (send, read).
THEOREM OneWayKept == ASSUME Solo PROVE RunnerSpec => []OneWay
<1>1. RunnerInit => SoloInv
  BY RunnerInitInv
<1>2. SoloInv /\ [RunnerNext]_all => SoloInv'
  BY RunnerNextInv DEF Kept, SoloInv
<1>3. SoloInv => OneWay
  BY DEF SoloInv
<1> QED
  BY <1>1, <1>2, <1>3, PTL DEF RunnerSpec
=============================================================================
