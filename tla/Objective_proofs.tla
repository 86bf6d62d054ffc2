--------------------------- MODULE Objective_proofs ---------------------------
(***************************************************************************)
(* Objectives, for any number of objectives, commands, key results and     *)
(* Humans: the budget of an objective is the sum of its claims and within  *)
(* its agreement, runs start in the order of the key results, every        *)
(* measurement is one of the objective's own runs, and nothing is reserved *)
(* without the Host's review.                                              *)
(***************************************************************************)
EXTENDS Objective, Units_proofs

-----------------------------------------------------------------------------
(* The inductive invariant.                                                *)

State == {"none", "draft", "active", "paused", "achieved", "archived"}
RunState == {"none", "queued", "running", "unknown"} \cup Settled
MetricType ==
  [command : Command \cup {NoCommand}, met : BOOLEAN, fresh : BOOLEAN, verified : BOOLEAN]
MetricsType == UNION {[1 .. n -> MetricType] : n \in 0 .. MaxMetrics}
AgentKind == {"bounded", "manager"}
OkrType ==
  [state : State, version : Nat, agreement : Nat, spec : Nat, next : Nat,
   metrics : MetricsType, agent : AgentKind, managed : Nat, limit : Nat,
   live : BOOLEAN]
ClaimType ==
  [okr : Okr \cup {"none"}, agreement : Nat, spec : Nat, kr : Nat,
   reserved : Nat, spent : Nat, settled : BOOLEAN]

\* What the objects are made of.  What a Human has read and what the Host has
\* accepted only guard steps and play no part.
Shape ==
  /\ okr \in [Okr -> OkrType]
  /\ ledger \in [Okr -> [spent : Int, reserved : Int]]
  /\ claim \in [Command -> ClaimType]
  /\ run \in [Command -> RunState]
  /\ policy \in [Okr -> [agreement : Nat, managed : Nat, max_calls : Nat]]
  /\ managed \in [version : Nat, control : BOOLEAN, revoked : BOOLEAN]

\* The run of command c measured key result i, counted from 1, of specification
\* spec of o.
Measures(c, o, spec, i) ==
  /\ c \in Command
  /\ run[c] = "succeeded"
  /\ claim[c].okr = o /\ claim[c].kr + 1 = i /\ claim[c].spec = spec

\* What the record r of objective o holds: the key results before the present
\* one are verified, all measurements are of its own runs, and an active
\* agreement has a number and covers what is committed.
Sound(o, r) ==
  /\ \A i \in 1 .. r.next : i \in DOMAIN r.metrics /\ r.metrics[i].verified
  /\ \A i \in DOMAIN r.metrics :
       r.metrics[i].command # NoCommand => Measures(r.metrics[i].command, o, r.spec, i)
  /\ r.state = "active" =>
       /\ r.agreement > 0
       /\ ledger[o].spent + ledger[o].reserved <= r.limit
Objects == \A o \in Okr : Sound(o, okr[o])

\* How a claim lies behind its objective: claims of the present agreement are of
\* the present specification, and of the runs of the present specification none
\* has started ahead.
Behind(c, r) ==
  /\ r.state # "none"
  /\ claim[c].agreement <= r.agreement
  /\ claim[c].spec <= r.spec
  /\ claim[c].agreement = r.agreement => claim[c].spec = r.spec
  /\ run[c] \in Started /\ claim[c].spec = r.spec => claim[c].kr <= r.next
Claims ==
  \A c \in Command :
    /\ run[c] = "none" <=> claim[c].okr = "none"
    /\ claim[c].settled <=> run[c] \in Settled
    /\ claim[c].okr # "none" => Behind(c, okr[claim[c].okr])

\* Whatever a policy, a capability or a claim names was agreed after a review.
Accepted ==
  /\ \A o \in Okr : policy[o].agreement # 0 => <<o, policy[o].agreement>> \in agreed
  /\ caps \subseteq agreed
  /\ ReservedAfterReview

Owed(o) == Blocks(ReservedOf(o), [c \in Command |-> claim[c].reserved])
Paid(o) == Blocks(SpentOf(o), [c \in Command |-> claim[c].spent])

\* The totals are exact, and the sums finite.
Accounts ==
  \A o \in Okr :
    /\ IsFiniteSet(Owed(o)) /\ ledger[o].reserved = Cardinality(Owed(o))
    /\ IsFiniteSet(Paid(o)) /\ ledger[o].spent = Cardinality(Paid(o))

ObjectiveInv == Shape /\ Objects /\ Claims /\ Accepted /\ Accounts

\* Key results are numbered from 1 without a gap.
LEMMA MetricsNumbered ==
  ASSUME NEW m \in MetricsType
  PROVE  /\ Cardinality(DOMAIN m) \in Nat
         /\ DOMAIN m = 1 .. Cardinality(DOMAIN m)
         /\ m \in [DOMAIN m -> MetricType]
<1>1. PICK n \in 0 .. MaxMetrics : m \in [1 .. n -> MetricType]
  BY DEF MetricsType
<1>2. n \in Nat
  BY <1>1, ObjectiveAssumption
<1>3. Cardinality(1 .. n) = n
  BY <1>2, FS_Interval
<1>4. DOMAIN m = 1 .. n
  BY <1>1
<1> QED
  BY <1>1, <1>2, <1>3, <1>4

\* The four properties follow.
LEMMA InvImplies ==
  ASSUME ObjectiveInv
  PROVE  StartedInOrder /\ BudgetExact /\ MeasuredByOwnRun /\ ReservedAfterReview
<1> USE DEF ObjectiveInv
<1>1. \A o \in Okr : /\ Length(o) \in Nat
                     /\ DOMAIN okr[o].metrics = 1 .. Length(o)
  <2> TAKE o \in Okr
  <2>1. okr[o].metrics \in MetricsType
    BY DEF Shape, OkrType
  <2> QED
    BY <2>1, MetricsNumbered DEF Length
<1>2. StartedInOrder
  <2> SUFFICES ASSUME NEW c \in Command, run[c] \in Started,
                      claim[c].spec = okr[claim[c].okr].spec,
                      NEW k \in 0 .. claim[c].kr - 1
               PROVE  Metric(claim[c].okr, k).verified
    BY DEF StartedInOrder
  <2>1. claim[c] \in ClaimType
    BY DEF Shape
  <2>2. claim[c].okr \in Okr /\ claim[c].kr \in Nat
    BY <2>1 DEF Claims, ClaimType, Started
  <2>3. claim[c].okr # "none"
    BY <2>2, ObjectiveAssumption
  <2>4. Behind(c, okr[claim[c].okr])
    BY <2>3 DEF Claims
  <2>5. okr[claim[c].okr].next \in Nat
    BY <2>2 DEF Shape, OkrType
  <2>6. k + 1 \in 1 .. okr[claim[c].okr].next
    BY <2>2, <2>4, <2>5 DEF Behind
  <2>7. Sound(claim[c].okr, okr[claim[c].okr])
    BY <2>2 DEF Objects
  <2> QED
    BY <2>6, <2>7 DEF Sound, Metric
<1>3. BudgetExact
  <2>1. \A o \in Okr : Sound(o, okr[o])
    BY DEF Objects
  <2> QED
    BY <2>1 DEF BudgetExact, Accounts, Owed, Paid, Sound
<1>4. MeasuredByOwnRun
  <2> SUFFICES ASSUME NEW o \in Okr, NEW k \in 0 .. Length(o) - 1,
                      Metric(o, k).command # NoCommand
               PROVE  /\ run[Metric(o, k).command] = "succeeded"
                      /\ claim[Metric(o, k).command].okr = o
                      /\ claim[Metric(o, k).command].kr = k
                      /\ claim[Metric(o, k).command].spec = okr[o].spec
    BY DEF MeasuredByOwnRun
  <2>1. k \in Nat /\ k + 1 \in DOMAIN okr[o].metrics
    BY <1>1
  <2>2. Measures(Metric(o, k).command, o, okr[o].spec, k + 1)
    BY <2>1 DEF Objects, Sound, Metric
  <2>3. claim[Metric(o, k).command].kr \in Nat
    BY <2>2 DEF Shape, ClaimType, Measures
  <2> QED
    BY <2>1, <2>2, <2>3 DEF Measures
<1>5. ReservedAfterReview
  BY DEF Accepted
<1> QED
  BY <1>2, <1>3, <1>4, <1>5

\* An objective that is not drafted yet
LEMMA NoOkrType == NoOkr \in OkrType
<1>1. <<>> \in [1 .. 0 -> MetricType]
  OBVIOUS
<1>2. 0 \in 0 .. MaxMetrics
  BY ObjectiveAssumption
<1>3. <<>> \in MetricsType
  BY <1>1, <1>2 DEF MetricsType
<1>4. "none" \in State /\ "bounded" \in AgentKind
  BY DEF State, AgentKind
<1> QED
  BY <1>3, <1>4 DEF NoOkr, OkrType

LEMMA InitInv == Init => ObjectiveInv
<1> SUFFICES ASSUME Init PROVE ObjectiveInv
  OBVIOUS
<1>2. Shape
  <2>1. "none" \in RunState
    BY DEF RunState
  <2> QED
    BY <2>1, NoOkrType DEF Init, Shape, ClaimType, NoClaim, NoPolicy
<1>3. Objects
  <2> SUFFICES ASSUME NEW o \in Okr PROVE Sound(o, okr[o])
    BY DEF Objects
  <2>1. okr[o] = NoOkr
    BY DEF Init
  <2>2. NoOkr.next = 0 /\ NoOkr.metrics = <<>> /\ NoOkr.state = "none"
    BY DEF NoOkr
  <2>3. 1 .. 0 = {} /\ DOMAIN <<>> = {}
    OBVIOUS
  <2> QED
    BY <2>1, <2>2, <2>3 DEF Sound
<1>4. \A c \in Command : claim[c].okr = "none" /\ ~claim[c].settled /\ run[c] = "none"
  BY DEF Init, NoClaim
<1>5. Claims
  BY <1>4 DEF Claims, Settled
<1>6. Accepted
  BY <1>4 DEF Accepted, ReservedAfterReview, Init, NoPolicy
<1>7. Accounts
  <2>1. \A o \in Okr : ReservedOf(o) = {} /\ SpentOf(o) = {}
    BY <1>4, ObjectiveAssumption DEF ReservedOf, SpentOf
  <2>2. \A o \in Okr : Owed(o) = {} /\ Paid(o) = {}
    BY <2>1 DEF Owed, Paid, Blocks
  <2> QED
    BY <2>2, FS_EmptySet DEF Accounts, Init
<1> QED
  BY <1>2, <1>3, <1>5, <1>6, <1>7 DEF ObjectiveInv

-----------------------------------------------------------------------------
(* Steps of the objective.                                                 *)

\* The record that follows an objective's: its agreement and its specification
\* only advance, a new specification needs a new agreement, and under the same
\* specification the present key result only advances.
Follows(o, r) ==
  okr[o].state # "none" =>
    /\ r.state # "none"
    /\ r.agreement >= okr[o].agreement
    /\ r.spec >= okr[o].spec
    /\ r.agreement = okr[o].agreement => r.spec = okr[o].spec
    /\ r.spec = okr[o].spec => r.next >= okr[o].next

\* Steps that leave the claims and the ledgers alone.
LEMMA AccountsFrame ==
  ASSUME Accounts, UNCHANGED <<claim, ledger>>
  PROVE  Accounts'
<1>1. \A o \in Okr : ReservedOf(o)' = ReservedOf(o) /\ SpentOf(o)' = SpentOf(o)
  BY DEF ReservedOf, SpentOf
<1>2. \A o \in Okr : Owed(o)' = Owed(o) /\ Paid(o)' = Paid(o)
  BY <1>1 DEF Owed, Paid
<1> QED
  BY <1>2 DEF Accounts

\* One objective is replaced by a record that is sound and follows it.
LEMMA OkrReplaced ==
  ASSUME Shape, Objects, Claims, NEW o \in Okr, NEW r \in OkrType,
         okr' = [okr EXCEPT ![o] = r], UNCHANGED <<claim, run, ledger>>,
         Sound(o, r), Follows(o, r)
  PROVE  okr' \in [Okr -> OkrType] /\ Objects' /\ Claims'
<1>1. okr' \in [Okr -> OkrType] /\ okr'[o] = r /\ \A p \in Okr \ {o} : okr'[p] = okr[p]
  BY DEF Shape
<1>2. \A p \in Okr : Sound(p, okr'[p])
  BY <1>1 DEF Objects
<1>3. Objects'
  BY <1>2 DEF Objects, Sound, Measures
<1>4. \A c \in Command : claim[c].okr # "none" => Behind(c, okr'[claim[c].okr])
  <2> SUFFICES ASSUME NEW c \in Command, claim[c].okr # "none"
               PROVE  Behind(c, okr'[claim[c].okr])
    OBVIOUS
  <2>1. claim[c] \in ClaimType
    BY DEF Shape
  <2>2. claim[c].okr \in Okr /\ claim[c].agreement \in Nat /\ claim[c].spec \in Nat
        /\ claim[c].kr \in Nat
    BY <2>1 DEF ClaimType
  <2>3. Behind(c, okr[claim[c].okr])
    BY DEF Claims
  <2>4. CASE claim[c].okr # o
    BY <1>1, <2>2, <2>3, <2>4
  <2>5. CASE claim[c].okr = o
    <3>1. okr[o] \in OkrType
      BY DEF Shape
    <3>2. /\ okr[o].agreement \in Nat /\ okr[o].spec \in Nat /\ okr[o].next \in Nat
          /\ r.agreement \in Nat /\ r.spec \in Nat /\ r.next \in Nat
      BY <3>1 DEF OkrType
    <3>3. Behind(c, okr[o]) /\ okr'[claim[c].okr] = r
      BY <1>1, <2>3, <2>5
    <3>4. Behind(c, r)
      BY <3>2, <3>3, <2>2 DEF Behind, Follows
    <3> QED
      BY <3>3, <3>4
  <2> QED
    BY <2>4, <2>5
<1>5. Claims'
  BY <1>4 DEF Claims, Behind
<1> QED
  BY <1>1, <1>3, <1>5

\* changed, with what is assigned before it
LEMMA OkrChanged ==
  ASSUME Shape, Objects, Claims, NEW o \in Okr, NEW new \in OkrType,
         Changed(o, new), UNCHANGED <<claim, run, ledger>>,
         Sound(o, new), Follows(o, new)
  PROVE  okr' \in [Okr -> OkrType] /\ Objects' /\ Claims'
<1> DEFINE r == [new EXCEPT !.version = okr[o].version + 1]
<1>1. okr[o].version \in Nat
  BY DEF Shape, OkrType
<1>2. /\ r \in OkrType
      /\ r.state = new.state /\ r.agreement = new.agreement /\ r.spec = new.spec
      /\ r.next = new.next /\ r.metrics = new.metrics /\ r.limit = new.limit
  BY <1>1 DEF OkrType
<1>3. okr' = [okr EXCEPT ![o] = r]
  BY DEF Changed
<1> HIDE DEF r
<1>4. Sound(o, r)
  BY <1>2 DEF Sound
<1>5. Follows(o, r)
  BY <1>2 DEF Follows
<1> QED
  BY <1>2, <1>3, <1>4, <1>5, OkrReplaced

\* The metrics, the present key result and the specification stay.
LEMMA MetricsKept ==
  ASSUME NEW o \in Okr, Sound(o, okr[o]), NEW r,
         r.metrics = okr[o].metrics, r.next = okr[o].next, r.spec = okr[o].spec,
         r.state = "active" => /\ r.agreement > 0
                               /\ ledger[o].spent + ledger[o].reserved <= r.limit
  PROVE  Sound(o, r)
  BY DEF Sound

\* New metrics are sound: there is nothing to verify and nothing measured.
LEMMA MetricsNew ==
  ASSUME NEW o \in Okr, NEW n \in 1 .. MaxMetrics, NEW r,
         r.metrics = [i \in 1 .. n |-> Unmeasured], r.next = 0, r.state # "active"
  PROVE  Sound(o, r) /\ r.metrics \in MetricsType
<1>1. Unmeasured \in MetricType /\ Unmeasured.command = NoCommand
  BY DEF Unmeasured, MetricType
<1>2. r.metrics \in [1 .. n -> MetricType] /\ n \in 0 .. MaxMetrics
  BY <1>1, ObjectiveAssumption
<1>3. \A i \in DOMAIN r.metrics : r.metrics[i].command = NoCommand
  BY <1>1
<1>4. 1 .. r.next = {}
  OBVIOUS
<1> QED
  BY <1>2, <1>3, <1>4 DEF Sound, MetricsType

\* Steps that only change one objective.
LEMMA OkrOnly ==
  ASSUME ObjectiveInv, NEW o \in Okr, NEW new \in OkrType,
         Changed(o, new), Sound(o, new), Follows(o, new),
         UNCHANGED <<ledger, claim, run, caps, policy, managed, agreed>>
  PROVE  ObjectiveInv'
<1> USE DEF ObjectiveInv
<1>1. okr' \in [Okr -> OkrType] /\ Objects' /\ Claims'
  BY OkrChanged
<1>2. Shape'
  BY <1>1 DEF Shape
<1>3. Accepted'
  BY DEF Accepted, ReservedAfterReview
<1>4. Accounts'
  BY AccountsFrame
<1> QED
  BY <1>1, <1>2, <1>3, <1>4

\* The records the steps assign.
LEMMA DraftType ==
  ASSUME NEW q \in OkrType, NEW s \in State, NEW x \in Nat, NEW m \in MetricsType
  PROVE  [q EXCEPT !.state = s, !.spec = x, !.metrics = m] \in OkrType
  BY DEF OkrType

LEMMA EndedType ==
  ASSUME NEW q \in OkrType, NEW s \in State, NEW x \in Nat
  PROVE  [q EXCEPT !.state = s, !.agreement = x] \in OkrType
  BY DEF OkrType

LEMMA RespecifiedType ==
  ASSUME NEW q \in OkrType, NEW m \in MetricsType, NEW x \in Nat, NEW y \in Nat
  PROVE  [q EXCEPT !.metrics = m, !.next = 0, !.spec = x, !.agreement = y] \in OkrType
  BY DEF OkrType

LEMMA ActiveType ==
  ASSUME NEW q \in OkrType, NEW s \in State, NEW x \in Nat, NEW a \in AgentKind,
         NEW v \in Nat, NEW l \in Nat
  PROVE  [q EXCEPT !.state = s, !.agreement = x, !.agent = a, !.managed = v, !.limit = l,
                   !.live = TRUE] \in OkrType
  BY DEF OkrType

LEMMA CreateDraftInv ==
  ASSUME ObjectiveInv, NEW o \in Okr, CreateDraft(o)
  PROVE  ObjectiveInv'
<1>1. PICK n \in 1 .. MaxMetrics :
        Changed(o, [NoOkr EXCEPT !.state = "draft", !.spec = 1,
                                 !.metrics = [i \in 1 .. n |-> Unmeasured]])
  BY DEF CreateDraft
<1> DEFINE r == [NoOkr EXCEPT !.state = "draft", !.spec = 1,
                              !.metrics = [i \in 1 .. n |-> Unmeasured]]
<1>2. r.state = "draft" /\ r.next = 0 /\ r.metrics = [i \in 1 .. n |-> Unmeasured]
  BY DEF NoOkr
<1>3. Sound(o, r) /\ r.metrics \in MetricsType
  <2> HIDE DEF r
  <2> QED
    BY <1>2, MetricsNew
<1>4. r \in OkrType
  <2>1. "draft" \in State /\ r.metrics = [i \in 1 .. n |-> Unmeasured]
    BY <1>2 DEF State
  <2> QED
    BY <1>3, <2>1, NoOkrType, DraftType
<1>5. okr[o].state = "none"
  BY DEF CreateDraft
<1>6. Follows(o, r)
  BY <1>5 DEF Follows
<1>7. Changed(o, r)
  BY <1>1
<1>8. UNCHANGED <<ledger, claim, run, caps, policy, managed, agreed>>
  BY DEF CreateDraft
<1> HIDE DEF r
<1> QED
  BY <1>3, <1>4, <1>6, <1>7, <1>8, OkrOnly

\* pause, archive and achieve end the agreement.
LEMMA EndedInv ==
  ASSUME ObjectiveInv, NEW o \in Okr, NEW s \in State, s \notin {"none", "active"},
         Changed(o, [okr[o] EXCEPT !.state = s, !.agreement = @ + 1]),
         UNCHANGED <<ledger, claim, run, caps, policy, managed, agreed>>
  PROVE  ObjectiveInv'
<1>1. okr[o] \in OkrType /\ Sound(o, okr[o])
  BY DEF ObjectiveInv, Shape, Objects
<1>2. PICK r : r = [okr[o] EXCEPT !.state = s, !.agreement = @ + 1]
  OBVIOUS
<1>3. /\ r \in OkrType /\ r.state = s /\ r.agreement = okr[o].agreement + 1
      /\ r.metrics = okr[o].metrics /\ r.next = okr[o].next /\ r.spec = okr[o].spec
  <2>1. okr[o].agreement + 1 \in Nat
    BY <1>1 DEF OkrType
  <2>2. r \in OkrType
    BY <1>1, <1>2, <2>1, EndedType
  <2> QED
    BY <1>1, <1>2, <2>2 DEF OkrType
<1>4. Sound(o, r)
  BY <1>1, <1>3, MetricsKept
<1>5. Follows(o, r)
  BY <1>1, <1>3 DEF Follows, OkrType
<1> QED
  BY <1>2, <1>3, <1>4, <1>5, OkrOnly

LEMMA PauseInv ==
  ASSUME ObjectiveInv, NEW h \in Human, NEW o \in Okr, Pause(h, o)
  PROVE  ObjectiveInv'
<1>1. "paused" \in State
  BY DEF State
<1> QED
  BY <1>1, EndedInv DEF Pause

LEMMA ArchiveInv ==
  ASSUME ObjectiveInv, NEW h \in Human, NEW o \in Okr, Archive(h, o)
  PROVE  ObjectiveInv'
<1>1. "archived" \in State
  BY DEF State
<1> QED
  BY <1>1, EndedInv DEF Archive

LEMMA AchieveInv ==
  ASSUME ObjectiveInv, NEW h \in Human, NEW o \in Okr, Achieve(h, o)
  PROVE  ObjectiveInv'
<1>1. "achieved" \in State
  BY DEF State
<1> QED
  BY <1>1, EndedInv DEF Achieve

LEMMA ReplaceSpecInv ==
  ASSUME ObjectiveInv, NEW h \in Human, NEW o \in Okr, ReplaceSpec(h, o)
  PROVE  ObjectiveInv'
<1>1. PICK n \in 1 .. MaxMetrics :
        Changed(o, [okr[o] EXCEPT !.metrics = [i \in 1 .. n |-> Unmeasured], !.next = 0,
                                  !.spec = @ + 1, !.agreement = @ + 1])
  BY DEF ReplaceSpec
<1> DEFINE m == [i \in 1 .. n |-> Unmeasured]
           r == [okr[o] EXCEPT !.metrics = m, !.next = 0,
                               !.spec = @ + 1, !.agreement = @ + 1]
<1>2. okr[o] \in OkrType /\ okr[o].state \in {"draft", "paused"}
  BY DEF ObjectiveInv, Shape, ReplaceSpec
<1>3. m \in MetricsType
  <2>1. Unmeasured \in MetricType
    BY DEF Unmeasured, MetricType
  <2>2. m \in [1 .. n -> MetricType] /\ n \in 0 .. MaxMetrics
    BY <2>1, ObjectiveAssumption
  <2> QED
    BY <2>2 DEF MetricsType
<1>4. Changed(o, r) /\ UNCHANGED <<ledger, claim, run, caps, policy, managed, agreed>>
  BY <1>1 DEF ReplaceSpec
<1>5. m = [i \in 1 .. n |-> Unmeasured]
  OBVIOUS
<1> HIDE DEF m
<1>6. /\ r \in OkrType
      /\ r.state = okr[o].state /\ r.agreement = okr[o].agreement + 1
      /\ r.metrics = m /\ r.next = 0 /\ r.spec = okr[o].spec + 1
  <2>1. okr[o].agreement + 1 \in Nat /\ okr[o].spec + 1 \in Nat
    BY <1>2 DEF OkrType
  <2>2. r \in OkrType
    BY <1>2, <1>3, <2>1, RespecifiedType
  <2> QED
    BY <1>2, <2>2 DEF OkrType
<1> HIDE DEF r
<1>7. Sound(o, r)
  BY <1>2, <1>5, <1>6, MetricsNew
<1>8. Follows(o, r)
  BY <1>2, <1>6 DEF Follows, OkrType
<1> QED
  BY <1>4, <1>6, <1>7, <1>8, OkrOnly

\* activate_reviewed covers what is committed.
LEMMA ActivatedSound ==
  ASSUME ObjectiveInv, NEW o \in Okr, NEW a \in AgentKind,
         NEW version \in Nat, NEW limit \in Limit, Activated(o, a, version, limit),
         NEW r, r = [okr[o] EXCEPT !.state = "active", !.agreement = @ + 1, !.agent = a,
                                   !.managed = version, !.limit = limit, !.live = TRUE]
  PROVE  r \in OkrType /\ Changed(o, r) /\ Sound(o, r) /\ Follows(o, r)
<1>1. okr[o] \in OkrType /\ Sound(o, okr[o])
  BY DEF ObjectiveInv, Shape, Objects
<1>2. limit \in Nat
  BY ObjectiveAssumption
<1>3. /\ r \in OkrType /\ r.state = "active" /\ r.agreement = okr[o].agreement + 1
      /\ r.metrics = okr[o].metrics /\ r.next = okr[o].next /\ r.spec = okr[o].spec
      /\ r.limit = limit
  <2>1. okr[o].agreement + 1 \in Nat /\ "active" \in State
    BY <1>1 DEF OkrType, State
  <2>2. r \in OkrType
    BY <1>1, <1>2, <2>1, ActiveType
  <2> QED
    BY <1>1, <2>2 DEF OkrType
<1>4. Changed(o, r) /\ ledger[o].spent + ledger[o].reserved <= limit
  BY DEF Activated
<1>5. r.agreement > 0
  BY <1>1, <1>3 DEF OkrType
<1>6. Sound(o, r)
  BY <1>1, <1>3, <1>4, <1>5, MetricsKept
<1>7. Follows(o, r)
  BY <1>1, <1>3 DEF Follows, OkrType
<1> QED
  BY <1>3, <1>4, <1>6, <1>7

LEMMA AssignAgentManagerInv ==
  ASSUME ObjectiveInv, NEW h \in Human, NEW o \in Okr, AssignAgentManager(h, o)
  PROVE  ObjectiveInv'
<1>1. PICK limit \in Limit : Activated(o, "manager", 0, limit)
  BY DEF AssignAgentManager
<1>2. PICK r : r = [okr[o] EXCEPT !.state = "active", !.agreement = @ + 1,
                                  !.agent = "manager", !.managed = 0, !.limit = limit,
                                  !.live = TRUE]
  OBVIOUS
<1>3. r \in OkrType /\ Changed(o, r) /\ Sound(o, r) /\ Follows(o, r)
  <2>1. "manager" \in AgentKind
    BY DEF AgentKind
  <2> QED
    BY <1>1, <1>2, <2>1, ActivatedSound
<1>4. UNCHANGED <<ledger, claim, run, caps, policy, managed, agreed>>
  BY DEF AssignAgentManager
<1> QED
  BY <1>3, <1>4, OkrOnly

\* The Host's review makes the new agreement one that was agreed after it.
LEMMA ConfirmOkrInv ==
  ASSUME ObjectiveInv, NEW h \in Human, NEW o \in Okr, ConfirmOkr(h, o)
  PROVE  ObjectiveInv'
<1> USE DEF ObjectiveInv
<1>0. PICK limit \in Limit : \E max_calls \in 1 .. limit :
        /\ Activated(o, "bounded", managed.version + 1, limit)
        /\ policy' = [policy EXCEPT ![o] = [agreement |-> okr[o].agreement + 1,
                                            managed |-> managed.version + 1,
                                            max_calls |-> max_calls]]
  BY DEF ConfirmOkr
<1>1. PICK max_calls \in 1 .. limit :
        policy' = [policy EXCEPT ![o] = [agreement |-> okr[o].agreement + 1,
                                         managed |-> managed.version + 1,
                                         max_calls |-> max_calls]]
  BY <1>0
<1>2. managed.version + 1 \in Nat /\ okr[o].agreement + 1 \in Nat /\ max_calls \in Nat
  BY ObjectiveAssumption DEF Shape, OkrType
<1>3. PICK r : r = [okr[o] EXCEPT !.state = "active", !.agreement = @ + 1,
                                  !.agent = "bounded", !.managed = managed.version + 1,
                                  !.limit = limit, !.live = TRUE]
  OBVIOUS
<1>4. r \in OkrType /\ Changed(o, r) /\ Sound(o, r) /\ Follows(o, r)
  <2>1. "bounded" \in AgentKind
    BY DEF AgentKind
  <2> QED
    BY <1>0, <1>2, <1>3, <2>1, ActivatedSound
<1>5. UNCHANGED <<claim, run, ledger, caps>>
  BY DEF ConfirmOkr
<1>6. okr' \in [Okr -> OkrType] /\ Objects' /\ Claims'
  BY <1>4, <1>5, OkrChanged
<1>7. policy' \in [Okr -> [agreement : Nat, managed : Nat, max_calls : Nat]]
  BY <1>1, <1>2 DEF Shape
<1>8. managed' \in [version : Nat, control : BOOLEAN, revoked : BOOLEAN]
  <2>1. managed' = [managed EXCEPT !.version = @ + 1, !.control = TRUE]
    BY DEF ConfirmOkr
  <2> QED
    BY <1>2, <2>1 DEF Shape
<1>9. Shape'
  BY <1>5, <1>6, <1>7, <1>8 DEF Shape
<1>10. Accepted'
  <2>1. agreed' = agreed \cup {<<o, okr[o].agreement + 1>>}
    BY DEF ConfirmOkr
  <2>2. /\ policy'[o].agreement = okr[o].agreement + 1
        /\ \A p \in Okr \ {o} : policy'[p] = policy[p]
    BY <1>1 DEF Shape
  <2>3. \A p \in Okr : policy'[p].agreement # 0 => <<p, policy'[p].agreement>> \in agreed'
    BY <2>1, <2>2 DEF Accepted
  <2>4. caps' \subseteq agreed' /\ ReservedAfterReview'
    BY <1>5, <2>1 DEF Accepted, ReservedAfterReview
  <2> QED
    BY <2>3, <2>4 DEF Accepted
<1>11. Accounts'
  BY <1>5, AccountsFrame
<1> QED
  BY <1>6, <1>9, <1>10, <1>11

\* The policy a capability is issued under is that of the present agreement.
LEMMA IssueCapabilityInv ==
  ASSUME ObjectiveInv, NEW h \in Human, NEW o \in Okr, IssueCapability(h, o)
  PROVE  ObjectiveInv'
<1> USE DEF ObjectiveInv
<1>1. UNCHANGED <<okr, ledger, claim, run, policy, managed, agreed>>
  BY DEF IssueCapability
<1>2. Shape' /\ Objects' /\ Claims'
  BY <1>1 DEF Shape, Objects, Sound, Measures, Claims, Behind
<1>3. Accounts'
  BY <1>1, AccountsFrame
<1>4. <<o, okr[o].agreement>> \in agreed
  <2>1. okr[o].state = "active" /\ policy[o].agreement = okr[o].agreement
    BY DEF IssueCapability
  <2>2. okr[o].agreement > 0
    BY <2>1 DEF Objects, Sound
  <2>3. policy[o].agreement # 0
    BY <2>1, <2>2
  <2> QED
    BY <2>1, <2>3 DEF Accepted
<1>5. caps' = caps \cup {<<o, okr[o].agreement>>}
  BY DEF IssueCapability
<1>6. Accepted'
  BY <1>1, <1>4, <1>5 DEF Accepted, ReservedAfterReview
<1> QED
  BY <1>2, <1>3, <1>6

\* Steps of readers, of the Host's review and of the Agent.
LEMMA OthersInv ==
  ASSUME ObjectiveInv, UNCHANGED <<okr, ledger, claim, run, caps, policy, agreed>>,
         managed' \in [version : Nat, control : BOOLEAN, revoked : BOOLEAN]
  PROVE  ObjectiveInv'
<1> USE DEF ObjectiveInv
<1>1. Shape'
  BY DEF Shape
<1>2. Objects' /\ Claims'
  BY DEF Objects, Sound, Measures, Claims, Behind
<1>3. Accepted'
  BY DEF Accepted, ReservedAfterReview
<1>4. Accounts'
  BY AccountsFrame
<1> QED
  BY <1>1, <1>2, <1>3, <1>4

LEMMA ChangeAgentInv ==
  ASSUME ObjectiveInv, ChangeAgent
  PROVE  ObjectiveInv'
<1>1. managed \in [version : Nat, control : BOOLEAN, revoked : BOOLEAN]
  BY DEF ObjectiveInv, Shape
<1>2. managed' \in [version : Nat, control : BOOLEAN, revoked : BOOLEAN]
  <2>1. managed.version + 1 \in Nat
    BY <1>1
  <2>2. CASE managed' = [managed EXCEPT !.version = @ + 1, !.revoked = TRUE]
    BY <1>1, <2>1, <2>2
  <2>3. CASE managed' = [version |-> managed.version + 1, control |-> FALSE, revoked |-> FALSE]
    BY <2>1, <2>3
  <2> QED
    BY <2>2, <2>3 DEF ChangeAgent
<1>3. UNCHANGED <<okr, ledger, claim, run, caps, policy, agreed>>
  BY DEF ChangeAgent
<1> QED
  BY <1>2, <1>3, OthersInv

-----------------------------------------------------------------------------
(* Measurements.                                                           *)

LEMMA MetricsTyped ==
  ASSUME NEW q \in OkrType, NEW m \in MetricsType, NEW n \in Nat
  PROVE  /\ [q EXCEPT !.metrics = m] \in OkrType
         /\ [q EXCEPT !.metrics = m, !.next = n] \in OkrType
         /\ [q EXCEPT !.live = FALSE] \in OkrType
<1>1. [q EXCEPT !.metrics = m] \in OkrType
  BY DEF OkrType
<1>2. [q EXCEPT !.metrics = m, !.next = n] \in OkrType
  BY DEF OkrType
<1>3. [q EXCEPT !.live = FALSE] \in OkrType
  BY DEF OkrType
<1> QED
  BY <1>1, <1>2, <1>3

\* One key result is replaced.
LEMMA MetricReplaced ==
  ASSUME NEW m \in MetricsType, NEW i \in DOMAIN m, NEW x \in MetricType
  PROVE  /\ [m EXCEPT ![i] = x] \in MetricsType
         /\ DOMAIN [m EXCEPT ![i] = x] = DOMAIN m
         /\ [m EXCEPT ![i] = x][i] = x
         /\ \A j \in DOMAIN m \ {i} : [m EXCEPT ![i] = x][j] = m[j]
  BY DEF MetricsType

\* The run that observe cites is of the present agreement and so of the present
\* specification.
LEMMA ObserveInv ==
  ASSUME ObjectiveInv, NEW o \in Okr, NEW c \in Command, Observe(o, c)
  PROVE  ObjectiveInv'
<1>1. PICK met \in BOOLEAN :
        Changed(o, [okr[o] EXCEPT !.metrics[okr[o].next + 1] =
                      [command |-> c, met |-> met, fresh |-> TRUE, verified |-> FALSE]])
  BY DEF Observe
<1> DEFINE i == okr[o].next + 1
           x == [command |-> c, met |-> met, fresh |-> TRUE, verified |-> FALSE]
           m == [okr[o].metrics EXCEPT ![i] = x]
           r == [okr[o] EXCEPT !.metrics = m]
<1>2. okr[o] \in OkrType /\ Sound(o, okr[o])
  BY DEF ObjectiveInv, Shape, Objects
<1>3. okr[o].metrics \in MetricsType /\ okr[o].next \in Nat
  BY <1>2 DEF OkrType
<1>4. i \in DOMAIN okr[o].metrics
  <2>1. okr[o].next < Length(o)
    BY DEF Observe, Witness
  <2> QED
    BY <1>3, <2>1, MetricsNumbered DEF Length
<1>5. Changed(o, r)
  BY <1>1, <1>2, <1>3 DEF OkrType
<1>6. x \in MetricType /\ x.command = c
  BY DEF MetricType
<1>7. Measures(c, o, okr[o].spec, i)
  <2>1. /\ run[c] = "succeeded" /\ claim[c].okr = o
        /\ claim[c].agreement = okr[o].agreement /\ claim[c].kr = okr[o].next
    BY DEF Observe, Evidence
  <2>2. Behind(c, okr[o])
    BY <2>1, ObjectiveAssumption DEF ObjectiveInv, Claims
  <2> QED
    BY <2>1, <2>2 DEF Measures, Behind
<1> HIDE DEF x
<1>8. /\ m \in MetricsType /\ DOMAIN m = DOMAIN okr[o].metrics /\ m[i] = x
      /\ \A j \in DOMAIN m \ {i} : m[j] = okr[o].metrics[j]
  BY <1>3, <1>4, <1>6, MetricReplaced
<1> HIDE DEF m
<1>9. r \in OkrType
  BY <1>2, <1>8, MetricsTyped
<1>10. /\ r.metrics = m /\ r.next = okr[o].next /\ r.spec = okr[o].spec
       /\ r.state = okr[o].state /\ r.agreement = okr[o].agreement
       /\ r.limit = okr[o].limit
  BY <1>2 DEF OkrType
<1> HIDE DEF r
<1>11. Sound(o, r)
  <2>1. \A j \in 1 .. r.next : j \in DOMAIN r.metrics /\ r.metrics[j].verified
    BY <1>2, <1>3, <1>8, <1>10 DEF Sound
  <2>2. \A j \in DOMAIN r.metrics :
          r.metrics[j].command # NoCommand => Measures(r.metrics[j].command, o, r.spec, j)
    <3> HIDE DEF i
    <3> QED
      BY <1>2, <1>6, <1>7, <1>8, <1>10 DEF Sound
  <2> QED
    BY <1>2, <1>10, <2>1, <2>2 DEF Sound
<1>12. Follows(o, r)
  BY <1>2, <1>10 DEF Follows, OkrType
<1>13. UNCHANGED <<ledger, claim, run, caps, policy, managed, agreed>>
  BY DEF Observe
<1> QED
  BY <1>5, <1>9, <1>11, <1>12, <1>13, OkrOnly

LEMMA VerifyKrInv ==
  ASSUME ObjectiveInv, NEW h \in Human, NEW o \in Okr, VerifyKr(h, o)
  PROVE  ObjectiveInv'
<1> DEFINE i == okr[o].next + 1
           x == [okr[o].metrics[i] EXCEPT !.verified = TRUE]
           m == [okr[o].metrics EXCEPT ![i] = x]
           r == [okr[o] EXCEPT !.metrics = m, !.next = i]
<1>1. okr[o] \in OkrType /\ Sound(o, okr[o])
  BY DEF ObjectiveInv, Shape, Objects
<1>2. okr[o].metrics \in MetricsType /\ okr[o].next \in Nat /\ i \in Nat
  BY <1>1 DEF OkrType
<1>3. i \in DOMAIN okr[o].metrics
  <2>1. okr[o].next < Length(o)
    BY DEF VerifyKr
  <2> QED
    BY <1>2, <2>1, MetricsNumbered DEF Length
<1>4. Changed(o, r)
  BY <1>1, <1>2 DEF VerifyKr, OkrType
<1>5. okr[o].metrics[i] \in MetricType
  BY <1>2, <1>3, MetricsNumbered
<1>6. x \in MetricType /\ x.command = okr[o].metrics[i].command /\ x.verified
  BY <1>5 DEF MetricType
<1> HIDE DEF x
<1>7. /\ m \in MetricsType /\ DOMAIN m = DOMAIN okr[o].metrics /\ m[i] = x
      /\ \A j \in DOMAIN m \ {i} : m[j] = okr[o].metrics[j]
  BY <1>2, <1>3, <1>6, MetricReplaced
<1> HIDE DEF m
<1>8. r \in OkrType
  BY <1>1, <1>2, <1>7, MetricsTyped
<1>9. /\ r.metrics = m /\ r.next = i /\ r.spec = okr[o].spec
      /\ r.state = okr[o].state /\ r.agreement = okr[o].agreement
      /\ r.limit = okr[o].limit
  BY <1>1 DEF OkrType
<1> HIDE DEF r
<1>10. Sound(o, r)
  <2>1. \A j \in 1 .. r.next : j \in DOMAIN r.metrics /\ r.metrics[j].verified
    <3> TAKE j \in 1 .. r.next
    <3>1. CASE j = i
      BY <1>3, <1>6, <1>7, <1>9, <3>1
    <3>2. CASE j # i
      BY <1>1, <1>2, <1>7, <1>9, <3>2 DEF Sound
    <3> QED
      BY <3>1, <3>2
  <2>2. \A j \in DOMAIN r.metrics :
          r.metrics[j].command # NoCommand => Measures(r.metrics[j].command, o, r.spec, j)
    <3> HIDE DEF i
    <3> QED
      BY <1>1, <1>6, <1>7, <1>9 DEF Sound
  <2> QED
    BY <1>1, <1>9, <2>1, <2>2 DEF Sound
<1>11. Follows(o, r)
  BY <1>1, <1>9 DEF Follows, OkrType
<1>12. UNCHANGED <<ledger, claim, run, caps, policy, managed, agreed>>
  BY DEF VerifyKr
<1> QED
  BY <1>4, <1>8, <1>10, <1>11, <1>12, OkrOnly

\* Time only makes samples stale and agreements lapse.
LEMMA TickInv ==
  ASSUME ObjectiveInv, NEW o \in Okr, Tick(o)
  PROVE  ObjectiveInv'
<1> USE DEF ObjectiveInv
<1>1. okr[o] \in OkrType /\ Sound(o, okr[o])
  BY DEF Shape, Objects
<1>2. okr[o].metrics \in MetricsType
  BY <1>1 DEF OkrType
<1>3. UNCHANGED <<ledger, claim, run, caps, policy, managed, agreed>>
  BY DEF Tick
<1>4. okr' \in [Okr -> OkrType] /\ Objects' /\ Claims'
  <2>1. ASSUME NEW i \in DOMAIN okr[o].metrics,
               okr' = [okr EXCEPT ![o].metrics[i].fresh = FALSE]
        PROVE  okr' \in [Okr -> OkrType] /\ Objects' /\ Claims'
    <3> DEFINE x == [okr[o].metrics[i] EXCEPT !.fresh = FALSE]
               m == [okr[o].metrics EXCEPT ![i] = x]
               r == [okr[o] EXCEPT !.metrics = m]
    <3>1. okr' = [okr EXCEPT ![o] = r]
      BY <2>1
    <3>2. okr[o].metrics[i] \in MetricType
      BY <1>2, <2>1, MetricsNumbered
    <3>3. /\ x \in MetricType /\ x.command = okr[o].metrics[i].command
          /\ x.verified = okr[o].metrics[i].verified
      BY <3>2 DEF MetricType
    <3> HIDE DEF x
    <3>4. /\ m \in MetricsType /\ DOMAIN m = DOMAIN okr[o].metrics /\ m[i] = x
          /\ \A j \in DOMAIN m \ {i} : m[j] = okr[o].metrics[j]
      BY <1>2, <2>1, <3>3, MetricReplaced
    <3> HIDE DEF m
    <3>5. r \in OkrType
      BY <1>1, <3>4, MetricsTyped
    <3>6. /\ r.metrics = m /\ r.next = okr[o].next /\ r.spec = okr[o].spec
          /\ r.state = okr[o].state /\ r.agreement = okr[o].agreement
          /\ r.limit = okr[o].limit
      BY <1>1 DEF OkrType
    <3> HIDE DEF r
    <3>7. Sound(o, r)
      <4>1. \A j \in DOMAIN r.metrics :
              /\ r.metrics[j].command = okr[o].metrics[j].command
              /\ r.metrics[j].verified = okr[o].metrics[j].verified
        BY <3>3, <3>4, <3>6
      <4> QED
        BY <1>1, <3>4, <3>6, <4>1 DEF Sound
    <3>8. Follows(o, r)
      BY <1>1, <3>6 DEF Follows, OkrType
    <3> QED
      BY <1>3, <3>1, <3>5, <3>7, <3>8, OkrReplaced
  <2>2. ASSUME okr' = [okr EXCEPT ![o].live = FALSE]
        PROVE  okr' \in [Okr -> OkrType] /\ Objects' /\ Claims'
    <3> DEFINE r == [okr[o] EXCEPT !.live = FALSE]
    <3>1. okr' = [okr EXCEPT ![o] = r]
      BY <2>2
    <3>2. r \in OkrType
      BY <1>1, MetricsTyped DEF OkrType
    <3>3. /\ r.metrics = okr[o].metrics /\ r.next = okr[o].next /\ r.spec = okr[o].spec
          /\ r.state = okr[o].state /\ r.agreement = okr[o].agreement
          /\ r.limit = okr[o].limit
      BY <1>1 DEF OkrType
    <3> HIDE DEF r
    <3>4. Sound(o, r)
      BY <1>1, <3>3 DEF Sound
    <3>5. Follows(o, r)
      BY <1>1, <3>3 DEF Follows, OkrType
    <3> QED
      BY <1>3, <3>1, <3>2, <3>4, <3>5, OkrReplaced
  <2> QED
    BY <2>1, <2>2 DEF Tick
<1>5. Shape'
  BY <1>3, <1>4 DEF Shape
<1>6. Accepted'
  BY <1>3 DEF Accepted, ReservedAfterReview
<1>7. Accounts'
  BY <1>3, AccountsFrame
<1> QED
  BY <1>4, <1>5, <1>6, <1>7

-----------------------------------------------------------------------------
(* Runs.                                                                   *)

\* A reservation adds a block to what the objective owes.
LEMMA AccountsReserved ==
  ASSUME Accounts, NEW o \in Okr, NEW c \in Command, NEW n \in Nat,
         claim[c].okr = "none",
         claim'[c].okr = o, ~claim'[c].settled, claim'[c].reserved = n,
         \A d \in Command \ {c} : claim'[d] = claim[d],
         ledger'[o].reserved = ledger[o].reserved + n, ledger'[o].spent = ledger[o].spent,
         \A p \in Okr \ {o} : ledger'[p] = ledger[p]
  PROVE  Accounts'
<1> DEFINE S == ReservedOf(o)
           f == [d \in Command |-> claim[d].reserved]
           g == [d \in Command |-> claim'[d].reserved]
<1>1. S \subseteq Command /\ c \notin S
  BY ObjectiveAssumption DEF ReservedOf
<1>2. ReservedOf(o)' = S \cup {c}
  BY <1>1 DEF ReservedOf
<1>3. \A p \in Okr \ {o} : ReservedOf(p)' = ReservedOf(p) /\ c \notin ReservedOf(p)
  BY ObjectiveAssumption DEF ReservedOf
<1>4. \A p \in Okr : SpentOf(p)' = SpentOf(p) /\ c \notin SpentOf(p)
  BY ObjectiveAssumption DEF SpentOf
<1>5. Owed(o) = Blocks(S, f) /\ Owed(o)' = Blocks(S \cup {c}, g)
  BY <1>2 DEF Owed
<1>6. g[c] = n /\ \A d \in S : g[d] = f[d]
  BY <1>1
<1>7. \A p \in Okr \ {o} : Owed(p)' = Owed(p)
  BY <1>3 DEF Owed, Blocks, ReservedOf
<1>8. \A p \in Okr : Paid(p)' = Paid(p)
  BY <1>4 DEF Paid, Blocks, SpentOf
<1> HIDE DEF S, f, g
<1>9. IsFiniteSet(Owed(o)') /\ Cardinality(Owed(o)') = Cardinality(Owed(o)) + n
  <2>1. IsFiniteSet(Blocks(S, f))
    BY <1>5 DEF Accounts
  <2> QED
    BY <1>1, <1>5, <1>6, <2>1, BlockAdded
<1> QED
  BY <1>7, <1>8, <1>9 DEF Accounts

\* A settlement moves a block: it is owed no more, and what was spent of it is
\* paid.
LEMMA AccountsSettled ==
  ASSUME Accounts, NEW o \in Okr, NEW c \in Command, NEW n \in Nat, NEW m \in Nat,
         claim[c].okr = o, ~claim[c].settled, claim[c].reserved = m,
         claim'[c].okr = o, claim'[c].settled, claim'[c].spent = n,
         \A d \in Command \ {c} : claim'[d] = claim[d],
         ledger'[o].reserved = ledger[o].reserved - m,
         ledger'[o].spent = ledger[o].spent + n,
         \A p \in Okr \ {o} : ledger'[p] = ledger[p]
  PROVE  Accounts'
<1> DEFINE S == ReservedOf(o)'
           T == SpentOf(o)
           f == [d \in Command |-> claim[d].reserved]
           g == [d \in Command |-> claim'[d].reserved]
           h == [d \in Command |-> claim[d].spent]
           i == [d \in Command |-> claim'[d].spent]
<1>1. S \subseteq Command /\ c \notin S /\ T \subseteq Command /\ c \notin T
  BY DEF ReservedOf, SpentOf
<1>2. ReservedOf(o) = S \cup {c} /\ SpentOf(o)' = T \cup {c}
  BY <1>1 DEF ReservedOf, SpentOf
<1>3. \A p \in Okr \ {o} :
        /\ ReservedOf(p)' = ReservedOf(p) /\ c \notin ReservedOf(p)
        /\ SpentOf(p)' = SpentOf(p) /\ c \notin SpentOf(p)
  BY DEF ReservedOf, SpentOf
<1>4. /\ Owed(o)' = Blocks(S, g) /\ Owed(o) = Blocks(S \cup {c}, f)
      /\ Paid(o) = Blocks(T, h) /\ Paid(o)' = Blocks(T \cup {c}, i)
  BY <1>2 DEF Owed, Paid
<1>5. /\ f[c] = m /\ \A d \in S : f[d] = g[d]
      /\ i[c] = n /\ \A d \in T : i[d] = h[d]
  BY <1>1
<1>6. \A p \in Okr \ {o} : Owed(p)' = Owed(p) /\ Paid(p)' = Paid(p)
  BY <1>3 DEF Owed, Paid, Blocks, ReservedOf, SpentOf
<1> HIDE DEF S, T, f, g, h, i
<1>7. IsFiniteSet(Owed(o)') /\ Cardinality(Owed(o)) = Cardinality(Owed(o)') + m
  <2>1. IsFiniteSet(Blocks(S \cup {c}, f))
    BY <1>4 DEF Accounts
  <2>2. /\ IsFiniteSet(Blocks(S \cup {c}, f)) <=> IsFiniteSet(Blocks(S, g))
        /\ IsFiniteSet(Blocks(S, g)) =>
             Cardinality(Blocks(S \cup {c}, f)) = Cardinality(Blocks(S, g)) + m
    <3>1. c \notin S /\ m \in Nat /\ f[c] = m /\ \A d \in S : f[d] = g[d]
      BY <1>1, <1>5
    <3> QED
      BY ONLY <3>1, BlockAdded
  <2> QED
    BY <1>4, <2>1, <2>2
<1>8. IsFiniteSet(Paid(o)') /\ Cardinality(Paid(o)') = Cardinality(Paid(o)) + n
  <2>1. IsFiniteSet(Blocks(T, h))
    BY <1>4 DEF Accounts
  <2>2. /\ IsFiniteSet(Blocks(T \cup {c}, i)) <=> IsFiniteSet(Blocks(T, h))
        /\ IsFiniteSet(Blocks(T, h)) =>
             Cardinality(Blocks(T \cup {c}, i)) = Cardinality(Blocks(T, h)) + n
    <3>1. c \notin T /\ n \in Nat /\ i[c] = n /\ \A d \in T : i[d] = h[d]
      BY <1>1, <1>5
    <3> QED
      BY ONLY <3>1, BlockAdded
  <2> QED
    BY <1>4, <2>1, <2>2
<1>9. Cardinality(Owed(o)') \in Nat
  BY <1>7, FS_CardinalityType
<1>10. ledger[o].reserved = Cardinality(Owed(o)) /\ ledger[o].spent = Cardinality(Paid(o))
  BY DEF Accounts
<1>11. ledger'[o].reserved = Cardinality(Owed(o)')
  BY <1>7, <1>9, <1>10
<1> QED
  BY <1>6, <1>7, <1>8, <1>10, <1>11 DEF Accounts

\* The run of one command changes, with its claim and what its objective owes.
LEMMA RunChanged ==
  ASSUME ObjectiveInv, NEW o \in Okr, NEW c \in Command,
         UNCHANGED <<okr, caps, policy, managed, agreed>>,
         run[c] # "succeeded",
         \A d \in Command \ {c} : claim'[d] = claim[d] /\ run'[d] = run[d],
         claim' \in [Command -> ClaimType], run' \in [Command -> RunState],
         ledger' \in [Okr -> [spent : Int, reserved : Int]],
         \A p \in Okr \ {o} : ledger'[p] = ledger[p],
         okr[o].state = "active" =>
           ledger'[o].spent + ledger'[o].reserved <= okr[o].limit,
         claim'[c].okr = o, run'[c] # "none", claim'[c].settled <=> run'[c] \in Settled,
         claim'[c].agreement <= okr[o].agreement, claim'[c].spec <= okr[o].spec,
         claim'[c].agreement = okr[o].agreement => claim'[c].spec = okr[o].spec,
         run'[c] \in Started /\ claim'[c].spec = okr[o].spec => claim'[c].kr <= okr[o].next,
         okr[o].state # "none",
         <<o, claim'[c].agreement>> \in agreed,
         Accounts'
  PROVE  ObjectiveInv'
<1> USE DEF ObjectiveInv
<1>1. Shape'
  BY DEF Shape
<1>2. Objects'
  <2> SUFFICES ASSUME NEW p \in Okr PROVE Sound(p, okr[p])'
    BY DEF Objects
  <2>2. Sound(p, okr[p])
    BY DEF Objects
  <2>3. \A i \in DOMAIN okr[p].metrics :
          okr[p].metrics[i].command # NoCommand =>
            Measures(okr[p].metrics[i].command, p, okr[p].spec, i)'
    <3> TAKE i \in DOMAIN okr[p].metrics
    <3> HAVE okr[p].metrics[i].command # NoCommand
    <3>1. Measures(okr[p].metrics[i].command, p, okr[p].spec, i)
      BY <2>2 DEF Sound
    <3>2. okr[p].metrics[i].command \in Command \ {c}
      BY <3>1 DEF Measures
    <3> QED
      BY <3>1, <3>2 DEF Measures
  <2>4. okr[p].state = "active" =>
          okr[p].agreement > 0 /\ ledger'[p].spent + ledger'[p].reserved <= okr[p].limit
    BY <2>2 DEF Sound
  <2> QED
    BY <2>2, <2>3, <2>4 DEF Sound, Measures
<1>3. Claims'
  <2> SUFFICES ASSUME NEW d \in Command
               PROVE  /\ run'[d] = "none" <=> claim'[d].okr = "none"
                      /\ claim'[d].settled <=> run'[d] \in Settled
                      /\ claim'[d].okr # "none" => Behind(d, okr[claim[d].okr])'
    BY DEF Claims
  <2>1. CASE d = c
    BY <2>1, ObjectiveAssumption DEF Behind
  <2>2. CASE d # c
    BY <2>2 DEF Claims, Behind
  <2> QED
    BY <2>1, <2>2
<1>4. Accepted'
  <2>1. \A d \in Command : claim'[d].okr # "none" =>
          <<claim'[d].okr, claim'[d].agreement>> \in agreed'
    BY DEF Accepted, ReservedAfterReview
  <2> QED
    BY <2>1 DEF Accepted, ReservedAfterReview
<1> QED
  BY <1>1, <1>2, <1>3, <1>4

\* A command is prepared under a capability of the present agreement.
LEMMA PrepareCommandInv ==
  ASSUME ObjectiveInv, NEW o \in Okr, NEW c \in Command, NEW k \in Index,
         PrepareCommand(o, c, k)
  PROVE  ObjectiveInv'
<1> USE DEF ObjectiveInv
<1>1. PICK n \in Amount :
        /\ Affordable(o, n)
        /\ claim' = [claim EXCEPT ![c] = [okr |-> o, agreement |-> okr[o].agreement,
                                          spec |-> okr[o].spec, kr |-> k,
                                          reserved |-> n, spent |-> 0, settled |-> FALSE]]
        /\ ledger' = [ledger EXCEPT ![o].reserved = @ + n]
  BY DEF PrepareCommand
<1>2. /\ run[c] = "none" /\ run' = [run EXCEPT ![c] = "queued"]
      /\ UNCHANGED <<okr, caps, policy, managed, agreed>>
  BY DEF PrepareCommand
<1>3. /\ okr[o].agreement \in Nat /\ okr[o].spec \in Nat /\ k \in Nat /\ n \in Nat
      /\ okr[o].limit \in Nat
  BY ObjectiveAssumption DEF Shape, OkrType, Index
<1>4. /\ claim' \in [Command -> ClaimType]
      /\ claim'[c] = [okr |-> o, agreement |-> okr[o].agreement, spec |-> okr[o].spec, kr |-> k,
                      reserved |-> n, spent |-> 0, settled |-> FALSE]
      /\ \A d \in Command \ {c} : claim'[d] = claim[d]
  BY <1>1, <1>3 DEF Shape, ClaimType
<1>5. /\ run' \in [Command -> RunState] /\ run'[c] = "queued"
      /\ \A d \in Command \ {c} : run'[d] = run[d]
  <2>1. "queued" \in RunState
    BY DEF RunState
  <2> QED
    BY <1>2, <2>1 DEF Shape
<1>6. ledger[o].spent \in Int /\ ledger[o].reserved \in Int
  BY DEF Shape
<1>7. /\ ledger' \in [Okr -> [spent : Int, reserved : Int]]
      /\ ledger'[o].reserved = ledger[o].reserved + n /\ ledger'[o].spent = ledger[o].spent
      /\ \A p \in Okr \ {o} : ledger'[p] = ledger[p]
  <2>1. ledger[o].reserved + n \in Int
    BY <1>3, <1>6
  <2> QED
    BY <1>1, <2>1 DEF Shape
<1>8. ledger'[o].spent + ledger'[o].reserved <= okr[o].limit
  BY <1>1, <1>3, <1>6, <1>7 DEF Affordable
<1>9. /\ okr[o].state = "active" /\ <<o, okr[o].agreement>> \in agreed
  BY DEF PrepareCommand, Witness, Accepted
<1>10. claim[c].okr = "none"
  BY <1>2 DEF Claims
<1>11. Accounts'
  BY <1>3, <1>4, <1>7, <1>10, AccountsReserved
<1> QED
  BY <1>2, <1>3, <1>4, <1>5, <1>7, <1>8, <1>9, <1>11, RunChanged DEF Started, Settled

\* What a claim that exists holds before its run changes.
LEMMA ClaimHeld ==
  ASSUME ObjectiveInv, NEW o \in Okr, NEW c \in Command, claim[c].okr = o
  PROVE  /\ claim[c] \in ClaimType /\ Behind(c, okr[o])
         /\ <<o, claim[c].agreement>> \in agreed
<1>1. claim[c].okr # "none"
  BY ObjectiveAssumption
<1> QED
  BY <1>1 DEF ObjectiveInv, Shape, Claims, Accepted, ReservedAfterReview

LEMMA BeginCommandInv ==
  ASSUME ObjectiveInv, NEW o \in Okr, NEW c \in Command, BeginCommand(o, c)
  PROVE  ObjectiveInv'
<1> USE DEF ObjectiveInv
<1>1. /\ run[c] = "queued" /\ run' = [run EXCEPT ![c] = "running"]
      /\ claim[c].okr = o /\ ~claim[c].settled /\ claim[c].kr = okr[o].next
      /\ UNCHANGED <<okr, ledger, claim, caps, policy, managed, agreed>>
  BY DEF BeginCommand, Beginnable
<1>2. claim[c] \in ClaimType /\ Behind(c, okr[o]) /\ <<o, claim[c].agreement>> \in agreed
  BY <1>1, ClaimHeld
<1>3. /\ run' \in [Command -> RunState] /\ run'[c] = "running"
      /\ \A d \in Command \ {c} : run'[d] = run[d]
  <2>1. "running" \in RunState
    BY DEF RunState
  <2> QED
    BY <1>1, <2>1 DEF Shape
<1>4. claim' \in [Command -> ClaimType] /\ ledger' \in [Okr -> [spent : Int, reserved : Int]]
  BY <1>1 DEF Shape
<1>5. okr[o].state = "active" => ledger'[o].spent + ledger'[o].reserved <= okr[o].limit
  BY <1>1 DEF Objects, Sound
<1>6. okr[o].next \in Nat /\ claim'[c].kr <= okr[o].next
  BY <1>1 DEF Shape, OkrType
<1>7. Accounts'
  BY <1>1, AccountsFrame
<1>8. /\ claim'[c].agreement <= okr[o].agreement /\ claim'[c].spec <= okr[o].spec
      /\ claim'[c].agreement = okr[o].agreement => claim'[c].spec = okr[o].spec
      /\ okr[o].state # "none" /\ <<o, claim'[c].agreement>> \in agreed
  BY <1>1, <1>2 DEF Behind
<1>9. claim'[c].okr = o /\ run'[c] # "none" /\ (claim'[c].settled <=> run'[c] \in Settled)
  BY <1>1, <1>3 DEF Settled
<1> QED
  BY <1>1, <1>3, <1>4, <1>5, <1>6, <1>7, <1>8, <1>9, RunChanged

\* finish_command and request_stop settle a claim for no more than it reserved.
LEMMA SettledInv ==
  ASSUME ObjectiveInv, NEW o \in Okr, NEW c \in Command, NEW final \in Settled, NEW n \in Nat,
         run[c] \in {"queued", "running"}, claim[c].okr = o,
         run[c] = "running" \/ final = "cancelled",
         n <= claim[c].reserved, Settle(o, c, n),
         run' = [run EXCEPT ![c] = final],
         UNCHANGED <<okr, caps, policy, managed, agreed>>
  PROVE  ObjectiveInv'
<1> USE DEF ObjectiveInv
<1>1. claim[c] \in ClaimType /\ Behind(c, okr[o]) /\ <<o, claim[c].agreement>> \in agreed
  BY ClaimHeld
<1>2. claim[c].reserved \in Nat /\ ledger[o].spent \in Int /\ ledger[o].reserved \in Int
      /\ ~claim[c].settled
  BY <1>1 DEF ClaimType, Shape, Claims, Settled
<1>3. /\ claim' = [claim EXCEPT ![c] = [claim[c] EXCEPT !.spent = n, !.settled = TRUE]]
      /\ ledger' = [ledger EXCEPT ![o] = [ledger[o] EXCEPT
                      !.reserved = ledger[o].reserved - claim[c].reserved,
                      !.spent = ledger[o].spent + n]]
  BY DEF Settle, Shape, ClaimType
<1>4. /\ claim' \in [Command -> ClaimType]
      /\ claim'[c].okr = o /\ claim'[c].agreement = claim[c].agreement
      /\ claim'[c].spec = claim[c].spec /\ claim'[c].kr = claim[c].kr
      /\ claim'[c].settled = TRUE /\ claim'[c].spent = n
      /\ \A d \in Command \ {c} : claim'[d] = claim[d]
  <2> DEFINE x == [claim[c] EXCEPT !.spent = n, !.settled = TRUE]
  <2>1. x \in ClaimType /\ x.okr = o /\ x.agreement = claim[c].agreement
        /\ x.spec = claim[c].spec /\ x.kr = claim[c].kr /\ x.settled = TRUE /\ x.spent = n
    BY <1>1 DEF ClaimType
  <2>2. claim' = [claim EXCEPT ![c] = x]
    BY <1>3
  <2> HIDE DEF x
  <2> QED
    BY <2>1, <2>2 DEF Shape
<1>5. /\ ledger' \in [Okr -> [spent : Int, reserved : Int]]
      /\ ledger'[o].reserved = ledger[o].reserved - claim[c].reserved
      /\ ledger'[o].spent = ledger[o].spent + n
      /\ \A p \in Okr \ {o} : ledger'[p] = ledger[p]
  <2>1. ledger[o].reserved - claim[c].reserved \in Int /\ ledger[o].spent + n \in Int
    BY <1>2
  <2> QED
    BY <1>3, <2>1 DEF Shape
<1>6. /\ run' \in [Command -> RunState] /\ run'[c] = final
      /\ \A d \in Command \ {c} : run'[d] = run[d]
  <2>1. final \in RunState
    BY DEF RunState
  <2> QED
    BY <2>1 DEF Shape
<1>7. okr[o].state = "active" => ledger'[o].spent + ledger'[o].reserved <= okr[o].limit
  <2> HAVE okr[o].state = "active"
  <2>1. ledger[o].spent + ledger[o].reserved <= okr[o].limit /\ okr[o].limit \in Nat
    BY DEF Objects, Sound, Shape, OkrType
  <2> QED
    BY <1>2, <1>5, <2>1
<1>8. Accounts'
  BY <1>2, <1>4, <1>5, AccountsSettled
<1>9. final \in Started => run[c] \in Started
  BY DEF Started
<1>10. /\ claim'[c].agreement <= okr[o].agreement /\ claim'[c].spec <= okr[o].spec
       /\ claim'[c].agreement = okr[o].agreement => claim'[c].spec = okr[o].spec
       /\ final \in Started /\ claim'[c].spec = okr[o].spec => claim'[c].kr <= okr[o].next
       /\ okr[o].state # "none" /\ <<o, claim'[c].agreement>> \in agreed
  BY <1>1, <1>4, <1>9 DEF Behind
<1>11. run[c] # "succeeded" /\ final # "none" /\ final \in Settled
  BY DEF Settled
<1> QED
  BY <1>4, <1>5, <1>6, <1>7, <1>8, <1>10, <1>11, RunChanged

LEMMA FinishCommandInv ==
  ASSUME ObjectiveInv, NEW o \in Okr, NEW c \in Command, FinishCommand(o, c)
  PROVE  ObjectiveInv'
<1> USE DEF ObjectiveInv
<1>1. /\ run[c] = "running" /\ claim[c].okr = o
      /\ UNCHANGED <<okr, caps, policy, managed, agreed>>
  BY DEF FinishCommand
<1>2. claim[c] \in ClaimType /\ Behind(c, okr[o]) /\ <<o, claim[c].agreement>> \in agreed
  BY <1>1, ClaimHeld
<1>3. ASSUME NEW final \in {"succeeded", "failed", "cancelled"},
             NEW n \in 0 .. claim[c].reserved,
             run' = [run EXCEPT ![c] = final], Settle(o, c, n)
      PROVE  ObjectiveInv'
  <2>1. final \in Settled /\ n \in Nat /\ n <= claim[c].reserved
    BY <1>2, <1>3 DEF Settled, ClaimType
  <2> QED
    BY <1>1, <1>3, <2>1, SettledInv
<1>4. ASSUME run' = [run EXCEPT ![c] = "unknown"], UNCHANGED <<claim, ledger>>
      PROVE  ObjectiveInv'
  <2>1. /\ run' \in [Command -> RunState] /\ run'[c] = "unknown"
        /\ \A d \in Command \ {c} : run'[d] = run[d]
    <3>1. "unknown" \in RunState
      BY DEF RunState
    <3> QED
      BY <1>4, <3>1 DEF Shape
  <2>2. claim' \in [Command -> ClaimType] /\ ledger' \in [Okr -> [spent : Int, reserved : Int]]
    BY <1>4 DEF Shape
  <2>3. okr[o].state = "active" => ledger'[o].spent + ledger'[o].reserved <= okr[o].limit
    BY <1>4 DEF Objects, Sound
  <2>4. Accounts'
    BY <1>4, AccountsFrame
  <2>5. /\ claim'[c].agreement <= okr[o].agreement /\ claim'[c].spec <= okr[o].spec
        /\ claim'[c].agreement = okr[o].agreement => claim'[c].spec = okr[o].spec
        /\ claim'[c].spec = okr[o].spec => claim'[c].kr <= okr[o].next
        /\ okr[o].state # "none" /\ <<o, claim'[c].agreement>> \in agreed
    BY <1>1, <1>2, <1>4 DEF Behind, Started
  <2>6. claim'[c].okr = o /\ run'[c] # "none" /\ (claim'[c].settled <=> run'[c] \in Settled)
    BY <1>1, <1>4, <2>1 DEF Claims, Settled
  <2> QED
    BY <1>1, <1>4, <2>1, <2>2, <2>3, <2>4, <2>5, <2>6, RunChanged
<1> QED
  BY <1>3, <1>4 DEF FinishCommand

LEMMA RequestStopInv ==
  ASSUME ObjectiveInv, NEW o \in Okr, NEW c \in Command, RequestStop(o, c)
  PROVE  ObjectiveInv'
<1>1. /\ run[c] = "queued" /\ claim[c].okr = o /\ run' = [run EXCEPT ![c] = "cancelled"]
      /\ Settle(o, c, 0) /\ UNCHANGED <<okr, caps, policy, managed, agreed>>
  BY DEF RequestStop
<1>2. claim[c] \in ClaimType
  BY <1>1, ClaimHeld
<1>3. "cancelled" \in Settled /\ 0 <= claim[c].reserved
  BY <1>2 DEF Settled, ClaimType
<1> QED
  BY <1>1, <1>3, SettledInv

-----------------------------------------------------------------------------
(* The theorems.                                                           *)

LEMMA NextInv == ObjectiveInv /\ [Next]_vars => ObjectiveInv'
<1> SUFFICES ASSUME ObjectiveInv, [Next]_vars PROVE ObjectiveInv'
  OBVIOUS
<1>1. managed \in [version : Nat, control : BOOLEAN, revoked : BOOLEAN]
  BY DEF ObjectiveInv, Shape
<1>2. ASSUME NEW o \in Okr, NEW h \in Human, Read(h, o) PROVE ObjectiveInv'
  BY <1>1, <1>2, OthersInv DEF Read
<1>3. ASSUME NEW o \in Okr, HostReview(o) PROVE ObjectiveInv'
  BY <1>1, <1>3, OthersInv DEF HostReview
<1>4. CASE Agreements
  BY <1>2, <1>3, <1>4, CreateDraftInv, ConfirmOkrInv, PauseInv DEF Agreements
<1>5. CASE Runs
  BY <1>5, IssueCapabilityInv, PrepareCommandInv, BeginCommandInv, FinishCommandInv,
     RequestStopInv DEF Runs
<1>6. CASE Measurements
  BY <1>6, ObserveInv, VerifyKrInv, AchieveInv DEF Measurements
<1>7. ASSUME NEW o \in Okr, NEW h \in Human,
             ReplaceSpec(h, o) \/ Archive(h, o) \/ AssignAgentManager(h, o)
      PROVE  ObjectiveInv'
  BY <1>7, ReplaceSpecInv, ArchiveInv, AssignAgentManagerInv
<1>8. CASE UNCHANGED vars
  BY <1>1, <1>8, OthersInv DEF vars
<1> QED
  BY <1>4, <1>5, <1>6, <1>7, <1>8, TickInv, ChangeAgentInv DEF Next

LEMMA Invariant == Spec => []ObjectiveInv
  BY InitInv, NextInv, PTL DEF Spec

\* The totals an objective keeps are exactly those of its claims through every
\* reservation, stop and settlement, and an active agreement never commits more
\* than its limit (okr.move settle, activate_reviewed).
THEOREM BudgetCorrect == Spec => []BudgetExact
<1>1. ObjectiveInv => BudgetExact
  BY InvImplies
<1> QED
  BY <1>1, Invariant, PTL

\* No run of the present specification has started unless every key result
\* before its own is verified, whatever was scheduled ahead, paused, resumed or
\* replaced in between (okr.move begin_command).
THEOREM OrderKept == Spec => []StartedInOrder
<1>1. ObjectiveInv => StartedInOrder
  BY InvImplies
<1> QED
  BY <1>1, Invariant, PTL

\* Every measurement is one of a run that succeeded and was reserved for this
\* key result under the present specification (okr.move observe, replace_spec).
THEOREM MeasurementsOwn == Spec => []MeasuredByOwnRun
<1>1. ObjectiveInv => MeasuredByOwnRun
  BY InvImplies
<1> QED
  BY <1>1, Invariant, PTL

\* No command is ever reserved under an agreement the Host did not review
\* (okr.move issue_capability).
THEOREM ReviewedFirst == Spec => []ReservedAfterReview
<1>1. ObjectiveInv => ReservedAfterReview
  BY InvImplies
<1> QED
  BY <1>1, Invariant, PTL
=============================================================================
