--------------------------- MODULE IdentityCreation ---------------------------
(***************************************************************************)
(* The two transactions of onboarding: the Human and its first             *)
(* organization (IdentityCreation, with CreateIdentity as its caller).     *)
(*                                                                         *)
(* A stage has a root request.  A transaction that failed may have a       *)
(* successor, whose request id is derived from the failed digest, so that  *)
(* the requests of a stage form a chain in the journal.  Windows share the *)
(* journal and the recovery material; a window that is opened again has    *)
(* forgotten which successor it began.  A node prunes old receipts.        *)
(***************************************************************************)
EXTENDS Naturals, FiniteSets

CONSTANTS
  Digest,      \* the quotes, and so the transactions
  Window,
  None,
  Before,      \* the stages that may be done at the start
  MaxVisited   \* the longest chain of failed attempts that is followed

ASSUME CreationAssumption ==
  None \notin Digest /\ MaxVisited \in Nat /\ Before \subseteq {{}, {"identity"}}

VARIABLES
  journal,   \* the digest and status recorded for each request
  quoted,    \* the request each quote is for
  window,
  sent,      \* the chain: what was broadcast,
  ledger,    \* its effects,
  pruned,    \* the receipts no node has any more,
  created,   \* the stages that are done on chain,
  located    \* and those that locate shows

vars == <<journal, quoted, window, sent, ledger, pruned, created, located>>
chain == <<sent, ledger, pruned, created, located>>

Stage == {"identity", "organization"}
Status == {"none", "confirmed", "failed", "unknown"}

\* The root of a stage, or the successor of a failed transaction.
Request == [stage : Stage, after : Digest \cup {None}]
Root(stage) == [stage |-> stage, after |-> None]
Retry(stage, d) == [stage |-> stage, after |-> d]

ASSUME NoneAssumption == None \notin Request

NoOutcome == [digest |-> None, status |-> "none", synced |-> FALSE]
NoEntry == [digest |-> None, status |-> "none"]

\* What the page shows of an outcome.
Shown(o) == [digest |-> o.digest, status |-> o.status]

\* What a new session holds; walking, at, found, visited, last and back belong to the call
\* under way: where its walk is, what it located, and the attempt before.
NoWindow ==
  [stage |-> "identity", shown |-> NoEntry, quote |-> None,
   next |-> [s \in Stage |-> None], task |-> "closed", walking |-> FALSE,
   at |-> Root("identity"), found |-> {}, visited |-> 0, last |-> NoOutcome, back |-> Root("identity")]

Init ==
  /\ journal = [q \in Request |-> NoEntry]
  /\ quoted = [d \in Digest |-> Root("identity")]
  /\ window = [w \in Window |-> NoWindow]
  /\ sent = {} /\ pruned = {} /\ created \in Before /\ located = created
  /\ ledger = [d \in Digest |-> "none"]

Set(w, s) == window' = [window EXCEPT ![w] = s]
Idle(w) == window[w].task = "idle"
Recorded(q) == journal[q].digest # None

\* The call of a window has ended; what belonged to it is forgotten.
Rest(s) ==
  [s EXCEPT !.task = "idle", !.walking = FALSE, !.at = Root("identity"), !.found = {},
            !.visited = 0, !.last = NoOutcome, !.back = Root("identity")]

\* The call of w throws: it shows an error and changes nothing.
Throw(w) == Set(w, Rest(window[w]))

\* attempt(root, stage), for what follows it.
Walk(w, s, then) ==
  Set(w, [s EXCEPT !.task = then, !.walking = TRUE, !.at = Root(s.stage), !.back = Root(s.stage),
                   !.visited = 0, !.last = NoOutcome, !.found = located])

-----------------------------------------------------------------------------
(* The calls: every one locates, walks, and ends in a step of its own.     *)

\* start and read: a new session, or the same one refreshed.
Read(w) ==
  /\ window[w].task \in {"closed", "idle"}
  /\ Walk(w, [window[w] EXCEPT !.stage =
                IF "identity" \in located THEN "organization" ELSE "identity"], "read")
  /\ UNCHANGED <<journal, quoted, chain>>

Prepare(w) ==
  /\ Idle(w)
  /\ Walk(w, [window[w] EXCEPT !.quote = None, !.shown = NoEntry], "prepare")
  /\ UNCHANGED <<journal, quoted, chain>>

\* The stage must still be open.
BeginNewAttempt(w) ==
  /\ Idle(w) /\ window[w].shown.status = "failed"
  /\ IF window[w].stage = "identity" THEN located = {} ELSE located = {"identity"}
  /\ Walk(w, window[w], "begin")
  /\ UNCHANGED <<journal, quoted, chain>>

Submit(w) ==
  /\ Idle(w) /\ window[w].quote # None
  /\ Walk(w, window[w], "submit")
  /\ UNCHANGED <<journal, quoted, chain>>

Walking(w) == window[w].walking

\* Fault: a transaction that is not found has failed.
AnswerNotFound(q, o) ==
  LET d == journal[q].digest IN
  /\ o.digest = d
  /\ o.status = IF ledger[d] = "none" \/ d \in pruned THEN "failed" ELSE ledger[d]
  /\ journal' = IF o.synced THEN [journal EXCEPT ![q].status = o.status] ELSE journal

\* What the manager's query answers about a recorded request: a receipt, which it
\* writes to the journal if it can, or nothing.
Answer(q, o) ==
  LET d == journal[q].digest IN
  /\ o.digest = d
  /\ \/ o.status = ledger[d] /\ ledger[d] # "none" /\ d \notin pruned
     \/ o.status = "unknown" /\ ~o.synced
  /\ journal' = IF o.synced THEN [journal EXCEPT ![q].status = o.status] ELSE journal

\* The attempt the person saw failing is still the last one, it has a receipt now,
\* and the journal has it too.
MayBegin(shown, o) == o.status = "failed" /\ o.digest = shown.digest /\ o.synced

\* The walk ends at request q with outcome o.  A read shows it; prepare shows it or
\* goes on to a quote; a new attempt begins or is refused; and only the quote of
\* the current attempt is submitted.
Ended(w, q, o) ==
  LET s == window[w] IN
  CASE s.task = "read" -> Rest([s EXCEPT !.shown = Shown(o), !.quote = None])
    [] s.task = "prepare" ->
         IF o # NoOutcome THEN Rest([s EXCEPT !.shown = Shown(o)])
         ELSE [s EXCEPT !.task = "available", !.walking = FALSE, !.at = q]
    [] s.task = "begin" ->
         IF MayBegin(s.shown, o)
         THEN Rest([s EXCEPT !.shown = NoEntry, !.quote = None,
                             !.next[s.stage] = Retry(s.stage, o.digest)])
         ELSE Rest(s)
    [] s.task = "submit" ->
         IF quoted[s.quote] = q /\ (s.stage = "organization" => "identity" \in s.found)
         THEN [s EXCEPT !.task = "claim", !.walking = FALSE, !.at = q]
         ELSE Rest([s EXCEPT !.quote = None])

\* Fault: only a receipt says that an attempt has failed.
HistoricalReceipt(q, o) == o.status = "failed"

\* A pruned receipt is replaced by the journal's record, to find a successor.
Historical(q, o) ==
  o.status = "failed" \/ (o.status = "unknown" /\ journal[q].status = "failed")

Query(w, o) ==
  LET q == window[w].at IN
  /\ Walking(w) /\ Recorded(q) /\ Answer(q, o)
  /\ IF ~Historical(q, o) THEN Set(w, Ended(w, q, o))
     ELSE IF window[w].visited >= MaxVisited THEN Throw(w)
     ELSE Set(w, [window[w] EXCEPT !.at = Retry(q.stage, o.digest), !.back = q,
                                   !.last = o, !.visited = @ + 1])
  /\ UNCHANGED <<quoted, chain>>

\* No such request: the attempt before it counts, unless this window has begun it.
QueryNone(w) ==
  LET s == window[w] IN
  /\ Walking(w) /\ ~Recorded(s.at)
  /\ Set(w, IF s.at.after = None THEN Ended(w, s.at, NoOutcome)
            ELSE IF s.last.status = "failed" /\ s.next[s.stage] = s.at
            THEN Ended(w, s.at, NoOutcome)
            ELSE Ended(w, s.back, s.last))
  /\ UNCHANGED <<journal, quoted, chain>>

\* A read fails, the chain is another one, or the request to quote is recorded by now.
Fails(w) ==
  /\ window[w].task \notin {"closed", "idle"}
  /\ Throw(w)
  /\ UNCHANGED <<journal, quoted, chain>>

\* The stage must not be done: the Human is located now, the organizations were
\* located before the walk, and the name must be free.
Available(w) ==
  LET s == window[w] IN
  /\ s.task = "available"
  /\ IF \/ s.stage = "identity" /\ "identity" \in located
        \/ s.stage = "organization" /\ s.found # {"identity"}
     THEN Throw(w)
     ELSE Set(w, [s EXCEPT !.task = "quote"])
  /\ UNCHANGED <<journal, quoted, chain>>

\* manager.prepare reads the journal again; it throws if the request is recorded by now.
Quote(w, d) ==
  /\ window[w].task = "quote" /\ ~Recorded(window[w].at)
  /\ d \notin sent /\ \A q \in Request : journal[q].digest # d
  /\ \A v \in Window : window[v].quote # d
  /\ quoted' = [quoted EXCEPT ![d] = window[w].at]
  /\ Set(w, Rest([window[w] EXCEPT !.quote = d]))
  /\ UNCHANGED <<journal, chain>>

\* manager.submit: claim the request and broadcast, or ask about what is recorded.
Claim(w) ==
  LET s == window[w] IN
  /\ s.task = "claim" /\ ~Recorded(s.at)
  /\ journal' = [journal EXCEPT ![s.at] = [digest |-> s.quote, status |-> "pending"]]
  /\ sent' = sent \cup {s.quote}
  /\ Set(w, [s EXCEPT !.task = "receipt", !.quote = None])
  /\ UNCHANGED <<quoted, ledger, pruned, created, located>>

\* A confirmed stage is read again.
Receipt(w, o) ==
  LET s == window[w] IN
  /\ s.task \in {"claim", "receipt"} /\ Recorded(s.at) /\ Answer(s.at, o)
  /\ Set(w, Rest([s EXCEPT !.shown = Shown(o), !.quote = None]))
  /\ UNCHANGED <<quoted, chain>>

\* A window is closed or crashes, and may be opened again.
Close(w) ==
  /\ window[w].task # "closed"
  /\ Set(w, NoWindow)
  /\ UNCHANGED <<journal, quoted, chain>>

-----------------------------------------------------------------------------
(* The chain: one Human per recovery address, any number of organizations. *)

Land(d) ==
  LET stage == quoted[d].stage IN
  /\ d \in sent /\ ledger[d] = "none"
  /\ \/ /\ stage = "organization" \/ "identity" \notin created
        /\ ledger' = [ledger EXCEPT ![d] = "confirmed"]
        /\ created' = created \cup {stage}
     \/ ledger' = [ledger EXCEPT ![d] = "failed"] /\ UNCHANGED created
  /\ UNCHANGED <<journal, quoted, window, sent, pruned, located>>

Index(stage) ==
  /\ stage \in created \ located
  /\ stage = "organization" => "identity" \in located
  /\ located' = located \cup {stage}
  /\ UNCHANGED <<journal, quoted, window, sent, ledger, pruned, created>>

Prune(d) ==
  /\ ledger[d] # "none" /\ d \notin pruned
  /\ pruned' = pruned \cup {d}
  /\ UNCHANGED <<journal, quoted, window, sent, ledger, created, located>>

Outcome == [digest : Digest, status : Status \ {"none"}, synced : BOOLEAN]

WindowStep(w) ==
  \/ Read(w) \/ Prepare(w) \/ BeginNewAttempt(w) \/ Submit(w) \/ QueryNone(w) \/ Fails(w)
  \/ Available(w) \/ Claim(w) \/ Close(w)
  \/ \E o \in Outcome : Query(w, o) \/ Receipt(w, o)
  \/ \E d \in Digest : Quote(w, d)

Next ==
  \/ \E w \in Window : WindowStep(w)
  \/ \E d \in Digest : Land(d) \/ Prune(d)
  \/ \E stage \in Stage : Index(stage)

Spec == Init /\ [][Next]_vars

-----------------------------------------------------------------------------
(* Properties.                                                             *)

\* While one transaction of a stage has not failed, no other one is broadcast, by
\* whichever window and after whatever restarts: onboarding pays for one Human and
\* one organization (attempt and beginNewAttempt; the chain itself would accept a
\* second organization).
OneLiveAttempt ==
  \A d, e \in sent :
    d # e /\ quoted[d].stage = quoted[e].stage
      => ledger[d] = "failed" \/ ledger[e] = "failed"

\* No walk comes to show an attempt that has a recorded successor, although the
\* receipt of the attempt may be pruned and another window may have retried it.
SuccessorNotHidden ==
  [][\A w \in Window :
       Walking(w) /\ window'[w].shown \notin {window[w].shown, NoEntry}
         => ~Recorded(Retry(window[w].stage, window'[w].shown.digest))]_vars
=============================================================================
