------------------------------- MODULE SelfPay -------------------------------
(***************************************************************************)
(* How a device pays for and broadcasts its own transactions:              *)
(* createSelfPayOkrSubmitter over SelfPayTransactionManager and its        *)
(* journal, for one signing address on one chain (one namespace).          *)
(*                                                                         *)
(* An App has several managers, in one window or in many, over one durable *)
(* journal.  A call of the submitter prepares at most one quote, so a call *)
(* also names that quote and the digest of its transaction.  Every await   *)
(* is the end of a step.  A transaction that was broadcast may land at any *)
(* later time, or never; a manager may die at any time and leaves only its *)
(* journal entries behind.                                                 *)
(***************************************************************************)
EXTENDS Naturals, FiniteSets

CONSTANTS
  Request,     \* the stable request ids
  Manager,     \* the transaction managers
  Call,        \* the calls of the submitter
  Coin,        \* the Gas coins of the signing address
  NoCall,
  RequestOf,   \* the request each call submits
  ManagerOf,   \* the manager it submits it through
  MaxVersion   \* bound on the versions of a coin

ASSUME CallAssumption ==
  /\ NoCall \notin Call
  /\ RequestOf \in [Call -> Request] /\ ManagerOf \in [Call -> Manager]
ASSUME VersionAssumption == MaxVersion \in Nat

VARIABLES
  journal,   \* the durable journal: the attempt recorded for each request
  flights,   \* SelfPayTransactionManager.flights, per manager and request
  call,      \* the calls of the submitter
  version,   \* the chain: the current version of every coin,
  sent,      \* the transactions that were broadcast,
  ledger     \* and the effects of those that were executed

vars == <<journal, flights, call, version, sent, ledger>>

Known == {"confirmed", "failed"}

\* The codes of TransactionPreflightError, as far as they are told apart.
Refusal == {"journal_unavailable", "gas_reserved", "preflight"}

Pc == {"idle", "prepare", "requery", "funds", "quoted", "joined", "prior", "recheck",
       "sign", "claim", "conflict", "send", "receipt", "look", "replace", "resync",
       "done", "dead"}

NoEntry == [digest |-> NoCall, revision |-> 0, status |-> "none"]

Entry == [digest : Call \cup {NoCall}, revision : Nat,
          status : Known \cup {"none", "pending"}]

\* A coin, at a version.
GasReference == Coin \X Nat

\* refs, addressGas: what the transaction of the call pays with.  digest and
\* revision: the journal entry it asks the chain about.
CallState ==
  [pc : Pc, flight : Call \cup {NoCall}, refs : SUBSET GasReference,
   addressGas : BOOLEAN, digest : Call \cup {NoCall}, revision : Nat,
   outcome : Known \cup {"none"}, synced : BOOLEAN,
   answer : Known \cup Refusal \cup {"none", "unknown"}]

Init ==
  /\ journal = [r \in Request |-> NoEntry]
  /\ flights = [m \in Manager |-> [r \in Request |-> NoCall]]
  /\ call = [c \in Call |->
       [pc |-> "idle", flight |-> NoCall, refs |-> {}, addressGas |-> FALSE,
        digest |-> NoCall, revision |-> 0, outcome |-> "none", synced |-> FALSE,
        answer |-> "none"]]
  /\ version = [k \in Coin |-> 1]
  /\ sent = {}
  /\ ledger = [c \in Call |-> "none"]

Recorded(r) == journal[r].digest # NoCall

\* The transactions of calls c and d cannot both be in flight.
GasConflict(c, d) ==
  \/ call[c].addressGas /\ call[d].addressGas
  \/ \E ref \in call[c].refs, other \in call[d].refs : ref[1] = other[1]

\* The call goes on; nothing else changes.
Goto(c, s) ==
  /\ call' = [call EXCEPT ![c] = s]
  /\ UNCHANGED <<journal, flights, version, sent, ledger>>

\* The promise of a flight settles, and the flight is removed.
Return(c, answer, synced) ==
  /\ call' = [call EXCEPT ![c].pc = "done", ![c].answer = answer, ![c].synced = synced]
  /\ flights' = [flights EXCEPT ![ManagerOf[c]][RequestOf[c]] = IF @ = c THEN NoCall ELSE @]
  /\ UNCHANGED <<journal, version, sent, ledger>>

\* queryEntry: go and ask the chain about the recorded transaction.
LookUp(c) ==
  Goto(c, [call[c] EXCEPT !.pc = "look", !.digest = journal[RequestOf[c]].digest,
                          !.revision = journal[RequestOf[c]].revision])

-----------------------------------------------------------------------------
(* The submitter: query the request, prepare a quote, have it approved.    *)

\* query: a recorded request is only asked about.
Query(c) ==
  /\ call[c].pc \in {"idle", "requery"}
  /\ \/ Recorded(RequestOf[c]) /\ LookUp(c)
     \/ /\ ~Recorded(RequestOf[c])
        /\ IF call[c].pc = "idle"
           THEN Goto(c, [call[c] EXCEPT !.pc = "prepare"])
           ELSE Return(c, "unknown", FALSE)

\* The network or the journal cannot be read.
QueryFails(c) ==
  /\ call[c].pc \in {"idle", "requery"}
  /\ Return(c, "unknown", FALSE)

\* prepare reads the journal again: the request may be recorded by now.
PrepareRead(c) ==
  /\ call[c].pc = "prepare"
  /\ Goto(c, [call[c] EXCEPT !.pc =
                IF Recorded(RequestOf[c]) THEN "requery" ELSE "funds"])

\* The quote pays from the address balance, or with coins as they are now;
\* what the journal reserves is not considered.
Quote(c) ==
  /\ call[c].pc = "funds"
  /\ \/ Goto(c, [call[c] EXCEPT !.pc = "quoted", !.addressGas = TRUE])
     \/ \E coins \in SUBSET Coin \ {{}} :
          Goto(c, [call[c] EXCEPT !.pc = "quoted",
                                  !.refs = {<<k, version[k]>> : k \in coins}])

-----------------------------------------------------------------------------
(* submit and broadcast.                                                   *)

\* One flight per manager and request: who finds one shares its promise.
Submit(c) ==
  LET flight == flights[ManagerOf[c]][RequestOf[c]] IN
  /\ call[c].pc = "quoted"
  /\ IF flight = NoCall
     THEN /\ flights' = [flights EXCEPT ![ManagerOf[c]][RequestOf[c]] = c]
          /\ call' = [call EXCEPT ![c].pc = "prior"]
     ELSE /\ call' = [call EXCEPT ![c].pc = "joined", ![c].flight = flight]
          /\ UNCHANGED flights
  /\ UNCHANGED <<journal, version, sent, ledger>>

\* The flight it joined has settled, with a value or with an error.
Joined(c) ==
  LET leader == call[call[c].flight] IN
  /\ call[c].pc = "joined"
  /\ leader.pc = "done"
  /\ Goto(c, [call[c] EXCEPT !.pc = "done", !.answer = leader.answer,
                             !.synced = leader.synced, !.digest = leader.digest])

ReadPrior(c) ==
  /\ call[c].pc = "prior"
  /\ IF Recorded(RequestOf[c]) THEN LookUp(c)
     ELSE Goto(c, [call[c] EXCEPT !.pc = "recheck"])

\* The journal cannot be read or written.
JournalUnavailable(c) ==
  /\ call[c].pc \in {"prepare", "prior", "claim", "conflict"}
  /\ Return(c, "journal_unavailable", FALSE)

\* Funds are short, the quote is stale, not approved or not signed, the network
\* changed or cannot be reached, the owner of the manager has ended.
Preflight(c) ==
  /\ call[c].pc \in {"prepare", "funds", "quoted", "prior", "recheck", "sign"}
  /\ Return(c, "preflight", FALSE)

\* The coins are still those of the quote.
Recheck(c) ==
  /\ call[c].pc = "recheck"
  /\ \A ref \in call[c].refs : version[ref[1]] = ref[2]
  /\ Goto(c, [call[c] EXCEPT !.pc = "sign"])

Sign(c) ==
  /\ call[c].pc = "sign"
  /\ Goto(c, [call[c] EXCEPT !.pc = "claim"])

\* Fault: the journal is searched for the coins of a quote only.
ClaimableByCoin(c) ==
  /\ ~Recorded(RequestOf[c])
  /\ \A r \in Request : journal[r].status = "pending" =>
       \A ref \in call[c].refs, other \in call[journal[r].digest].refs : ref[1] # other[1]

\* Fault: a new attempt may take the place of the recorded one.
ClaimableOverRequest(c) ==
  \A r \in Request : journal[r].status = "pending" =>
    r # RequestOf[c] /\ ~GasConflict(c, journal[r].digest)

\* claim() rejects a recorded request and Gas that a pending one reserves.
Claimable(c) ==
  /\ ~Recorded(RequestOf[c])
  /\ \A r \in Request :
       journal[r].status = "pending" => ~GasConflict(c, journal[r].digest)

\* The journal's transaction serializes the claims of all windows.
Claim(c) ==
  /\ call[c].pc = "claim"
  /\ IF Claimable(c)
     THEN /\ journal' = [journal EXCEPT ![RequestOf[c]] =
                           [digest |-> c, revision |-> 1, status |-> "pending"]]
          /\ call' = [call EXCEPT ![c].pc = "send", ![c].digest = c, ![c].revision = 1]
     ELSE /\ call' = [call EXCEPT ![c].pc = "conflict"]
          /\ UNCHANGED journal
  /\ UNCHANGED <<flights, version, sent, ledger>>

\* Not claimed: because of the request, or because of the Gas.
Conflict(c) ==
  /\ call[c].pc = "conflict"
  /\ IF Recorded(RequestOf[c]) THEN LookUp(c) ELSE Return(c, "gas_reserved", FALSE)

Send(c) ==
  /\ call[c].pc = "send"
  /\ sent' = sent \cup {c}
  /\ call' = [call EXCEPT ![c].pc = "receipt"]
  /\ UNCHANGED <<journal, flights, version, ledger>>

\* Fault: a broadcast that fails is thrown like everything before it.
WithoutReceiptThrown(c) == Return(c, "preflight", FALSE)

\* What follows a broadcast without a receipt, or one that was not allowed any
\* more: the original transaction is asked about.
WithoutReceipt(c) == Goto(c, [call[c] EXCEPT !.pc = "look"])

SendFails(c) ==
  /\ call[c].pc \in {"send", "receipt"}
  /\ WithoutReceipt(c)

\* The receipt, or the answer of the chain to a query, is that of this digest.
Receipt(c) ==
  /\ call[c].pc \in {"receipt", "look"}
  /\ ledger[call[c].digest] \in Known
  /\ Goto(c, [call[c] EXCEPT !.pc = "replace", !.outcome = ledger[call[c].digest]])

\* Fault: a transaction that is not found has failed.
NotConfirmedFailed == "failed"

\* Not found, not readable or not verified: nothing is inferred.
NotConfirmed == "unknown"

LookFails(c) ==
  /\ call[c].pc = "look"
  /\ Return(c, NotConfirmed, TRUE)

-----------------------------------------------------------------------------
(* confirm: record what the chain holds.                                   *)

\* replace() compares revision, digest and status in one transaction.
Replaceable(c) ==
  LET e == journal[RequestOf[c]] IN
  e.revision = call[c].revision /\ e.digest = call[c].digest /\ e.status = "pending"

Replace(c) ==
  /\ call[c].pc = "replace"
  /\ IF Replaceable(c)
     THEN /\ journal' = [journal EXCEPT ![RequestOf[c]].revision = call[c].revision + 1,
                                        ![RequestOf[c]].status = call[c].outcome]
          /\ call' = [call EXCEPT ![c].pc = "done", ![c].answer = call[c].outcome,
                                  ![c].synced = TRUE]
          /\ flights' = [flights EXCEPT ![ManagerOf[c]][RequestOf[c]] =
                           IF @ = c THEN NoCall ELSE @]
     ELSE /\ call' = [call EXCEPT ![c].pc = "resync"]
          /\ UNCHANGED <<journal, flights>>
  /\ UNCHANGED <<version, sent, ledger>>

\* Somebody else has recorded it: the same outcome?
Resync(c) ==
  LET e == journal[RequestOf[c]] IN
  /\ call[c].pc = "resync"
  /\ Return(c, call[c].outcome,
            e.digest = call[c].digest /\ e.status = call[c].outcome)

\* Fault: the outcome is reported as recorded although writing it failed.
UnsyncedReported == TRUE

\* What is reported of the journal when it could not be written or read.
Unsynced == FALSE

\* A known outcome stays known if the journal fails.
ConfirmFails(c) ==
  /\ call[c].pc \in {"replace", "resync"}
  /\ Return(c, call[c].outcome, Unsynced)

-----------------------------------------------------------------------------
(* The chain, and the end of a manager.                                    *)

\* A broadcast transaction is executed, with success or failure, on the very
\* versions it pays with, and makes new ones of them.
Land(c) ==
  /\ c \in sent /\ ledger[c] = "none"
  /\ \A ref \in call[c].refs : version[ref[1]] = ref[2] /\ ref[2] < MaxVersion
  /\ \E status \in Known : ledger' = [ledger EXCEPT ![c] = status]
  /\ version' = [k \in Coin |->
       IF \E ref \in call[c].refs : ref[1] = k THEN version[k] + 1 ELSE version[k]]
  /\ UNCHANGED <<journal, flights, call, sent>>

\* The same address pays for something else, outside the journal.
Spend(k) ==
  /\ version[k] < MaxVersion
  /\ version' = [version EXCEPT ![k] = @ + 1]
  /\ UNCHANGED <<journal, flights, call, sent, ledger>>

\* A page is closed or crashes: its calls end where they are.
Die(m) ==
  /\ \E c \in Call : ManagerOf[c] = m /\ call[c].pc \notin {"idle", "done", "dead"}
  /\ call' = [c \in Call |->
       IF ManagerOf[c] = m /\ call[c].pc \notin {"idle", "done"}
       THEN [call[c] EXCEPT !.pc = "dead"] ELSE call[c]]
  /\ flights' = [flights EXCEPT ![m] = [r \in Request |-> NoCall]]
  /\ UNCHANGED <<journal, version, sent, ledger>>

CallStep(c) ==
  \/ Query(c) \/ QueryFails(c) \/ PrepareRead(c) \/ Quote(c) \/ Submit(c) \/ Joined(c)
  \/ ReadPrior(c) \/ JournalUnavailable(c) \/ Preflight(c) \/ Recheck(c) \/ Sign(c)
  \/ Claim(c) \/ Conflict(c) \/ Send(c) \/ SendFails(c) \/ Receipt(c) \/ LookFails(c)
  \/ Replace(c) \/ Resync(c) \/ ConfirmFails(c)

Next ==
  \/ \E c \in Call : CallStep(c) \/ Land(c)
  \/ \E k \in Coin : Spend(k)
  \/ \E m \in Manager : Die(m)

Spec == Init /\ [][Next]_vars

-----------------------------------------------------------------------------
(* Properties.                                                             *)

TypeOK ==
  /\ journal \in [Request -> Entry]
  /\ flights \in [Manager -> [Request -> Call \cup {NoCall}]]
  /\ call \in [Call -> CallState]
  /\ version \in [Coin -> Nat]
  /\ sent \subseteq Call
  /\ ledger \in [Call -> Known \cup {"none"}]

\* Every transaction that was ever broadcast is the one the journal records for
\* its request: over all windows, crashes and repeated submissions a request is
\* broadcast as one transaction, and its digest is never lost (broadcast: the
\* digest is claimed before executeTransaction).
SentIsRecorded == \A c \in sent : journal[RequestOf[c]].digest = c

\* Two transactions whose fate is open never pay with the same coin, nor both
\* from the address balance: signed twice, an owned coin would be locked
\* (pendingGasConflict, evaluated inside claim()).
NoGasEquivocation ==
  \A c, d \in sent :
    c # d /\ ledger[c] = "none" /\ ledger[d] = "none" => ~GasConflict(c, d)

\* An outcome that is answered or recorded is the one the chain holds for the
\* digest it names: nothing is inferred from a missing answer (queryEntry).
KnownOutcomesTrue ==
  /\ \A c \in Call : call[c].answer \in Known => ledger[call[c].digest] = call[c].answer
  /\ \A r \in Request : journal[r].status \in Known =>
       ledger[journal[r].digest] = journal[r].status

\* journalSynced: an outcome reported as recorded is in the journal, also when
\* another window recorded it or tries to (confirm).
SyncedMeansRecorded ==
  \A c \in Call : call[c].synced /\ call[c].answer \in Known =>
    LET e == journal[RequestOf[c]] IN
    e.digest = call[c].digest /\ e.status = call[c].answer

\* What the submitter tells the OKR runner: a failed transaction and every
\* error thrown by the manager count as rejected.
Submission(answer) == IF answer \in Refusal \cup {"failed"} THEN "rejected" ELSE answer

\* A call that is told its submission was rejected has not broadcast its
\* transaction, now or later, unless the chain executed it without success
\* ("The manager only throws before broadcast").
RejectedHasNoEffect ==
  \A c \in Call :
    Submission(call[c].answer) = "rejected" => c \notin sent \/ ledger[c] = "failed"

\* A call that could not read the journal is not told that its submission was
\* rejected while a transaction for the same request has been broadcast
\* ("cannot establish that an earlier process did not send this request").
UnreadJournalIsUnknown ==
  [][\A c \in Call :
       /\ call[c].answer = "none" /\ call'[c].answer = "journal_unavailable"
       /\ Submission(call'[c].answer) = "rejected"
       => \A d \in sent : RequestOf[d] # RequestOf[c]]_vars

-----------------------------------------------------------------------------
(* The inductive invariant.                                                *)

\* Where a call may be once its transaction is in the journal.
Claimed == {"send", "receipt", "look", "replace", "resync", "done", "dead"}

\* A flight belongs to a call for its request.
FlightInv ==
  \A m \in Manager, r \in Request :
    flights[m][r] # NoCall => RequestOf[flights[m][r]] = r

\* An entry is that of a call for its request which does not change its quote
\* any more, and a recorded outcome is the chain's.
EntryInv(r) ==
  LET e == journal[r] IN
  /\ e.status = "none" <=> e.digest = NoCall
  /\ e.digest # NoCall => RequestOf[e.digest] = r /\ call[e.digest].pc \in Claimed
  /\ e.status \in Known => ledger[e.digest] = e.status

\* Pending entries do not compete for Gas.
ReservationInv ==
  \A r, q \in Request :
    /\ r # q /\ journal[r].status = "pending" /\ journal[q].status = "pending"
    => ~GasConflict(journal[r].digest, journal[q].digest)

\* What holds of a call c in state s.
CallInv(c, s) ==
  LET e == journal[RequestOf[c]] IN
  /\ s.pc \in {"send", "receipt"} => s.digest = c
  /\ s.pc \in {"send", "receipt", "look", "replace", "resync"} \/ s.answer \in Known =>
       s.digest # NoCall /\ e.digest = s.digest
  /\ s.pc \in {"replace", "resync"} => s.outcome \in Known /\ ledger[s.digest] = s.outcome
  /\ s.answer \in Known => ledger[s.digest] = s.answer
  /\ s.answer \in Known /\ s.synced => e.status = s.answer
  /\ s.answer # "none" => s.pc = "done"
  /\ s.answer \in Refusal => c \notin sent
  /\ s.pc = "joined" => s.flight # NoCall /\ RequestOf[s.flight] = RequestOf[c]
  /\ c \in sent => s.pc \in Claimed \ {"send"} /\ e.digest = c
  /\ ledger[c] # "none" => c \in sent

SelfPayInv ==
  /\ TypeOK /\ FlightInv /\ ReservationInv
  /\ \A r \in Request : EntryInv(r)
  /\ \A c \in Call : CallInv(c, call[c])
=============================================================================
