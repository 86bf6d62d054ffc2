---------------------------- MODULE SelfPay_proofs ----------------------------
(***************************************************************************)
(* Proofs about SelfPay, for any number of requests, managers, calls and   *)
(* coins.  Most steps change one call and nothing durable: CallPreserves   *)
(* says what such a step has to restore.  The steps that write the journal *)
(* (Claim, Replace), broadcast (Send) or execute (Land) a transaction and  *)
(* the end of a manager (Die) are taken one by one.                        *)
(***************************************************************************)
EXTENDS SelfPay, TLAPS

\* A call in another place is of its type.
LEMMA MoveType ==
  ASSUME NEW s \in CallState, NEW pc \in Pc PROVE [s EXCEPT !.pc = pc] \in CallState
BY DEF CallState

\* So is one that looks up an entry, or waits for a flight.
LEMMA LookType ==
  ASSUME NEW s \in CallState, NEW pc \in Pc, NEW d \in Call \cup {NoCall}, NEW n \in Nat
  PROVE  /\ [s EXCEPT !.pc = pc, !.digest = d, !.revision = n] \in CallState
         /\ [s EXCEPT !.pc = pc, !.flight = d] \in CallState
BY DEF CallState

\* So is one that has its answer.
LEMMA AnswerType ==
  ASSUME NEW s \in CallState, NEW b \in BOOLEAN,
         NEW answer \in Known \cup Refusal \cup {"none", "unknown"},
         NEW d \in Call \cup {NoCall}
  PROVE  /\ [s EXCEPT !.pc = "done", !.answer = answer, !.synced = b] \in CallState
         /\ [s EXCEPT !.pc = "done", !.answer = answer, !.synced = b, !.digest = d]
              \in CallState
<1>0. "done" \in Pc
  BY DEF Pc
<1>1. /\ [s EXCEPT !.pc = "done", !.answer = answer, !.synced = TRUE] \in CallState
      /\ [s EXCEPT !.pc = "done", !.answer = answer, !.synced = FALSE] \in CallState
  BY <1>0 DEF CallState
<1>2. /\ [s EXCEPT !.pc = "done", !.answer = answer, !.synced = TRUE, !.digest = d]
           \in CallState
      /\ [s EXCEPT !.pc = "done", !.answer = answer, !.synced = FALSE, !.digest = d]
           \in CallState
  BY <1>0 DEF CallState
<1> QED BY <1>1, <1>2, Zenon

\* A step of one call that neither writes the journal nor reaches the chain
\* restores the invariant if the call's own part holds again and a claimed
\* quote stays what it is.
LEMMA CallPreserves ==
  ASSUME SelfPayInv, NEW c \in Call, NEW s \in CallState,
         call' = [call EXCEPT ![c] = s],
         UNCHANGED <<journal, version, sent, ledger>>,
         flights' \in [Manager -> [Request -> Call \cup {NoCall}]], FlightInv',
         CallInv(c, s),
         call[c].pc \in Claimed =>
           s.pc \in Claimed /\ s.refs = call[c].refs /\ s.addressGas = call[c].addressGas
  PROVE  SelfPayInv'
<1>0. TypeOK /\ call \in [Call -> CallState]
  BY DEF SelfPayInv, TypeOK
<1>1. TypeOK'
  BY <1>0 DEF TypeOK
<1>2. ASSUME NEW d \in Call
      PROVE  /\ call'[d] = IF d = c THEN s ELSE call[d]
             /\ call[d].pc \in Claimed => /\ call'[d].pc \in Claimed
                                          /\ call'[d].refs = call[d].refs
                                          /\ call'[d].addressGas = call[d].addressGas
  BY <1>0
<1>3. ASSUME NEW d \in Call PROVE CallInv(d, call[d])'
  <2>1. CASE d = c
    BY <2>1, <1>2 DEF CallInv
  <2>2. CASE d # c
    <3>1. CallInv(d, call[d])
      BY DEF SelfPayInv
    <3> QED BY <3>1, <2>2, <1>2 DEF CallInv
  <2> QED BY <2>1, <2>2
<1>4. ASSUME NEW r \in Request PROVE EntryInv(r)'
  <2>1. EntryInv(r) /\ journal[r].digest \in Call \cup {NoCall}
    BY <1>0 DEF SelfPayInv, TypeOK, Entry
  <2> QED BY <2>1, <1>2 DEF EntryInv
<1>5. ReservationInv'
  <2> SUFFICES ASSUME NEW r \in Request, NEW q \in Request, r # q,
                      journal[r].status = "pending", journal[q].status = "pending"
               PROVE  ~GasConflict(journal[r].digest, journal[q].digest)'
    BY DEF ReservationInv
  <2> DEFINE a == journal[r].digest
             b == journal[q].digest
  <2>1. EntryInv(r) /\ EntryInv(q) /\ ~GasConflict(a, b)
    BY DEF SelfPayInv, ReservationInv
  <2>2. a \in Call /\ b \in Call /\ call[a].pc \in Claimed /\ call[b].pc \in Claimed
    BY <1>0, <2>1 DEF EntryInv, TypeOK, Entry
  <2>3. /\ call'[a].refs = call[a].refs /\ call'[a].addressGas = call[a].addressGas
        /\ call'[b].refs = call[b].refs /\ call'[b].addressGas = call[b].addressGas
    BY <1>2, <2>2
  <2> QED BY <2>1, <2>3 DEF GasConflict
<1> QED BY <1>1, <1>3, <1>4, <1>5 DEF SelfPayInv

\* A call that goes on leaves the flights alone.
LEMMA GotoPreserves ==
  ASSUME SelfPayInv, NEW c \in Call, NEW s \in CallState, Goto(c, s), CallInv(c, s),
         call[c].pc \in Claimed =>
           s.pc \in Claimed /\ s.refs = call[c].refs /\ s.addressGas = call[c].addressGas
  PROVE  SelfPayInv'
<1>1. flights' \in [Manager -> [Request -> Call \cup {NoCall}]] /\ FlightInv'
  BY DEF SelfPayInv, TypeOK, Goto, FlightInv
<1> QED BY <1>1, CallPreserves DEF Goto

\* The flights after a call removed its own.
LEMMA ReleaseFlights ==
  ASSUME SelfPayInv, NEW c \in Call,
         flights' = [flights EXCEPT ![ManagerOf[c]][RequestOf[c]] =
                                      IF @ = c THEN NoCall ELSE @]
  PROVE  flights' \in [Manager -> [Request -> Call \cup {NoCall}]] /\ FlightInv'
<1>0. /\ ManagerOf[c] \in Manager /\ RequestOf[c] \in Request
      /\ flights \in [Manager -> [Request -> Call \cup {NoCall}]] /\ FlightInv
  BY CallAssumption DEF SelfPayInv, TypeOK
<1>1. flights' \in [Manager -> [Request -> Call \cup {NoCall}]]
  BY <1>0
<1>2. \A m \in Manager, r \in Request :
        flights'[m][r] # NoCall => flights'[m][r] = flights[m][r]
  BY <1>0
<1> QED BY <1>0, <1>1, <1>2 DEF FlightInv

\* A call that returns may say unknown, refuse before it claimed anything, or
\* report the outcome it read.
LEMMA ReturnPreserves ==
  ASSUME SelfPayInv, NEW c \in Call, NEW answer \in Known \cup Refusal \cup {"unknown"},
         NEW synced \in BOOLEAN, Return(c, answer, synced), call[c].pc # "done",
         answer \in Refusal => call[c].pc \notin Claimed,
         answer \in Known => /\ call[c].pc \in {"replace", "resync"}
                             /\ answer = call[c].outcome
                             /\ synced => journal[RequestOf[c]].status = answer
  PROVE  SelfPayInv'
<1> DEFINE s == [call[c] EXCEPT !.pc = "done", !.answer = answer, !.synced = synced]
<1>0. call \in [Call -> CallState] /\ call[c] \in CallState /\ CallInv(c, call[c])
  BY DEF SelfPayInv, TypeOK
<1>1. s \in CallState
  BY <1>0, AnswerType
<1>2. call' = [call EXCEPT ![c] = s]
  BY <1>0 DEF Return
<1>3. /\ s.pc = "done" /\ s.answer = answer /\ s.synced = synced /\ s.digest = call[c].digest
      /\ s.refs = call[c].refs /\ s.addressGas = call[c].addressGas
  BY <1>0 DEF CallState
<1>4. CallInv(c, s)
  BY <1>0, <1>3 DEF CallInv, Claimed, Known, Refusal
<1>5. flights' \in [Manager -> [Request -> Call \cup {NoCall}]] /\ FlightInv'
  BY ReleaseFlights DEF Return
<1> HIDE DEF s
<1> QED BY <1>1, <1>2, <1>3, <1>4, <1>5, CallPreserves DEF Return, Claimed

\* Asking about a recorded request.
LEMMA LookUpPreserves ==
  ASSUME SelfPayInv, NEW c \in Call, LookUp(c), Recorded(RequestOf[c]),
         call[c].pc \notin Claimed
  PROVE  SelfPayInv'
<1> DEFINE e == journal[RequestOf[c]]
           s == [call[c] EXCEPT !.pc = "look", !.digest = e.digest, !.revision = e.revision]
<1>0. call \in [Call -> CallState] /\ call[c] \in CallState /\ CallInv(c, call[c])
  BY DEF SelfPayInv, TypeOK
<1>1. e \in Entry
  BY CallAssumption DEF SelfPayInv, TypeOK
<1>2. s \in CallState
  BY <1>0, <1>1, LookType DEF Pc, Entry
<1>3. s.pc = "look" /\ s.digest = e.digest /\ s.answer = call[c].answer
  BY <1>0 DEF CallState
<1>4. CallInv(c, s)
  BY <1>0, <1>3 DEF CallInv, Claimed, Known, Refusal, Recorded
<1>5. Goto(c, s)
  BY DEF LookUp
<1> HIDE DEF s
<1> QED BY <1>2, <1>4, <1>5, GotoPreserves

\* A call that has claimed nothing and goes on to another such place.
LEMMA EarlyPreserves ==
  ASSUME SelfPayInv, NEW c \in Call, NEW s \in CallState, Goto(c, s),
         call[c].pc \notin Claimed,
         s.pc \in Pc \ (Claimed \cup {"joined"}), s.answer = call[c].answer
  PROVE  SelfPayInv'
<1>0. CallInv(c, call[c])
  BY DEF SelfPayInv
<1>1. CallInv(c, s)
  BY <1>0 DEF CallInv, Claimed, Known, Refusal
<1> QED BY <1>1, GotoPreserves

-----------------------------------------------------------------------------

\* The steps of a call that has claimed nothing yet.
LEMMA EarlySteps ==
  ASSUME SelfPayInv, NEW c \in Call,
         \/ Query(c) \/ QueryFails(c) \/ PrepareRead(c) \/ Quote(c) \/ ReadPrior(c)
         \/ JournalUnavailable(c) \/ Preflight(c) \/ Recheck(c) \/ Sign(c) \/ Conflict(c)
  PROVE  SelfPayInv'
<1>0. call[c] \in CallState
  BY DEF SelfPayInv, TypeOK
<1>1. call[c].pc \notin Claimed /\ call[c].pc # "done"
  BY DEF Query, QueryFails, PrepareRead, Quote, ReadPrior, JournalUnavailable, Preflight,
         Recheck, Sign, Conflict, Claimed
<1>2. ASSUME NEW answer \in Refusal \cup {"unknown"}, Return(c, answer, FALSE)
      PROVE  SelfPayInv'
  <2>1. answer \in Known \cup Refusal \cup {"unknown"} /\ answer \notin Known
    BY <1>2 DEF Known, Refusal
  <2> QED BY <1>1, <1>2, <2>1, ReturnPreserves
<1>3. ASSUME NEW pc \in {"prepare", "requery", "funds", "recheck", "sign", "claim"},
             Goto(c, [call[c] EXCEPT !.pc = pc])
      PROVE  SelfPayInv'
  <2> DEFINE s == [call[c] EXCEPT !.pc = pc]
  <2>1. pc \in Pc \ (Claimed \cup {"joined"})
    BY DEF Pc, Claimed
  <2>2. s \in CallState /\ s.pc = pc /\ s.answer = call[c].answer
    BY <1>0, <2>1, MoveType DEF CallState
  <2> HIDE DEF s
  <2> QED BY <1>1, <1>3, <2>1, <2>2, EarlyPreserves DEF s
<1>4. CASE Query(c)
  <2>1. CASE Recorded(RequestOf[c]) /\ LookUp(c)
    BY <2>1, <1>1, LookUpPreserves
  <2>2. CASE Goto(c, [call[c] EXCEPT !.pc = "prepare"])
    BY <2>2, <1>3
  <2>3. CASE Return(c, "unknown", FALSE)
    BY <2>3, <1>2
  <2> QED BY <1>4, <2>1, <2>2, <2>3 DEF Query
<1>5. CASE QueryFails(c)
  BY <1>5, <1>2 DEF QueryFails
<1>6. CASE PrepareRead(c)
  BY <1>6, <1>3 DEF PrepareRead
<1>7. CASE Quote(c)
  <2>0. "quoted" \in Pc \ (Claimed \cup {"joined"})
    BY DEF Pc, Claimed
  <2>1. CASE Goto(c, [call[c] EXCEPT !.pc = "quoted", !.addressGas = TRUE])
    <3> DEFINE s == [call[c] EXCEPT !.pc = "quoted", !.addressGas = TRUE]
    <3>1. s \in CallState /\ s.pc = "quoted" /\ s.answer = call[c].answer
      BY <1>0, <2>0 DEF CallState
    <3> HIDE DEF s
    <3> QED BY <1>1, <2>0, <2>1, <3>1, EarlyPreserves DEF s
  <2>2. ASSUME NEW coins \in SUBSET Coin,
               Goto(c, [call[c] EXCEPT !.pc = "quoted",
                                       !.refs = {<<k, version[k]>> : k \in coins}])
        PROVE  SelfPayInv'
    <3> DEFINE refs == {<<k, version[k]>> : k \in coins}
               s == [call[c] EXCEPT !.pc = "quoted", !.refs = refs]
    <3>1. refs \in SUBSET GasReference
      BY DEF GasReference, SelfPayInv, TypeOK
    <3> HIDE DEF refs
    <3>2. s \in CallState /\ s.pc = "quoted" /\ s.answer = call[c].answer
      BY <1>0, <2>0, <3>1 DEF CallState
    <3>3. Goto(c, s)
      BY <2>2 DEF refs
    <3> HIDE DEF s
    <3> QED BY <1>1, <2>0, <3>2, <3>3, EarlyPreserves
  <2> QED BY <1>7, <2>1, <2>2 DEF Quote
<1>8. CASE ReadPrior(c)
  BY <1>8, <1>1, <1>3, LookUpPreserves DEF ReadPrior
<1>9. CASE JournalUnavailable(c)
  BY <1>9, <1>2 DEF JournalUnavailable, Refusal
<1>10. CASE Preflight(c)
  BY <1>10, <1>2 DEF Preflight, Refusal
<1>11. CASE Recheck(c)
  BY <1>11, <1>3 DEF Recheck
<1>12. CASE Sign(c)
  BY <1>12, <1>3 DEF Sign
<1>13. CASE Conflict(c)
  BY <1>13, <1>1, <1>2, LookUpPreserves DEF Conflict, Refusal
<1> QED BY <1>4, <1>5, <1>6, <1>7, <1>8, <1>9, <1>10, <1>11, <1>12, <1>13

\* submit: a call opens a flight or joins one.
LEMMA SubmitPreserves ==
  ASSUME SelfPayInv, NEW c \in Call, Submit(c)
  PROVE  SelfPayInv'
<1> DEFINE m == ManagerOf[c]
           r == RequestOf[c]
<1>0. /\ m \in Manager /\ r \in Request /\ call[c] \in CallState
      /\ flights \in [Manager -> [Request -> Call \cup {NoCall}]] /\ FlightInv
      /\ call \in [Call -> CallState] /\ CallInv(c, call[c]) /\ call[c].pc = "quoted"
  BY CallAssumption DEF SelfPayInv, TypeOK, Submit
<1>1. CASE flights[m][r] = NoCall
  <2> DEFINE s == [call[c] EXCEPT !.pc = "prior"]
  <2>0. s \in CallState
    BY <1>0, MoveType DEF Pc
  <2>1. s \in CallState /\ s.pc = "prior" /\ s.answer = call[c].answer
    BY <1>0, <2>0 DEF CallState
  <2>2. CallInv(c, s)
    BY <1>0, <2>1 DEF CallInv, Claimed, Known, Refusal
  <2>3. call' = [call EXCEPT ![c] = s]
    BY <1>0, <1>1 DEF Submit
  <2>4. flights' = [flights EXCEPT ![m][r] = c]
    BY <1>1 DEF Submit
  <2>5. flights' \in [Manager -> [Request -> Call \cup {NoCall}]]
    BY <1>0, <2>4
  <2>6. \A n \in Manager, q \in Request :
          flights'[n][q] = IF n = m /\ q = r THEN c ELSE flights[n][q]
    BY <1>0, <2>4
  <2>7. FlightInv'
    BY <1>0, <2>6 DEF FlightInv
  <2> HIDE DEF s
  <2> QED BY <1>0, <2>1, <2>2, <2>3, <2>5, <2>7, CallPreserves DEF Submit, Claimed
<1>2. CASE flights[m][r] # NoCall
  <2> DEFINE f == flights[m][r]
             s == [call[c] EXCEPT !.pc = "joined", !.flight = f]
  <2>0. f \in Call /\ RequestOf[f] = r
    BY <1>0, <1>2 DEF FlightInv
  <2>1. s \in CallState
    BY <1>0, <2>0, LookType DEF Pc
  <2>2. s.pc = "joined" /\ s.flight = f /\ s.answer = call[c].answer
    BY <1>0 DEF CallState
  <2>3. CallInv(c, s)
    BY <1>0, <1>2, <2>0, <2>2 DEF CallInv, Claimed, Known, Refusal
  <2>4. call' = [call EXCEPT ![c] = s] /\ UNCHANGED flights
    BY <1>0, <1>2 DEF Submit
  <2>5. FlightInv'
    BY <1>0, <2>4 DEF FlightInv
  <2> HIDE DEF s
  <2> QED BY <1>0, <2>1, <2>3, <2>4, <2>5, CallPreserves DEF Submit, Claimed
<1> QED BY <1>1, <1>2

\* A joined call is given what its flight ended with.
LEMMA JoinedPreserves ==
  ASSUME SelfPayInv, NEW c \in Call, Joined(c)
  PROVE  SelfPayInv'
<1> DEFINE f == call[c].flight
           s == [call[c] EXCEPT !.pc = "done", !.answer = call[f].answer,
                                !.synced = call[f].synced, !.digest = call[f].digest]
<1>0. /\ call \in [Call -> CallState] /\ call[c] \in CallState /\ CallInv(c, call[c])
      /\ call[c].pc = "joined" /\ call[f].pc = "done"
  BY DEF SelfPayInv, TypeOK, Joined
<1>1. f \in Call /\ RequestOf[f] = RequestOf[c]
  BY <1>0 DEF CallInv, CallState
<1>2. call[f] \in CallState /\ CallInv(f, call[f])
  BY <1>0, <1>1 DEF SelfPayInv
<1>3. /\ call[f].answer \in Known \cup Refusal \cup {"none", "unknown"}
      /\ call[f].synced \in BOOLEAN /\ call[f].digest \in Call \cup {NoCall}
  BY <1>2 DEF CallState
<1>4. s \in CallState
  BY <1>0, <1>3, AnswerType
<1>5. /\ s.pc = "done" /\ s.answer = call[f].answer /\ s.digest = call[f].digest
      /\ s.synced = call[f].synced
  BY <1>0 DEF CallState
<1>6. CallInv(c, s)
  BY <1>0, <1>1, <1>2, <1>5 DEF CallInv, Claimed, Known, Refusal
<1>7. Goto(c, s)
  BY DEF Joined
<1> HIDE DEF s
<1> QED BY <1>0, <1>4, <1>6, <1>7, GotoPreserves DEF Claimed

-----------------------------------------------------------------------------

\* claim: the entry is written for a request that had none, and for Gas that no
\* pending entry pays with.
LEMMA ClaimPreserves ==
  ASSUME SelfPayInv, NEW c \in Call, Claim(c)
  PROVE  SelfPayInv'
<1> DEFINE r == RequestOf[c]
<1>0. /\ r \in Request /\ call \in [Call -> CallState] /\ call[c] \in CallState
      /\ journal \in [Request -> Entry] /\ CallInv(c, call[c]) /\ call[c].pc = "claim"
  BY CallAssumption DEF SelfPayInv, TypeOK, Claim
<1>1. CASE ~Claimable(c)
  <2> DEFINE s == [call[c] EXCEPT !.pc = "conflict"]
  <2>1. s \in CallState
    BY <1>0, MoveType DEF Pc
  <2>2. s.pc = "conflict" /\ s.answer = call[c].answer
    BY <1>0 DEF CallState
  <2>3. Goto(c, s)
    BY <1>0, <1>1 DEF Claim, Goto
  <2> HIDE DEF s
  <2> QED BY <1>0, <2>1, <2>2, <2>3, EarlyPreserves DEF Pc, Claimed
<1>2. CASE Claimable(c)
  <2> DEFINE e == [digest |-> c, revision |-> 1, status |-> "pending"]
             s == [call[c] EXCEPT !.pc = "send", !.digest = c, !.revision = 1]
  <2>1. e \in Entry /\ e.digest = c /\ e.status = "pending"
    BY DEF Entry
  <2>2. s \in CallState
    BY <1>0, LookType DEF Pc
  <2>3. /\ s.pc = "send" /\ s.digest = c /\ s.answer = call[c].answer
        /\ s.refs = call[c].refs /\ s.addressGas = call[c].addressGas
    BY <1>0 DEF CallState
  <2>4. /\ journal' = [journal EXCEPT ![r] = e] /\ call' = [call EXCEPT ![c] = s]
        /\ UNCHANGED <<flights, version, sent, ledger>>
    BY <1>0, <1>2 DEF Claim
  <2> HIDE DEF e, s
  <2>5. journal[r].digest = NoCall /\ journal[r].status = "none"
    BY <1>0, <1>2 DEF Claimable, Recorded, SelfPayInv, EntryInv
  <2>6. TypeOK'
    BY <1>0, <2>1, <2>2, <2>4 DEF SelfPayInv, TypeOK
  <2>7. FlightInv'
    BY <2>4 DEF SelfPayInv, FlightInv
  <2>8. ASSUME NEW d \in Call
        PROVE  /\ call'[d] = IF d = c THEN s ELSE call[d]
               /\ call'[d].refs = call[d].refs /\ call'[d].addressGas = call[d].addressGas
               /\ call[d].pc \in Claimed => call'[d].pc \in Claimed
    BY <1>0, <2>3, <2>4 DEF Claimed
  <2>9. ASSUME NEW q \in Request PROVE journal'[q] = IF q = r THEN e ELSE journal[q]
    BY <1>0, <2>4
  <2>10. ASSUME NEW q \in Request PROVE EntryInv(q)'
    <3>1. EntryInv(q) /\ journal[q].digest \in Call \cup {NoCall}
      BY <1>0 DEF SelfPayInv, Entry
    <3>2. CASE q = r
      <4>1. journal'[q] = e /\ call'[c].pc = "send" /\ c # NoCall
        BY <2>8, <2>9, <2>3, <3>2, CallAssumption
      <4> QED BY <4>1, <2>1, <3>2 DEF EntryInv, Claimed, Known
    <3>3. CASE q # r
      BY <3>1, <3>3, <2>4, <2>8, <2>9 DEF EntryInv
    <3> QED BY <3>2, <3>3
  <2>11. ReservationInv'
    <3> SUFFICES ASSUME NEW p \in Request, NEW q \in Request, p # q,
                        journal'[p].status = "pending", journal'[q].status = "pending"
                 PROVE  ~GasConflict(journal[p].digest, journal[q].digest)'
      BY DEF ReservationInv
    <3>1. /\ q # r => journal[q].digest \in Call
          /\ p # r => journal[p].digest \in Call
      BY <1>0, <2>9 DEF SelfPayInv, EntryInv, Entry
    <3>2. CASE p = r
      <4>1. ~GasConflict(c, journal[q].digest) /\ journal'[q] = journal[q]
            /\ journal'[p].digest = c
        BY <1>2, <3>2, <2>1, <2>9 DEF Claimable
      <4> QED BY <4>1, <3>1, <3>2, <2>8 DEF GasConflict
    <3>3. CASE q = r
      <4>1. ~GasConflict(c, journal[p].digest) /\ journal'[p] = journal[p]
            /\ journal'[q].digest = c
        BY <1>2, <3>3, <2>1, <2>9 DEF Claimable
      <4> QED BY <4>1, <3>1, <3>3, <2>8 DEF GasConflict
    <3>4. CASE p # r /\ q # r
      <4>1. ~GasConflict(journal[p].digest, journal[q].digest)
            /\ journal'[p] = journal[p] /\ journal'[q] = journal[q]
        BY <3>4, <2>9 DEF SelfPayInv, ReservationInv
      <4> QED BY <4>1, <3>1, <3>4, <2>8 DEF GasConflict
    <3> QED BY <3>2, <3>3, <3>4
  <2>12. ASSUME NEW d \in Call PROVE CallInv(d, call[d])'
    <3>0. CallInv(d, call[d]) /\ RequestOf[d] \in Request
      BY CallAssumption DEF SelfPayInv
    <3>1. CASE d = c
      <4>1. call'[d] = s /\ journal'[RequestOf[d]] = e /\ c \notin sent /\ c # NoCall
        BY <1>0, <2>8, <2>9, <3>0, <3>1, CallAssumption DEF CallInv, Claimed
      <4> QED BY <4>1, <3>0, <3>1, <2>1, <2>3, <2>4, <1>0 DEF CallInv, Claimed, Known, Refusal
    <3>2. CASE d # c /\ RequestOf[d] = r
      <4>1. call'[d] = call[d]
        BY <3>2, <2>8
      <4> QED BY <4>1, <3>0, <3>2, <2>4, <2>5, CallAssumption DEF CallInv
    <3>3. CASE RequestOf[d] # r
      <4>1. call'[d] = call[d] /\ journal'[RequestOf[d]] = journal[RequestOf[d]]
        BY <3>0, <3>3, <2>8, <2>9
      <4> QED BY <4>1, <3>0, <2>4 DEF CallInv
    <3> QED BY <3>1, <3>2, <3>3
  <2> QED BY <2>6, <2>7, <2>10, <2>11, <2>12 DEF SelfPayInv
<1> QED BY <1>1, <1>2

\* Steps that leave the quotes and the journal's reservations as they are keep
\* these from competing.
LEMMA ReservationsKept ==
  ASSUME SelfPayInv,
         \A r \in Request : /\ journal'[r].digest = journal[r].digest
                            /\ journal'[r].status = "pending" => journal[r].status = "pending",
         \A d \in Call : /\ call'[d].refs = call[d].refs
                         /\ call'[d].addressGas = call[d].addressGas
  PROVE  ReservationInv'
<1> SUFFICES ASSUME NEW p \in Request, NEW q \in Request, p # q,
                    journal'[p].status = "pending", journal'[q].status = "pending"
             PROVE  ~GasConflict(journal[p].digest, journal[q].digest)'
  BY DEF ReservationInv
<1>1. /\ journal[p].digest \in Call /\ journal[q].digest \in Call
      /\ ~GasConflict(journal[p].digest, journal[q].digest)
  BY DEF SelfPayInv, EntryInv, TypeOK, Entry, ReservationInv
<1> QED BY <1>1 DEF GasConflict

\* broadcast: the transaction is sent after its digest was claimed.
LEMMA SendPreserves ==
  ASSUME SelfPayInv, NEW c \in Call, Send(c)
  PROVE  SelfPayInv'
<1> DEFINE s == [call[c] EXCEPT !.pc = "receipt"]
<1>0. /\ call \in [Call -> CallState] /\ call[c] \in CallState /\ CallInv(c, call[c])
      /\ call[c].pc = "send" /\ sent \subseteq Call
  BY DEF SelfPayInv, TypeOK, Send
<1>1. s \in CallState
  BY <1>0, MoveType DEF Pc
<1>2. /\ s.pc = "receipt" /\ s.digest = call[c].digest /\ s.answer = call[c].answer
      /\ s.refs = call[c].refs /\ s.addressGas = call[c].addressGas
  BY <1>0 DEF CallState
<1>3. /\ call' = [call EXCEPT ![c] = s] /\ sent' = sent \cup {c}
      /\ UNCHANGED <<journal, flights, version, ledger>>
  BY <1>0 DEF Send
<1> HIDE DEF s
<1>4. ASSUME NEW d \in Call PROVE call'[d] = IF d = c THEN s ELSE call[d]
  BY <1>0, <1>3
<1>5. TypeOK' /\ FlightInv'
  BY <1>0, <1>1, <1>3 DEF SelfPayInv, TypeOK, FlightInv
<1>6. ReservationInv'
  BY <1>2, <1>3, <1>4, ReservationsKept
<1>7. ASSUME NEW r \in Request PROVE EntryInv(r)'
  <2>1. EntryInv(r) /\ journal[r].digest \in Call \cup {NoCall}
    BY DEF SelfPayInv, TypeOK, Entry
  <2> QED BY <2>1, <1>2, <1>3, <1>4 DEF EntryInv, Claimed
<1>8. ASSUME NEW d \in Call PROVE CallInv(d, call[d])'
  <2>1. CallInv(d, call[d])
    BY DEF SelfPayInv
  <2>2. CASE d = c
    <3>1. call'[d] = s /\ c \in sent' /\ s.answer = "none"
      BY <1>0, <1>2, <1>3, <1>4, <2>2 DEF CallInv
    <3> QED BY <3>1, <2>1, <2>2, <1>0, <1>2, <1>3 DEF CallInv, Claimed, Known, Refusal
  <2>3. CASE d # c
    <3>1. call'[d] = call[d] /\ (d \in sent' <=> d \in sent)
      BY <1>3, <1>4, <2>3
    <3> QED BY <3>1, <2>1, <1>3 DEF CallInv
  <2> QED BY <2>2, <2>3
<1> QED BY <1>5, <1>6, <1>7, <1>8 DEF SelfPayInv

\* The steps of a call that asks the chain and reports what it learned.
LEMMA QuerySteps ==
  ASSUME SelfPayInv, NEW c \in Call,
         \/ SendFails(c) \/ Receipt(c) \/ LookFails(c) \/ Resync(c) \/ ConfirmFails(c)
  PROVE  SelfPayInv'
<1>0. /\ call \in [Call -> CallState] /\ call[c] \in CallState /\ CallInv(c, call[c])
      /\ ledger \in [Call -> Known \cup {"none"}] /\ journal \in [Request -> Entry]
      /\ RequestOf[c] \in Request
  BY CallAssumption DEF SelfPayInv, TypeOK
<1>1. CASE SendFails(c)
  <2> DEFINE s == [call[c] EXCEPT !.pc = "look"]
  <2>0. call[c].pc \in {"send", "receipt"} /\ Goto(c, s)
    BY <1>1 DEF SendFails, WithoutReceipt
  <2>1. s \in CallState
    BY <1>0, MoveType DEF Pc
  <2>2. /\ s.pc = "look" /\ s.digest = call[c].digest /\ s.answer = call[c].answer
        /\ s.refs = call[c].refs /\ s.addressGas = call[c].addressGas
    BY <1>0 DEF CallState
  <2>3. CallInv(c, s)
    BY <1>0, <2>0, <2>2 DEF CallInv, Claimed, Known, Refusal
  <2> HIDE DEF s
  <2> QED BY <2>0, <2>1, <2>2, <2>3, GotoPreserves DEF Claimed
<1>2. CASE Receipt(c)
  <2> DEFINE s == [call[c] EXCEPT !.pc = "replace", !.outcome = ledger[call[c].digest]]
  <2>0. /\ call[c].pc \in {"receipt", "look"} /\ Goto(c, s)
        /\ ledger[call[c].digest] \in Known
    BY <1>2 DEF Receipt
  <2>00. "replace" \in Pc
    BY DEF Pc
  <2>1. s \in CallState
    BY <1>0, <2>0, <2>00 DEF CallState
  <2>2. /\ s.pc = "replace" /\ s.digest = call[c].digest /\ s.answer = call[c].answer
        /\ s.refs = call[c].refs /\ s.addressGas = call[c].addressGas
        /\ s.outcome = ledger[call[c].digest]
    BY <1>0 DEF CallState
  <2>3. CallInv(c, s)
    BY <1>0, <2>0, <2>2 DEF CallInv, Claimed, Known, Refusal
  <2> HIDE DEF s
  <2> QED BY <2>0, <2>1, <2>2, <2>3, GotoPreserves DEF Claimed
<1>3. CASE LookFails(c)
  <2>1. call[c].pc = "look" /\ Return(c, "unknown", TRUE)
    BY <1>3 DEF LookFails, NotConfirmed
  <2> QED BY <2>1, ReturnPreserves DEF Known, Refusal
<1>4. ASSUME NEW synced \in BOOLEAN, call[c].pc \in {"replace", "resync"},
             Return(c, call[c].outcome, synced),
             synced => journal[RequestOf[c]].status = call[c].outcome
      PROVE  SelfPayInv'
  <2>1. call[c].outcome \in Known /\ call[c].outcome \notin Refusal
    BY <1>0, <1>4 DEF CallInv, Known, Refusal
  <2> QED BY <1>4, <2>1, ReturnPreserves
<1>5. CASE Resync(c)
  <2> DEFINE b == /\ journal[RequestOf[c]].digest = call[c].digest
                  /\ journal[RequestOf[c]].status = call[c].outcome
  <2>1. call[c].pc = "resync" /\ Return(c, call[c].outcome, b)
    BY <1>5 DEF Resync
  <2>2. b \in BOOLEAN /\ (b => journal[RequestOf[c]].status = call[c].outcome)
    OBVIOUS
  <2> HIDE DEF b
  <2> QED BY <2>1, <2>2, <1>4
<1>6. CASE ConfirmFails(c)
  BY <1>6, <1>4 DEF ConfirmFails, Unsynced
<1> QED BY <1>1, <1>2, <1>3, <1>5, <1>6

\* confirm: the outcome is written once, by whoever comes first.
LEMMA ReplacePreserves ==
  ASSUME SelfPayInv, NEW c \in Call, Replace(c)
  PROVE  SelfPayInv'
<1> DEFINE r == RequestOf[c]
<1>0. /\ r \in Request /\ call \in [Call -> CallState] /\ call[c] \in CallState
      /\ journal \in [Request -> Entry] /\ CallInv(c, call[c]) /\ call[c].pc = "replace"
  BY CallAssumption DEF SelfPayInv, TypeOK, Replace
<1>1. CASE ~Replaceable(c)
  <2> DEFINE s == [call[c] EXCEPT !.pc = "resync"]
  <2>1. s \in CallState
    BY <1>0, MoveType DEF Pc
  <2>2. /\ s.pc = "resync" /\ s.digest = call[c].digest /\ s.answer = call[c].answer
        /\ s.refs = call[c].refs /\ s.addressGas = call[c].addressGas
        /\ s.outcome = call[c].outcome
    BY <1>0 DEF CallState
  <2>3. CallInv(c, s)
    BY <1>0, <2>2 DEF CallInv, Claimed, Known, Refusal
  <2>4. Goto(c, s)
    BY <1>0, <1>1 DEF Replace, Goto
  <2> HIDE DEF s
  <2> QED BY <1>0, <2>1, <2>2, <2>3, <2>4, GotoPreserves DEF Claimed
<1>2. CASE Replaceable(c)
  <2> DEFINE o == call[c].outcome
             e == [journal[r] EXCEPT !.revision = call[c].revision + 1, !.status = o]
             s == [call[c] EXCEPT !.pc = "done", !.answer = o, !.synced = TRUE]
  <2>0. /\ o \in Known /\ ledger[call[c].digest] = o /\ journal[r] \in Entry
        /\ journal[r].digest = call[c].digest /\ journal[r].status = "pending"
        /\ call[c].digest \in Call
    BY <1>0, <1>2 DEF CallInv, Replaceable, CallState
  <2>00. call[c].revision + 1 \in Nat
    BY <1>0 DEF CallState
  <2>1. e \in Entry /\ e.digest = call[c].digest /\ e.status = o
    BY <2>0, <2>00 DEF Entry
  <2>2. s \in CallState
    BY <1>0, <2>0, AnswerType
  <2>3. /\ s.pc = "done" /\ s.digest = call[c].digest /\ s.answer = o
        /\ s.refs = call[c].refs /\ s.addressGas = call[c].addressGas
    BY <1>0 DEF CallState
  <2>4. /\ journal' = [journal EXCEPT ![r] = e] /\ call' = [call EXCEPT ![c] = s]
        /\ UNCHANGED <<version, sent, ledger>>
    BY <1>0, <1>2 DEF Replace
  <2>5. flights' \in [Manager -> [Request -> Call \cup {NoCall}]] /\ FlightInv'
    BY <1>2, ReleaseFlights DEF Replace
  <2> HIDE DEF e, s, o
  <2>6. TypeOK'
    BY <1>0, <2>1, <2>2, <2>4, <2>5 DEF SelfPayInv, TypeOK
  <2>7. ASSUME NEW d \in Call
        PROVE  /\ call'[d] = IF d = c THEN s ELSE call[d]
               /\ call'[d].refs = call[d].refs /\ call'[d].addressGas = call[d].addressGas
               /\ call[d].pc \in Claimed => call'[d].pc \in Claimed
    BY <1>0, <2>3, <2>4 DEF Claimed
  <2>8. ASSUME NEW q \in Request
        PROVE  /\ journal'[q] = IF q = r THEN e ELSE journal[q]
               /\ journal'[q].digest = journal[q].digest
               /\ journal'[q].status = "pending" => journal[q].status = "pending"
    BY <1>0, <2>0, <2>1, <2>4
  <2>9. ReservationInv'
    BY <2>7, <2>8, ReservationsKept
  <2>10. ASSUME NEW q \in Request PROVE EntryInv(q)'
    <3>1. EntryInv(q) /\ journal[q].digest \in Call \cup {NoCall}
      BY <1>0 DEF SelfPayInv, Entry
    <3>2. CASE q = r
      BY <3>1, <3>2, <2>0, <2>1, <2>4, <2>7, <2>8 DEF EntryInv, Known
    <3>3. CASE q # r
      BY <3>1, <3>3, <2>4, <2>7, <2>8 DEF EntryInv
    <3> QED BY <3>2, <3>3
  <2>11. ASSUME NEW d \in Call PROVE CallInv(d, call[d])'
    <3>0. CallInv(d, call[d]) /\ RequestOf[d] \in Request
      BY CallAssumption DEF SelfPayInv
    <3>1. CASE d = c
      <4>1. call'[d] = s /\ journal'[RequestOf[d]] = e
        BY <1>0, <2>7, <2>8, <3>1
      <4> QED BY <4>1, <3>0, <3>1, <1>0, <2>0, <2>1, <2>3, <2>4
              DEF CallInv, Claimed, Known, Refusal
    <3>2. CASE d # c
      <4>1. /\ call'[d] = call[d]
            /\ journal'[RequestOf[d]].digest = journal[RequestOf[d]].digest
            /\ RequestOf[d] # r => journal'[RequestOf[d]] = journal[RequestOf[d]]
        BY <2>7, <2>8, <3>0, <3>2
      <4>2. call[d].answer \in Known /\ call[d].synced =>
              journal'[RequestOf[d]].status = call[d].answer
        BY <4>1, <3>0, <2>0 DEF CallInv, Known
      <4> QED BY <4>1, <4>2, <3>0, <2>4 DEF CallInv
    <3> QED BY <3>1, <3>2
  <2> QED BY <2>5, <2>6, <2>9, <2>10, <2>11 DEF SelfPayInv
<1> QED BY <1>1, <1>2

\* The chain decides a broadcast transaction once.
LEMMA LandPreserves ==
  ASSUME SelfPayInv, NEW c \in Call, Land(c)
  PROVE  SelfPayInv'
<1>1. PICK status \in Known : ledger' = [ledger EXCEPT ![c] = status]
  BY DEF Land
<1>2. /\ c \in sent /\ ledger[c] = "none" /\ UNCHANGED <<journal, flights, call, sent>>
      /\ ledger \in [Call -> Known \cup {"none"}] /\ version \in [Coin -> Nat]
  BY DEF SelfPayInv, TypeOK, Land
<1>3. version' \in [Coin -> Nat]
  BY <1>2 DEF Land
<1>4. TypeOK'
  BY <1>1, <1>2, <1>3 DEF SelfPayInv, TypeOK
<1>5. FlightInv' /\ ReservationInv'
  BY <1>2 DEF SelfPayInv, FlightInv, ReservationInv, GasConflict
<1>6. ASSUME NEW d \in Call
      PROVE  /\ ledger[d] \in Known => ledger'[d] = ledger[d]
             /\ ledger'[d] # "none" => ledger[d] # "none" \/ d = c
  BY <1>1, <1>2 DEF Known
<1>7. ASSUME NEW r \in Request PROVE EntryInv(r)'
  <2>1. EntryInv(r) /\ journal[r].digest \in Call \cup {NoCall}
    BY DEF SelfPayInv, TypeOK, Entry
  <2> QED BY <2>1, <1>2, <1>6 DEF EntryInv, Known
<1>8. ASSUME NEW d \in Call PROVE CallInv(d, call[d])'
  <2>1. CallInv(d, call[d]) /\ call[d].digest \in Call \cup {NoCall}
    BY DEF SelfPayInv, TypeOK, CallState
  <2> QED BY <2>1, <1>2, <1>6 DEF CallInv, Known
<1> QED BY <1>4, <1>5, <1>7, <1>8 DEF SelfPayInv

\* A coin spent elsewhere concerns no entry.
LEMMA SpendPreserves ==
  ASSUME SelfPayInv, NEW k \in Coin, Spend(k)
  PROVE  SelfPayInv'
<1>1. UNCHANGED <<journal, flights, call, sent, ledger>> /\ version' \in [Coin -> Nat]
  BY DEF SelfPayInv, TypeOK, Spend
<1>2. TypeOK' /\ FlightInv' /\ ReservationInv'
  BY <1>1 DEF SelfPayInv, TypeOK, FlightInv, ReservationInv, GasConflict
<1>3. \A r \in Request : EntryInv(r)'
  BY <1>1 DEF SelfPayInv, EntryInv
<1>4. \A c \in Call : CallInv(c, call[c])'
  BY <1>1 DEF SelfPayInv, CallInv
<1> QED BY <1>2, <1>3, <1>4 DEF SelfPayInv

\* The end of a manager leaves the journal to the others.
LEMMA DiePreserves ==
  ASSUME SelfPayInv, NEW m \in Manager, Die(m)
  PROVE  SelfPayInv'
<1>0. /\ call \in [Call -> CallState] /\ UNCHANGED <<journal, version, sent, ledger>>
      /\ flights \in [Manager -> [Request -> Call \cup {NoCall}]]
      /\ flights' = [flights EXCEPT ![m] = [r \in Request |-> NoCall]]
  BY DEF SelfPayInv, TypeOK, Die
<1>1. ASSUME NEW d \in Call
      PROVE  /\ \/ call'[d] = call[d]
                \/ /\ call[d].pc \notin {"idle", "done"}
                   /\ call'[d] = [call[d] EXCEPT !.pc = "dead"]
             /\ call'[d] \in CallState
  <2>1. call'[d] = IF ManagerOf[d] = m /\ call[d].pc \notin {"idle", "done"}
                   THEN [call[d] EXCEPT !.pc = "dead"] ELSE call[d]
    BY DEF Die
  <2>2. call[d] \in CallState /\ "dead" \in Pc
    BY <1>0 DEF Pc
  <2>3. [call[d] EXCEPT !.pc = "dead"] \in CallState
    BY <2>2, MoveType
  <2> QED BY <2>1, <2>2, <2>3
<1>2. ASSUME NEW d \in Call
      PROVE  /\ call'[d].refs = call[d].refs /\ call'[d].addressGas = call[d].addressGas
             /\ call'[d].answer = call[d].answer /\ call'[d].digest = call[d].digest
             /\ call'[d].synced = call[d].synced
             /\ call'[d] = call[d] \/ (call'[d].pc = "dead" /\ call[d].pc # "done")
  <2>1. call[d] \in CallState
    BY <1>0
  <2>2. CASE call'[d] = call[d]
    BY <2>2
  <2>3. CASE /\ call[d].pc \notin {"idle", "done"}
             /\ call'[d] = [call[d] EXCEPT !.pc = "dead"]
    BY <2>1, <2>3 DEF CallState
  <2> QED BY <2>2, <2>3, <1>1
<1>3. call' = [d \in Call |-> call'[d]]
  BY DEF Die
<1>4. call' \in [Call -> CallState]
  BY <1>1, <1>3
<1>5. flights' \in [Manager -> [Request -> Call \cup {NoCall}]]
  BY <1>0
<1>6. TypeOK'
  BY <1>0, <1>4, <1>5 DEF SelfPayInv, TypeOK
<1>7. FlightInv'
  BY <1>0 DEF SelfPayInv, FlightInv
<1>8. ReservationInv'
  BY <1>0, <1>2, ReservationsKept
<1>9. ASSUME NEW r \in Request PROVE EntryInv(r)'
  <2>1. EntryInv(r) /\ journal[r].digest \in Call \cup {NoCall}
    BY DEF SelfPayInv, TypeOK, Entry
  <2> QED BY <2>1, <1>0, <1>2 DEF EntryInv, Claimed
<1>10. ASSUME NEW d \in Call PROVE CallInv(d, call[d])'
  <2>1. CallInv(d, call[d])
    BY DEF SelfPayInv
  <2> QED BY <2>1, <1>0, <1>2 DEF CallInv, Claimed, Known, Refusal
<1> QED BY <1>6, <1>7, <1>8, <1>9, <1>10 DEF SelfPayInv

-----------------------------------------------------------------------------

\* At first nothing is recorded, in flight or sent.
LEMMA InitInv == Init => SelfPayInv
<1> SUFFICES ASSUME Init PROVE SelfPayInv
  OBVIOUS
<1>1. TypeOK
  BY DEF Init, TypeOK, NoEntry, Entry, CallState, Pc, Known, Refusal, GasReference
<1>2. FlightInv /\ ReservationInv
  BY DEF Init, FlightInv, ReservationInv, NoEntry
<1>3. \A r \in Request : EntryInv(r)
  BY DEF Init, EntryInv, NoEntry, Known
<1>4. \A c \in Call : CallInv(c, call[c])
  BY DEF Init, CallInv, Known, Refusal
<1> QED BY <1>1, <1>2, <1>3, <1>4 DEF SelfPayInv

\* Every step preserves the invariant.
LEMMA NextInv == SelfPayInv /\ [Next]_vars => SelfPayInv'
<1> SUFFICES ASSUME SelfPayInv, [Next]_vars PROVE SelfPayInv'
  OBVIOUS
<1>1. ASSUME NEW c \in Call, CallStep(c) PROVE SelfPayInv'
  BY <1>1, EarlySteps, SubmitPreserves, JoinedPreserves, ClaimPreserves, SendPreserves,
     QuerySteps, ReplacePreserves DEF CallStep
<1>2. CASE UNCHANGED vars
  <2>1. UNCHANGED <<journal, flights, call, version, sent, ledger>>
    BY <1>2 DEF vars
  <2>2. TypeOK' /\ FlightInv' /\ ReservationInv'
    BY <2>1 DEF SelfPayInv, TypeOK, FlightInv, ReservationInv, GasConflict
  <2>3. \A r \in Request : EntryInv(r)'
    BY <2>1 DEF SelfPayInv, EntryInv
  <2>4. \A c \in Call : CallInv(c, call[c])'
    BY <2>1 DEF SelfPayInv, CallInv
  <2> QED BY <2>2, <2>3, <2>4 DEF SelfPayInv
<1> QED BY <1>1, <1>2, LandPreserves, SpendPreserves, DiePreserves DEF Next

\* SelfPayInv is an invariant.
LEMMA SelfPayInvariant == Spec => []SelfPayInv
BY InitInv, NextInv, PTL DEF Spec

\* Over all managers, crashes and repeated submissions, what was broadcast for a
\* request is the one transaction its journal entry names.
THEOREM SentRecorded == Spec => []SentIsRecorded
<1>1. SelfPayInv => SentIsRecorded
  BY DEF SelfPayInv, TypeOK, CallInv, SentIsRecorded
<1> QED BY <1>1, SelfPayInvariant, PTL

\* Transactions whose fate is open never pay with the same Gas: both are pending
\* in the journal, and claim keeps pending entries apart.
THEOREM GasKeptApart == Spec => []NoGasEquivocation
<1>1. SelfPayInv => NoGasEquivocation
  <2> SUFFICES ASSUME SelfPayInv, NEW c \in sent, NEW d \in sent, c # d,
                      ledger[c] = "none", ledger[d] = "none"
               PROVE  ~GasConflict(c, d)
    BY DEF NoGasEquivocation
  <2>1. c \in Call /\ d \in Call /\ RequestOf[c] \in Request /\ RequestOf[d] \in Request
    BY CallAssumption DEF SelfPayInv, TypeOK
  <2>2. journal[RequestOf[c]].digest = c /\ journal[RequestOf[d]].digest = d
    BY <2>1 DEF SelfPayInv, CallInv
  <2>3. ASSUME NEW r \in Request, journal[r].digest \in Call,
               ledger[journal[r].digest] = "none"
        PROVE  journal[r].status = "pending"
    BY <2>3, CallAssumption DEF SelfPayInv, TypeOK, Entry, EntryInv, Known
  <2> QED BY <2>1, <2>2, <2>3 DEF SelfPayInv, ReservationInv
<1> QED BY <1>1, SelfPayInvariant, PTL

\* Outcomes that are answered or recorded are the chain's.
THEOREM OutcomesTrue == Spec => []KnownOutcomesTrue
<1>1. SelfPayInv => KnownOutcomesTrue
  BY DEF SelfPayInv, EntryInv, CallInv, KnownOutcomesTrue
<1> QED BY <1>1, SelfPayInvariant, PTL

\* An outcome reported as recorded is in the journal, whoever recorded it.
THEOREM SyncedRecorded == Spec => []SyncedMeansRecorded
<1>1. SelfPayInv => SyncedMeansRecorded
  BY DEF SelfPayInv, CallInv, SyncedMeansRecorded
<1> QED BY <1>1, SelfPayInvariant, PTL

\* A rejected submission has no effect on the chain.
THEOREM RejectedWithoutEffect == Spec => []RejectedHasNoEffect
<1>1. SelfPayInv => RejectedHasNoEffect
  <2> SUFFICES ASSUME SelfPayInv, NEW c \in sent,
                      Submission(call[c].answer) = "rejected"
               PROVE  ledger[c] = "failed"
    BY DEF RejectedHasNoEffect
  <2>1. CallInv(c, call[c]) /\ call[c] \in CallState
    BY DEF SelfPayInv, TypeOK
  <2>2. call[c].answer \in Refusal \cup {"failed"}
    BY <2>1 DEF Submission, CallState, Known, Refusal
  <2> QED BY <2>1, <2>2 DEF CallInv, Known, Refusal
<1> QED BY <1>1, SelfPayInvariant, PTL
=============================================================================
