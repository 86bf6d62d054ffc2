----------------------- MODULE IdentityCreation_proofs -----------------------
(***************************************************************************)
(* Proofs about IdentityCreation, for any number of windows, transactions  *)
(* and attempts.                                                           *)
(*                                                                         *)
(* The requests of a stage form one chain in the journal: the root first,  *)
(* and a successor of an attempt only when the attempt has failed and the  *)
(* journal says so.  Only the last attempt of a chain can have an effect.  *)
(***************************************************************************)
EXTENDS IdentityCreation, TLAPS

-----------------------------------------------------------------------------
(* The inductive invariant.                                                *)

Task == {"closed", "idle", "read", "prepare", "begin", "submit", "available", "quote",
         "claim", "receipt"}
WalkTask == {"read", "prepare", "begin", "submit"}
Entry == [digest : Digest \cup {None}, status : Status \cup {"pending"}]
Session ==
  [stage : Stage, shown : Entry, quote : Digest \cup {None},
   next : [Stage -> Request \cup {None}], task : Task, walking : BOOLEAN,
   at : Request, found : SUBSET Stage, visited : Nat,
   last : Outcome \cup {NoOutcome}, back : Request]

Shape ==
  /\ journal \in [Request -> Entry]
  /\ quoted \in [Digest -> Request]
  /\ window \in [Window -> Session]
  /\ sent \subseteq Digest
  /\ ledger \in [Digest -> {"none", "confirmed", "failed"}]
  /\ located \subseteq Stage

\* The attempt d of a stage failed on chain, and its entry says so.
Spent(stage, d) ==
  /\ d \in sent /\ quoted[d].stage = stage
  /\ ledger[d] = "failed" /\ journal[quoted[d]].status = "failed"

\* An entry is of a transaction that was quoted for its request and sent, and an
\* outcome in it is the chain's.
EntriesTrue ==
  \A q \in Request : Recorded(q) =>
    /\ journal[q].digest \in sent /\ quoted[journal[q].digest] = q
    /\ journal[q].status \in {"confirmed", "failed"} =>
         ledger[journal[q].digest] = journal[q].status
SentEntered == \A d \in sent : journal[quoted[d]].digest = d

\* A recorded retry is of a spent attempt of its stage; a stage with an attempt has a
\* root; and of two attempts of a stage one has a recorded successor.
RetriesOfSpent == \A q \in Request : Recorded(q) /\ q.after # None => Spent(q.stage, q.after)
Rooted == \A d \in sent : Recorded(Root(quoted[d].stage))
OneTail ==
  \A d, e \in sent : d # e /\ quoted[d].stage = quoted[e].stage =>
    Recorded(Retry(quoted[d].stage, d)) \/ Recorded(Retry(quoted[d].stage, e))

\* What a window knows: the walk is at the successor of what it answered last, and
\* was at a recorded request before; a successor that it began is of a spent
\* attempt; and so is a request it is about to claim.
OnChain(s) ==
  s.walking =>
    /\ s.task \in WalkTask /\ s.at.stage = s.stage
    /\ s.at.after # None =>
         /\ s.last.digest = s.at.after /\ Recorded(s.back)
         /\ s.last.status = "failed" /\ s.last.synced => Spent(s.stage, s.at.after)
Begun(s) ==
  \A stage \in Stage : s.next[stage] # None => Spent(s.next[stage].stage, s.next[stage].after)
Claims(s) ==
  /\ s.task = "submit" => s.quote # None
  /\ s.task = "claim" =>
       /\ s.quote # None /\ quoted[s.quote] = s.at
       /\ Recorded(s.at) \/ s.at.after = None \/ Spent(s.at.stage, s.at.after)
SessionOK(s) == OnChain(s) /\ Begun(s) /\ Claims(s)

JournalInv == EntriesTrue /\ SentEntered /\ RetriesOfSpent /\ Rooted /\ OneTail
CreationInv == Shape /\ JournalInv /\ \A w \in Window : SessionOK(window[w])

-----------------------------------------------------------------------------
(* Sessions.                                                               *)

\* What a call leaves of a session when it ends.
LEMMA RestFields ==
  ASSUME NEW s \in Session
  PROVE  /\ Rest(s) \in Session
         /\ Rest(s).task = "idle" /\ Rest(s).walking = FALSE
         /\ Rest(s).next = s.next /\ Rest(s).quote = s.quote /\ Rest(s).shown = s.shown
<1>1. Root("identity") \in Request
  BY DEF Root, Request, Stage
<1> QED
  BY <1>1 DEF Rest, Session, Task

\* A session that is not in a call holds nothing but what it began.
LEMMA RestOK ==
  ASSUME NEW s \in Session, Begun(s)', NEW t, t = Rest(s)
  PROVE  t \in Session /\ SessionOK(t)'
<1>1. t \in Session /\ t.task = "idle" /\ t.walking = FALSE /\ t.next = s.next
  BY RestFields
<1> QED
  BY <1>1 DEF SessionOK, OnChain, Begun, Claims

\* A new window knows nothing.
LEMMA NoWindowOK ==
  ASSUME NEW t, t = NoWindow
  PROVE  t \in Session /\ SessionOK(t) /\ SessionOK(t)'
<1>1. Root("identity") \in Request
  BY DEF Root, Request, Stage
<1>2. NoEntry \in Entry
  BY DEF NoEntry, Entry, Status
<1>3. t \in Session
  BY <1>1, <1>2 DEF NoWindow, Session, Task, Stage
<1>4. t.walking = FALSE /\ t.task = "closed" /\ \A stage \in Stage : t.next[stage] = None
  BY DEF NoWindow
<1> QED
  BY <1>3, <1>4 DEF SessionOK, OnChain, Begun, Claims

\* What a page shows is an entry.
LEMMA ShownType ==
  ASSUME NEW o \in Outcome \cup {NoOutcome}
  PROVE  Shown(o) \in Entry /\ Shown(o).digest = o.digest /\ Shown(o).status = o.status
<1>1. o.digest \in Digest \cup {None} /\ o.status \in Status
  BY DEF Outcome, NoOutcome, Status
<1> QED
  BY <1>1 DEF Shown, Entry

\* What a step leaves alone for good: entries, and attempts that failed.
Grows ==
  /\ \A q \in Request : Recorded(q) => Recorded(q)'
  /\ \A stage \in Stage, d \in Digest : Spent(stage, d) => Spent(stage, d)'

\* The fields of a request.
LEMMA RequestFields ==
  /\ \A q \in Request : /\ q.stage \in Stage /\ q.after \in Digest \cup {None}
                        /\ q = [stage |-> q.stage, after |-> q.after]
  /\ \A stage \in Stage : Root(stage) \in Request
  /\ \A stage \in Stage, d \in Digest : Retry(stage, d) \in Request
  BY DEF Request, Root, Retry

\* Knowledge of entries and of failed attempts stays true as the journal grows.
LEMMA SessionKept ==
  ASSUME NEW s \in Session, SessionOK(s), Grows, Shape,
         s.quote # None => quoted'[s.quote] = quoted[s.quote]
  PROVE  SessionOK(s)'
<1>0. /\ s.at \in Request /\ s.back \in Request /\ s.stage \in Stage
      /\ \A stage \in Stage : s.next[stage] \in Request \cup {None}
  BY DEF Session
<1>1. /\ s.at.stage \in Stage /\ s.at.after \in Digest \cup {None}
      /\ \A stage \in Stage : s.next[stage] # None =>
           s.next[stage].stage \in Stage /\ s.next[stage].after \in Digest \cup {None}
  BY <1>0, RequestFields
<1>2. \A stage : Spent(stage, None) => FALSE
  BY CreationAssumption DEF Spent, Shape
<1>3. OnChain(s)'
  BY <1>0, <1>1, CreationAssumption DEF SessionOK, OnChain, Grows
<1>4. Begun(s)'
  BY <1>1, <1>2 DEF SessionOK, Begun, Grows
<1>5. Claims(s)'
  BY <1>0, <1>1, CreationAssumption DEF SessionOK, Claims, Grows
<1> QED
  BY <1>3, <1>4, <1>5 DEF SessionOK

\* One window moves on and the others keep what they know.
LEMMA OneMoves ==
  ASSUME Shape, \A v \in Window : SessionOK(window[v]), Grows,
         NEW w \in Window, NEW t \in Session, Set(w, t), SessionOK(t)',
         \A v \in Window : window[v].quote # None =>
           quoted'[window[v].quote] = quoted[window[v].quote]
  PROVE  /\ window' \in [Window -> Session]
         /\ (\A v \in Window : SessionOK(window[v]))'
<1>1. window \in [Window -> Session] /\ window' = [window EXCEPT ![w] = t]
  BY DEF Shape, Set
<1>2. window' \in [Window -> Session]
  BY <1>1
<1>3. ASSUME NEW v \in Window  PROVE (SessionOK(window[v]))'
  <2>1. PICK s : s = window'[v]
    OBVIOUS
  <2>2. CASE v = w
    <3>1. s = t
      BY <1>1, <2>1, <2>2
    <3> QED
      BY <3>1, <2>1
  <2>3. CASE v # w
    <3>1. s = window[v] /\ s \in Session
      BY <1>1, <2>1, <2>3
    <3>2. SessionOK(s)'
      BY <3>1, SessionKept
    <3> QED
      BY <3>2, <2>1
  <2> QED
    BY <2>2, <2>3
<1> QED
  BY <1>2, <1>3

-----------------------------------------------------------------------------
(* The journal and the chain.                                              *)

books == <<journal, quoted, sent, ledger>>

\* A step that touches none of them keeps what is true of them.
LEMMA Quiet ==
  ASSUME JournalInv, UNCHANGED books
  PROVE  JournalInv' /\ Grows
<1> QED
  BY DEF books, JournalInv, EntriesTrue, SentEntered, RetriesOfSpent, Rooted, OneTail,
         Recorded, Spent, Grows

\* An answer about a recorded request writes the chain's outcome or nothing.
LEMMA AnswerKeeps ==
  ASSUME Shape, JournalInv, NEW q \in Request, Recorded(q), NEW o \in Outcome,
         Answer(q, o), UNCHANGED <<quoted, sent, ledger>>
  PROVE  /\ journal' \in [Request -> Entry] /\ JournalInv' /\ Grows
         /\ o.digest = journal[q].digest /\ o.digest \in sent /\ quoted[o.digest] = q
         /\ o.status # "unknown" => o.status = ledger[o.digest]
         /\ o.status = "failed" /\ o.synced => Spent(q.stage, o.digest)'
<1> DEFINE d == journal[q].digest
<1>1. o.digest = d /\ d \in sent /\ quoted[d] = q
  BY DEF Answer, JournalInv, EntriesTrue
<1>2. o.status # "unknown" => o.status = ledger[d]
  BY DEF Answer
<1>3. /\ o.status \in Status \cup {"pending"} /\ o.synced \in BOOLEAN
      /\ o.synced => o.status # "unknown"
  <2>1. ledger[d] # "unknown"
    BY <1>1 DEF Shape
  <2> QED
    BY <2>1 DEF Answer, Outcome
<1>4. journal' = IF o.synced THEN [journal EXCEPT ![q].status = o.status] ELSE journal
  BY DEF Answer
<1>5. journal' \in [Request -> Entry]
  BY <1>3, <1>4 DEF Shape, Entry
<1>6. \A r \in Request : journal'[r].digest = journal[r].digest
  BY <1>4 DEF Shape, Entry
<1>7. \A r \in Request : r # q => journal'[r].status = journal[r].status
  BY <1>4 DEF Shape, Entry
<1>8. journal'[q].status = IF o.synced THEN o.status ELSE journal[q].status
  BY <1>4 DEF Shape, Entry
<1>9. \A r \in Request : Recorded(r)' <=> Recorded(r)
  BY <1>6 DEF Recorded
<1>10. EntriesTrue'
  BY <1>1, <1>2, <1>3, <1>6, <1>7, <1>8, <1>9 DEF JournalInv, EntriesTrue
<1>11. SentEntered'
  BY <1>6 DEF JournalInv, SentEntered, Shape
<1>12. ASSUME NEW stage, NEW e, Spent(stage, e)  PROVE Spent(stage, e)'
  <2>1. /\ e \in sent /\ quoted[e] \in Request /\ journal[quoted[e]].digest = e
        /\ ledger[e] = "failed" /\ journal[quoted[e]].status = "failed"
    BY <1>12 DEF Spent, Shape, JournalInv, SentEntered
  <2>2. journal'[quoted[e]].status = "failed"
    <3>1. CASE quoted[e] = q
      <4>1. e = d
        BY <2>1, <3>1
      <4> QED
        BY <4>1, <2>1, <3>1, <1>2, <1>3, <1>8
    <3>2. CASE quoted[e] # q
      BY <2>1, <3>2, <1>7
    <3> QED
      BY <3>1, <3>2
  <2> QED
    BY <1>12, <2>2 DEF Spent
<1>13. Grows
  BY <1>9, <1>12 DEF Grows
<1>14. RetriesOfSpent'
  BY <1>9, <1>12 DEF JournalInv, RetriesOfSpent
<1>15. Rooted'
  <2>1. \A e \in sent : Root(quoted[e].stage) \in Request
    BY RequestFields DEF Shape
  <2> QED
    BY <1>9, <2>1 DEF JournalInv, Rooted
<1>16. OneTail'
  <2>1. \A e, f \in sent : /\ Retry(quoted[e].stage, e) \in Request
                           /\ Retry(quoted[e].stage, f) \in Request
    BY RequestFields DEF Shape
  <2> QED
    BY <1>9, <2>1 DEF JournalInv, OneTail
<1>17. o.status = "failed" /\ o.synced => Spent(q.stage, o.digest)'
  BY <1>1, <1>2, <1>8 DEF Spent
<1> QED
  BY <1>1, <1>2, <1>5, <1>10, <1>11, <1>13, <1>14, <1>15, <1>16, <1>17 DEF JournalInv

\* A quote for a transaction that is new touches no attempt.
LEMMA QuoteKeeps ==
  ASSUME Shape, JournalInv, NEW d \in Digest, d \notin sent, NEW q \in Request,
         quoted' = [quoted EXCEPT ![d] = q], UNCHANGED <<journal, sent, ledger>>
  PROVE  quoted' \in [Digest -> Request] /\ JournalInv' /\ Grows
<1>1. \A e \in sent : quoted'[e] = quoted[e]
  BY DEF Shape
<1>2. \A r \in Request : Recorded(r)' <=> Recorded(r)
  BY DEF Recorded
<1>3. \A stage, e : Spent(stage, e)' <=> Spent(stage, e)
  BY <1>1 DEF Spent
<1>4. EntriesTrue'
  BY <1>1, <1>2 DEF JournalInv, EntriesTrue
<1>5. SentEntered' /\ Rooted' /\ OneTail'
  BY <1>1 DEF JournalInv, SentEntered, Rooted, OneTail, Recorded
<1>6. RetriesOfSpent'
  BY <1>2, <1>3 DEF JournalInv, RetriesOfSpent
<1>7. quoted' \in [Digest -> Request]
  BY DEF Shape
<1> QED
  BY <1>2, <1>3, <1>4, <1>5, <1>6, <1>7 DEF JournalInv, Grows

\* The chain decides once about a transaction.
LEMMA LandKeeps ==
  ASSUME Shape, JournalInv, NEW d \in Digest, ledger[d] = "none",
         NEW out \in {"confirmed", "failed"},
         ledger' = [ledger EXCEPT ![d] = out], UNCHANGED <<journal, quoted, sent>>
  PROVE  ledger' \in [Digest -> {"none", "confirmed", "failed"}] /\ JournalInv' /\ Grows
<1>1. \A e \in Digest : e # d => ledger'[e] = ledger[e]
  BY DEF Shape
<1>2. \A r : Recorded(r)' <=> Recorded(r)
  BY DEF Recorded
<1>3. \A stage, e : Spent(stage, e) => Spent(stage, e)'
  BY <1>1 DEF Spent, Shape
<1>4. EntriesTrue'
  <2> SUFFICES ASSUME NEW q \in Request, Recorded(q),
                      journal[q].status \in {"confirmed", "failed"}
               PROVE  ledger'[journal[q].digest] = journal[q].status
    BY <1>2 DEF JournalInv, EntriesTrue
  <2>1. ledger[journal[q].digest] = journal[q].status /\ journal[q].digest \in Digest
    BY DEF JournalInv, EntriesTrue, Shape
  <2> QED
    BY <1>1, <2>1
<1>5. SentEntered' /\ Rooted' /\ OneTail'
  BY DEF JournalInv, SentEntered, Rooted, OneTail, Recorded
<1>6. RetriesOfSpent'
  BY <1>2, <1>3 DEF JournalInv, RetriesOfSpent
<1>7. ledger' \in [Digest -> {"none", "confirmed", "failed"}]
  BY DEF Shape
<1> QED
  BY <1>2, <1>3, <1>4, <1>5, <1>6, <1>7 DEF JournalInv, Grows

\* The claim of a root that is not recorded, or of the successor of a spent attempt,
\* continues the chain of its stage at its end.
LEMMA ClaimKeeps ==
  ASSUME Shape, JournalInv, NEW q \in Request, ~Recorded(q), NEW d \in Digest, quoted[d] = q,
         q.after = None \/ Spent(q.stage, q.after),
         journal' = [journal EXCEPT ![q] = [digest |-> d, status |-> "pending"]],
         sent' = sent \cup {d}, UNCHANGED <<quoted, ledger>>
  PROVE  /\ journal' \in [Request -> Entry] /\ sent' \subseteq Digest
         /\ JournalInv' /\ Grows
<1>1. journal' \in [Request -> Entry] /\ sent' \subseteq Digest
  BY DEF Shape, Entry
<1>2. \A r \in Request : r # q => journal'[r] = journal[r]
  BY DEF Shape
<1>3. journal'[q].digest = d /\ journal'[q].status = "pending"
  BY DEF Shape
<1>4. /\ Recorded(q)'
      /\ \A r \in Request : r # q => (Recorded(r)' <=> Recorded(r))
  BY <1>2, <1>3, CreationAssumption DEF Recorded
<1>5. d \notin sent
  BY CreationAssumption DEF JournalInv, SentEntered, Recorded
<1>6. EntriesTrue'
  BY <1>2, <1>3, <1>4 DEF JournalInv, EntriesTrue
<1>7. \A e \in sent : quoted[e] \in Request /\ quoted[e] # q
  BY CreationAssumption DEF JournalInv, SentEntered, Recorded, Shape
<1>8. SentEntered'
  BY <1>2, <1>3, <1>7 DEF JournalInv, SentEntered
<1>9. ASSUME NEW stage, NEW e, Spent(stage, e)  PROVE Spent(stage, e)'
  BY <1>9, <1>2, <1>7 DEF Spent
<1>10. Grows
  BY <1>4, <1>9 DEF Grows
<1>11. RetriesOfSpent'
  BY <1>4, <1>9 DEF JournalInv, RetriesOfSpent
<1>12. /\ q.stage \in Stage /\ q.after \in Digest \cup {None}
       /\ q = [stage |-> q.stage, after |-> q.after]
  BY RequestFields
<1>13. Rooted'
  <2>1. \A e \in sent : Recorded(Root(quoted[e].stage))'
    <3>1. \A e \in sent : Root(quoted[e].stage) \in Request /\ Recorded(Root(quoted[e].stage))
      BY RequestFields DEF JournalInv, Rooted, Shape
    <3> QED
      BY <3>1, <1>4
  <2>2. Recorded(Root(quoted[d].stage))'
    <3>1. CASE q.after = None
      <4>1. Root(quoted[d].stage) = q
        BY <1>12, <3>1 DEF Root
      <4> QED
        BY <4>1, <1>4
    <3>2. CASE Spent(q.stage, q.after)
      <4>1. q.after \in sent /\ quoted[q.after].stage = q.stage
        BY <3>2 DEF Spent
      <4> QED
        BY <4>1, <2>1
    <3> QED
      BY <3>1, <3>2
  <2> QED
    BY <2>1, <2>2 DEF Rooted
<1>14. \A e \in sent : quoted[e].stage = q.stage => Recorded(Retry(q.stage, e))'
  <2> SUFFICES ASSUME NEW e \in sent, quoted[e].stage = q.stage
               PROVE  Recorded(Retry(q.stage, e))'
    OBVIOUS
  <2>0. e \in Digest /\ Retry(q.stage, e) \in Request
    BY <1>12, RequestFields DEF Shape
  <2>1. Spent(q.stage, q.after)
    <3>1. Recorded(Root(q.stage))
      BY DEF JournalInv, Rooted
    <3>2. q.after # None
      BY <3>1, <1>12 DEF Root
    <3> QED
      BY <3>2
  <2>2. q.after \in sent /\ quoted[q.after].stage = q.stage /\ q = Retry(q.stage, q.after)
    BY <2>1, <1>12 DEF Spent, Retry
  <2>3. CASE e = q.after
    BY <2>2, <2>3, <1>4
  <2>4. CASE e # q.after
    <3>1. Recorded(Retry(q.stage, e)) \/ Recorded(Retry(q.stage, q.after))
      BY <2>2, <2>4 DEF JournalInv, OneTail
    <3>2. Recorded(Retry(q.stage, e))
      BY <3>1, <2>2
    <3> QED
      BY <3>2, <2>0, <1>4
  <2> QED
    BY <2>3, <2>4
<1>15. OneTail'
  <2> SUFFICES ASSUME NEW e \in sent', NEW f \in sent', e # f,
                      quoted'[e].stage = quoted'[f].stage
               PROVE  Recorded(Retry(quoted[e].stage, e))' \/ Recorded(Retry(quoted[e].stage, f))'
    BY DEF OneTail
  <2>1. CASE e = d
    BY <2>1, <1>14
  <2>2. CASE f = d
    BY <2>2, <1>14
  <2>3. CASE e \in sent /\ f \in sent
    <3>1. /\ Retry(quoted[e].stage, e) \in Request /\ Retry(quoted[e].stage, f) \in Request
          /\ Recorded(Retry(quoted[e].stage, e)) \/ Recorded(Retry(quoted[e].stage, f))
      BY <2>3, RequestFields DEF JournalInv, OneTail, Shape
    <3> QED
      BY <3>1, <1>4
  <2> QED
    BY <2>1, <2>2, <2>3
<1> QED
  BY <1>1, <1>6, <1>8, <1>10, <1>11, <1>13, <1>15 DEF JournalInv

-----------------------------------------------------------------------------
(* The steps of a window.                                                  *)

\* A step after which a window is in a session that is sound keeps the invariant.
LEMMA Moved ==
  ASSUME CreationInv, JournalInv', Grows, UNCHANGED <<quoted, chain>>,
         journal' \in [Request -> Entry],
         NEW w \in Window, NEW t \in Session, Set(w, t), SessionOK(t)'
  PROVE  CreationInv'
<1>1. Shape /\ \A v \in Window : SessionOK(window[v])
  BY DEF CreationInv
<1>2. quoted' = quoted /\ sent' = sent /\ ledger' = ledger /\ located' = located
  BY DEF chain
<1>3. window' \in [Window -> Session] /\ (\A v \in Window : SessionOK(window[v]))'
  BY <1>1, <1>2, OneMoves
<1>4. Shape'
  BY <1>1, <1>2, <1>3 DEF Shape
<1> QED
  BY <1>3, <1>4 DEF CreationInv

\* The same for a step that touches neither the journal nor the chain.
LEMMA MovedQuietly ==
  ASSUME CreationInv, UNCHANGED <<journal, quoted, chain>>,
         NEW w \in Window, NEW t \in Session, Set(w, t), SessionOK(t) \/ SessionOK(t)'
  PROVE  CreationInv'
<1>1. UNCHANGED books
  BY DEF books, chain
<1>2. JournalInv' /\ Grows
  BY <1>1, Quiet DEF CreationInv
<1>3. SessionOK(t)'
  BY <1>1 DEF books, SessionOK, OnChain, Begun, Claims, Recorded, Spent
<1>4. journal' \in [Request -> Entry]
  BY DEF CreationInv, Shape
<1> QED
  BY <1>2, <1>3, <1>4, Moved

\* A walk starts at the root of the stage.
LEMMA WalkOK ==
  ASSUME CreationInv, NEW s \in Session, Begun(s), NEW then \in WalkTask,
         then = "submit" => s.quote # None,
         NEW w \in Window, Walk(w, s, then), UNCHANGED <<journal, quoted, chain>>
  PROVE  CreationInv'
<1> DEFINE t == [s EXCEPT !.task = then, !.walking = TRUE, !.at = Root(s.stage),
                          !.back = Root(s.stage), !.visited = 0, !.last = NoOutcome,
                          !.found = located]
<1>1. Root(s.stage) \in Request /\ located \in SUBSET Stage
  BY RequestFields DEF Session, CreationInv, Shape
<1>2. PICK u : u = t
  OBVIOUS
<1>3. u \in Session
  BY <1>1, <1>2 DEF Session, Task, WalkTask
<1>4. /\ u.walking = TRUE /\ u.task = then /\ u.at = Root(s.stage) /\ u.stage = s.stage
      /\ u.next = s.next /\ u.quote = s.quote
  BY <1>2 DEF Session
<1>5. SessionOK(u)
  BY <1>4 DEF SessionOK, OnChain, Begun, Claims, Root, WalkTask
<1>6. Set(w, u)
  BY <1>2 DEF Walk
<1> QED
  BY <1>3, <1>5, <1>6, MovedQuietly

\* A call that throws leaves a session at rest.
LEMMA ThrowOK ==
  ASSUME CreationInv, JournalInv', Grows, journal' \in [Request -> Entry],
         UNCHANGED <<quoted, chain>>, NEW w \in Window, Throw(w)
  PROVE  CreationInv'
<1>1. PICK s : s = window[w]
  OBVIOUS
<1>2. s \in Session /\ SessionOK(s)
  BY <1>1 DEF CreationInv, Shape
<1>3. Begun(s)'
  BY <1>2, SessionKept DEF SessionOK, CreationInv
<1>4. PICK t : t = Rest(s)
  OBVIOUS
<1>5. t \in Session /\ SessionOK(t)'
  BY <1>2, <1>3, <1>4, RestOK
<1>6. Set(w, t)
  BY <1>1, <1>4 DEF Throw
<1> QED
  BY <1>5, <1>6, Moved

\* The end of a walk: a successor is begun only of a spent attempt, and a request is
\* about to be claimed only if it is recorded, a root, or the successor of one.
LEMMA EndedOK ==
  ASSUME NEW w \in Window, NEW s \in Session, s = window[w], s.walking, SessionOK(s),
         Begun(s)', quoted' = quoted,
         NEW q \in Request, NEW o \in Outcome \cup {NoOutcome}, NEW t, t = Ended(w, q, o),
         MayBegin(s.shown, o) => o.digest \in Digest /\ Spent(s.stage, o.digest)',
         s.task = "submit" =>
           Recorded(q)' \/ q.after = None \/ Spent(q.stage, q.after)'
  PROVE  t \in Session /\ SessionOK(t)'
<1>1. s.task \in WalkTask
  BY DEF SessionOK, OnChain
<1>2. Shown(o) \in Entry /\ NoEntry \in Entry
  BY ShownType DEF NoEntry, Entry, Status
<1>3. CASE s.task = "read"
  <2>1. PICK u : u = [s EXCEPT !.shown = Shown(o), !.quote = None]
    OBVIOUS
  <2>2. u \in Session /\ u.next = s.next
    BY <2>1, <1>2 DEF Session
  <2>3. t = Rest(u)
    BY <1>3, <2>1 DEF Ended
  <2> QED
    BY <2>2, <2>3, RestOK DEF Begun
<1>4. CASE s.task = "prepare" /\ o # NoOutcome
  <2>1. PICK u : u = [s EXCEPT !.shown = Shown(o)]
    OBVIOUS
  <2>2. u \in Session /\ u.next = s.next
    BY <2>1, <1>2 DEF Session
  <2>3. t = Rest(u)
    BY <1>4, <2>1 DEF Ended
  <2> QED
    BY <2>2, <2>3, RestOK DEF Begun
<1>5. CASE s.task = "prepare" /\ o = NoOutcome
  <2>1. t = [s EXCEPT !.task = "available", !.walking = FALSE, !.at = q]
    BY <1>5 DEF Ended
  <2>2. t \in Session /\ t.next = s.next /\ t.walking = FALSE /\ t.task = "available"
    BY <2>1 DEF Session, Task
  <2> QED
    BY <2>2 DEF SessionOK, OnChain, Begun, Claims
<1>6. CASE s.task = "begin" /\ MayBegin(s.shown, o)
  <2>1. PICK r : r = Retry(s.stage, o.digest)
    OBVIOUS
  <2>2. r \in Request /\ r.stage = s.stage /\ r.after = o.digest
    BY <2>1, <1>6, RequestFields DEF Session, Retry
  <2>3. PICK u : u = [s EXCEPT !.shown = NoEntry, !.quote = None, !.next[s.stage] = r]
    OBVIOUS
  <2>4. u \in Session
    BY <2>2, <2>3, <1>2 DEF Session
  <2>5. u.next = [s.next EXCEPT ![s.stage] = r]
    BY <2>3 DEF Session
  <2>6. Begun(u)'
    <3>1. s.next \in [Stage -> Request \cup {None}] /\ s.stage \in Stage
      BY DEF Session
    <3>2. \A stage \in Stage : u.next[stage] = IF stage = s.stage THEN r ELSE s.next[stage]
      BY <2>5, <3>1
    <3>3. Spent(r.stage, r.after)'
      BY <2>2, <1>6
    <3> QED
      BY <3>2, <3>3 DEF Begun
  <2>7. t = Rest(u)
    BY <1>6, <2>1, <2>3 DEF Ended
  <2> QED
    BY <2>4, <2>6, <2>7, RestOK
<1>7. CASE s.task = "begin" /\ ~MayBegin(s.shown, o)
  <2>1. t = Rest(s)
    BY <1>7 DEF Ended
  <2> QED
    BY <2>1, RestOK
<1>8. CASE s.task = "submit" /\ quoted[s.quote] = q
           /\ (s.stage = "organization" => "identity" \in s.found)
  <2>1. t = [s EXCEPT !.task = "claim", !.walking = FALSE, !.at = q]
    BY <1>8 DEF Ended
  <2>2. /\ t \in Session /\ t.next = s.next /\ t.walking = FALSE /\ t.task = "claim"
        /\ t.at = q /\ t.quote = s.quote
    BY <2>1 DEF Session, Task
  <2>3. s.quote # None
    BY <1>8 DEF SessionOK, Claims
  <2> QED
    BY <2>2, <2>3, <1>8 DEF SessionOK, OnChain, Begun, Claims
<1>9. CASE s.task = "submit" /\ ~(quoted[s.quote] = q
           /\ (s.stage = "organization" => "identity" \in s.found))
  <2>1. PICK u : u = [s EXCEPT !.quote = None]
    OBVIOUS
  <2>2. u \in Session /\ u.next = s.next
    BY <2>1 DEF Session
  <2>3. t = Rest(u)
    BY <1>9, <2>1 DEF Ended
  <2> QED
    BY <2>2, <2>3, RestOK DEF Begun
<1> QED
  BY <1>1, <1>3, <1>4, <1>5, <1>6, <1>7, <1>8, <1>9 DEF WalkTask

-----------------------------------------------------------------------------
(* Every action keeps the invariant.                                       *)

\* The session of a window, and the chain of a window's walk.
LEMMA SessionOf ==
  ASSUME CreationInv, NEW w \in Window
  PROVE  window[w] \in Session /\ SessionOK(window[w])
  BY DEF CreationInv, Shape

\* A session is read.
LEMMA ReadInv ==
  ASSUME CreationInv, NEW w \in Window, Read(w)
  PROVE  CreationInv'
<1> DEFINE s == [window[w] EXCEPT !.stage =
                   IF "identity" \in located THEN "organization" ELSE "identity"]
<1>1. PICK u : u = s
  OBVIOUS
<1>2. u \in Session /\ u.next = window[w].next
  BY <1>1, SessionOf DEF Session, Stage
<1>3. Begun(u)
  BY <1>2, SessionOf DEF SessionOK, Begun
<1>4. Walk(w, u, "read") /\ UNCHANGED <<journal, quoted, chain>>
  BY <1>1 DEF Read
<1> QED
  BY <1>2, <1>3, <1>4, WalkOK DEF WalkTask

\* A quote is asked for.
LEMMA PrepareInv ==
  ASSUME CreationInv, NEW w \in Window, Prepare(w)
  PROVE  CreationInv'
<1>1. PICK u : u = [window[w] EXCEPT !.quote = None, !.shown = NoEntry]
  OBVIOUS
<1>2. NoEntry \in Entry
  BY DEF NoEntry, Entry, Status
<1>3. u \in Session /\ u.next = window[w].next
  BY <1>1, <1>2, SessionOf DEF Session
<1>4. Begun(u)
  BY <1>3, SessionOf DEF SessionOK, Begun
<1>5. Walk(w, u, "prepare") /\ UNCHANGED <<journal, quoted, chain>>
  BY <1>1 DEF Prepare
<1> QED
  BY <1>3, <1>4, <1>5, WalkOK DEF WalkTask

\* A new attempt is asked for.
LEMMA BeginInv ==
  ASSUME CreationInv, NEW w \in Window, BeginNewAttempt(w)
  PROVE  CreationInv'
<1>1. PICK u : u = window[w]
  OBVIOUS
<1>2. u \in Session /\ Begun(u)
  BY <1>1, SessionOf DEF SessionOK
<1>3. Walk(w, u, "begin") /\ UNCHANGED <<journal, quoted, chain>>
  BY <1>1 DEF BeginNewAttempt
<1> QED
  BY <1>2, <1>3, WalkOK DEF WalkTask

\* A quote is submitted.
LEMMA SubmitInv ==
  ASSUME CreationInv, NEW w \in Window, Submit(w)
  PROVE  CreationInv'
<1>1. PICK u : u = window[w]
  OBVIOUS
<1>2. u \in Session /\ Begun(u) /\ u.quote # None
  BY <1>1, SessionOf DEF SessionOK, Submit
<1>3. Walk(w, u, "submit") /\ UNCHANGED <<journal, quoted, chain>>
  BY <1>1 DEF Submit
<1> QED
  BY <1>2, <1>3, WalkOK DEF WalkTask

\* A recorded request is asked about: the walk ends there or follows a failure.
LEMMA QueryInv ==
  ASSUME CreationInv, NEW w \in Window, NEW o \in Outcome, Query(w, o)
  PROVE  CreationInv'
<1>1. PICK s : s = window[w]
  OBVIOUS
<1>2. s \in Session /\ SessionOK(s) /\ s.walking
  BY <1>1, SessionOf DEF Query, Walking
<1>3. PICK q : q = s.at
  OBVIOUS
<1>4. q \in Request /\ q.stage = s.stage /\ Recorded(q) /\ Answer(q, o)
  BY <1>1, <1>2, <1>3 DEF Query, Session, SessionOK, OnChain
<1>5. UNCHANGED <<quoted, chain>> /\ UNCHANGED <<quoted, sent, ledger>>
  BY DEF Query, chain
<1>6. /\ journal' \in [Request -> Entry] /\ JournalInv' /\ Grows
      /\ o.digest = journal[q].digest
      /\ o.status = "failed" /\ o.synced => Spent(q.stage, o.digest)'
  BY <1>4, <1>5, AnswerKeeps DEF CreationInv
<1>7. SessionOK(s)'
  BY <1>2, <1>5, <1>6, SessionKept DEF CreationInv
<1>8. Recorded(q)'
  BY <1>4, <1>6 DEF Grows
<1>9. CASE ~Historical(q, o)
  <2>1. PICK t : t = Ended(w, q, o)
    OBVIOUS
  <2>2. Set(w, t)
    BY <1>1, <1>3, <1>9, <2>1 DEF Query
  <2>3. ~MayBegin(s.shown, o)
    BY <1>9 DEF MayBegin, Historical
  <2>4. t \in Session /\ SessionOK(t)'
    BY <1>1, <1>2, <1>4, <1>5, <1>7, <1>8, <2>1, <2>3, EndedOK DEF SessionOK
  <2> QED
    BY <1>5, <1>6, <2>2, <2>4, Moved
<1>10. CASE Historical(q, o) /\ s.visited >= MaxVisited
  <2>1. Throw(w)
    BY <1>1, <1>3, <1>10 DEF Query
  <2> QED
    BY <1>5, <1>6, <2>1, ThrowOK
<1>11. CASE Historical(q, o) /\ ~(s.visited >= MaxVisited)
  <2>1. PICK n : n = s.visited + 1
    OBVIOUS
  <2>2. n \in Nat
    BY <1>2, <2>1 DEF Session
  <2>3. PICK r : r = Retry(q.stage, o.digest)
    OBVIOUS
  <2>4. /\ o.digest \in Digest /\ o \in Outcome \cup {NoOutcome}
        /\ r \in Request /\ r.stage = s.stage /\ r.after = o.digest
    BY <2>3, <1>4, RequestFields DEF Outcome, Retry
  <2>5. PICK t : t = [s EXCEPT !.at = r, !.back = q, !.last = o, !.visited = n]
    OBVIOUS
  <2>6. t \in Session
    BY <1>2, <1>4, <2>2, <2>4, <2>5 DEF Session
  <2>7. /\ t.at = r /\ t.back = q /\ t.last = o /\ t.walking = s.walking /\ t.task = s.task
        /\ t.stage = s.stage /\ t.next = s.next /\ t.quote = s.quote
    BY <1>2, <2>5 DEF Session
  <2>8. Set(w, t)
    BY <1>1, <1>3, <1>11, <2>1, <2>3, <2>5 DEF Query
  <2>9. OnChain(t)'
    BY <1>2, <1>4, <1>6, <1>8, <2>4, <2>7 DEF OnChain, SessionOK
  <2>10. Begun(t)'
    BY <1>7, <2>7 DEF SessionOK, Begun
  <2>11. Claims(t)'
    BY <1>2, <2>7 DEF SessionOK, OnChain, Claims, WalkTask
  <2> QED
    BY <1>5, <1>6, <2>6, <2>8, <2>9, <2>10, <2>11, Moved DEF SessionOK
<1> QED
  BY <1>9, <1>10, <1>11

\* There is no such request: the walk ends there or one attempt before.
LEMMA QueryNoneInv ==
  ASSUME CreationInv, NEW w \in Window, QueryNone(w)
  PROVE  CreationInv'
<1>1. PICK s : s = window[w]
  OBVIOUS
<1>2. s \in Session /\ SessionOK(s) /\ s.walking /\ ~Recorded(s.at)
  BY <1>1, SessionOf DEF QueryNone, Walking
<1>3. UNCHANGED <<journal, quoted, chain>> /\ UNCHANGED books
  BY DEF QueryNone, books, chain
<1>4. JournalInv' /\ Grows /\ quoted' = quoted /\ journal' \in [Request -> Entry]
  BY <1>3, Quiet DEF CreationInv, Shape
<1>5. SessionOK(s)'
  BY <1>2, <1>4, SessionKept DEF CreationInv
<1>6. /\ s.at \in Request /\ s.back \in Request /\ s.last \in Outcome \cup {NoOutcome}
      /\ s.stage \in Stage /\ NoOutcome \in Outcome \cup {NoOutcome}
  BY <1>2 DEF Session
<1>7. ~MayBegin(s.shown, NoOutcome)
  BY DEF MayBegin, NoOutcome
<1>8. CASE s.at.after = None
  <2>1. PICK t : t = Ended(w, s.at, NoOutcome)
    OBVIOUS
  <2>2. Set(w, t)
    BY <1>1, <1>8, <2>1 DEF QueryNone
  <2>3. t \in Session /\ SessionOK(t)'
    BY <1>1, <1>2, <1>4, <1>5, <1>6, <1>7, <1>8, <2>1, EndedOK DEF SessionOK
  <2> QED
    BY <1>3, <2>2, <2>3, MovedQuietly
<1>9. CASE s.at.after # None /\ s.last.status = "failed" /\ s.next[s.stage] = s.at
  <2>1. PICK t : t = Ended(w, s.at, NoOutcome)
    OBVIOUS
  <2>2. Set(w, t)
    BY <1>1, <1>9, <2>1 DEF QueryNone
  <2>3. Spent(s.at.stage, s.at.after)'
    BY <1>5, <1>6, <1>9, NoneAssumption DEF SessionOK, Begun
  <2>4. t \in Session /\ SessionOK(t)'
    BY <1>1, <1>2, <1>4, <1>5, <1>6, <1>7, <2>1, <2>3, EndedOK DEF SessionOK
  <2> QED
    BY <1>3, <2>2, <2>4, MovedQuietly
<1>10. CASE s.at.after # None /\ ~(s.last.status = "failed" /\ s.next[s.stage] = s.at)
  <2>1. PICK t : t = Ended(w, s.back, s.last)
    OBVIOUS
  <2>2. Set(w, t)
    BY <1>1, <1>10, <2>1 DEF QueryNone
  <2>3. Recorded(s.back)' /\ s.last.digest = s.at.after
    BY <1>2, <1>5, <1>10 DEF SessionOK, OnChain
  <2>4. MayBegin(s.shown, s.last) => s.last.digest \in Digest /\ Spent(s.stage, s.last.digest)'
    <3>1. s.at.after \in Digest
      BY <1>6, <1>10, RequestFields
    <3> QED
      BY <1>2, <1>5, <1>10, <2>3, <3>1 DEF SessionOK, OnChain, MayBegin
  <2>5. t \in Session /\ SessionOK(t)'
    BY <1>1, <1>2, <1>4, <1>5, <1>6, <2>1, <2>3, <2>4, EndedOK DEF SessionOK
  <2> QED
    BY <1>3, <2>2, <2>5, MovedQuietly
<1> QED
  BY <1>8, <1>9, <1>10

\* A call fails.
LEMMA FailsInv ==
  ASSUME CreationInv, NEW w \in Window, Fails(w)
  PROVE  CreationInv'
<1>1. UNCHANGED <<journal, quoted, chain>> /\ UNCHANGED books /\ Throw(w)
  BY DEF Fails, books, chain
<1>2. JournalInv' /\ Grows /\ journal' \in [Request -> Entry]
  BY <1>1, Quiet DEF CreationInv, Shape
<1> QED
  BY <1>1, <1>2, ThrowOK

\* The stage is checked to be open.
LEMMA AvailableInv ==
  ASSUME CreationInv, NEW w \in Window, Available(w)
  PROVE  CreationInv'
<1>1. UNCHANGED <<journal, quoted, chain>> /\ UNCHANGED books
  BY DEF Available, books, chain
<1>2. CASE Throw(w)
  <2>1. JournalInv' /\ Grows /\ journal' \in [Request -> Entry]
    BY <1>1, Quiet DEF CreationInv, Shape
  <2> QED
    BY <1>1, <1>2, <2>1, ThrowOK
<1>3. CASE Set(w, [window[w] EXCEPT !.task = "quote"])
  <2>1. PICK t : t = [window[w] EXCEPT !.task = "quote"]
    OBVIOUS
  <2>2. /\ t \in Session /\ t.next = window[w].next /\ t.task = "quote"
        /\ t.walking = window[w].walking
    BY <2>1, SessionOf DEF Session, Task
  <2>3. ~window[w].walking
    BY SessionOf DEF Available, SessionOK, OnChain, WalkTask
  <2>4. SessionOK(t)
    BY <2>2, <2>3, SessionOf DEF SessionOK, OnChain, Begun, Claims
  <2> QED
    BY <1>1, <1>3, <2>1, <2>2, <2>4, MovedQuietly
<1> QED
  BY <1>2, <1>3 DEF Available

\* A quote is made.
LEMMA QuoteInv ==
  ASSUME CreationInv, NEW w \in Window, NEW d \in Digest, Quote(w, d)
  PROVE  CreationInv'
<1>1. PICK s : s = window[w]
  OBVIOUS
<1>2. s \in Session /\ SessionOK(s) /\ s.at \in Request
  BY <1>1, SessionOf DEF Session
<1>3. /\ d \notin sent /\ quoted' = [quoted EXCEPT ![d] = s.at]
      /\ UNCHANGED <<journal, sent, ledger>> /\ located' = located
      /\ \A v \in Window : window[v].quote # d
  BY <1>1 DEF Quote, chain
<1>4. quoted' \in [Digest -> Request] /\ JournalInv' /\ Grows
  BY <1>2, <1>3, QuoteKeeps DEF CreationInv
<1>5. \A v \in Window : window[v].quote # None =>
        quoted'[window[v].quote] = quoted[window[v].quote]
  BY <1>3, SessionOf DEF Session, CreationInv, Shape
<1>6. Begun(s)'
  BY <1>1, <1>2, <1>4, <1>5, SessionKept DEF CreationInv, SessionOK
<1>7. PICK u : u = [s EXCEPT !.quote = d]
  OBVIOUS
<1>8. u \in Session /\ u.next = s.next
  BY <1>2, <1>7 DEF Session
<1>9. Begun(u)'
  BY <1>6, <1>8 DEF Begun
<1>10. PICK t : t = Rest(u)
  OBVIOUS
<1>11. t \in Session /\ SessionOK(t)'
  BY <1>8, <1>9, <1>10, RestOK
<1>12. Set(w, t)
  BY <1>1, <1>7, <1>10 DEF Quote
<1>13. window' \in [Window -> Session] /\ (\A v \in Window : SessionOK(window[v]))'
  BY <1>4, <1>5, <1>11, <1>12, OneMoves DEF CreationInv
<1> QED
  BY <1>3, <1>4, <1>13 DEF CreationInv, Shape

\* An answer is shown and the call ends.
LEMMA ShowsInv ==
  ASSUME CreationInv, NEW w \in Window, NEW o \in Outcome,
         Recorded(window[w].at), Answer(window[w].at, o),
         NEW u \in Session, u.next = window[w].next, Set(w, Rest(u)), UNCHANGED <<quoted, chain>>
  PROVE  CreationInv'
<1>1. PICK s : s = window[w]
  OBVIOUS
<1>2. s \in Session /\ SessionOK(s) /\ s.at \in Request /\ Recorded(s.at) /\ Answer(s.at, o)
  BY <1>1, SessionOf DEF Session
<1>3. UNCHANGED <<quoted, sent, ledger>>
  BY DEF chain
<1>4. journal' \in [Request -> Entry] /\ JournalInv' /\ Grows
  BY <1>2, <1>3, AnswerKeeps DEF CreationInv
<1>5. Begun(s)'
  BY <1>2, <1>3, <1>4, SessionKept DEF CreationInv, SessionOK
<1>6. Begun(u)'
  BY <1>1, <1>5 DEF Begun
<1>7. PICK t : t = Rest(u)
  OBVIOUS
<1>8. t \in Session /\ SessionOK(t)'
  BY <1>6, <1>7, RestOK
<1>9. Set(w, t)
  BY <1>7
<1> QED
  BY <1>4, <1>8, <1>9, Moved

\* A submission is answered.
LEMMA ReceiptInv ==
  ASSUME CreationInv, NEW w \in Window, NEW o \in Outcome, Receipt(w, o)
  PROVE  CreationInv'
<1>1. PICK u : u = [window[w] EXCEPT !.shown = Shown(o), !.quote = None]
  OBVIOUS
<1>2. u \in Session /\ u.next = window[w].next
  BY <1>1, SessionOf, ShownType DEF Session
<1>3. /\ Recorded(window[w].at) /\ Answer(window[w].at, o) /\ Set(w, Rest(u))
      /\ UNCHANGED <<quoted, chain>>
  BY <1>1 DEF Receipt
<1> QED
  BY <1>2, <1>3, ShowsInv

\* A request is claimed and its transaction broadcast.
LEMMA ClaimInv ==
  ASSUME CreationInv, NEW w \in Window, Claim(w)
  PROVE  CreationInv'
<1>1. PICK s : s = window[w]
  OBVIOUS
<1>2. s \in Session /\ SessionOK(s) /\ s.task = "claim" /\ ~Recorded(s.at)
  BY <1>1, SessionOf DEF Claim
<1>3. PICK d : d = s.quote
  OBVIOUS
<1>4. PICK q : q = s.at
  OBVIOUS
<1>5. /\ d \in Digest /\ q \in Request /\ quoted[d] = q
      /\ q.after = None \/ Spent(q.stage, q.after)
  BY <1>2, <1>3, <1>4 DEF Session, SessionOK, Claims
<1>6. /\ journal' = [journal EXCEPT ![q] = [digest |-> d, status |-> "pending"]]
      /\ sent' = sent \cup {d} /\ UNCHANGED <<quoted, ledger>> /\ located' = located
  BY <1>1, <1>3, <1>4 DEF Claim
<1>7. /\ journal' \in [Request -> Entry] /\ sent' \subseteq Digest
      /\ JournalInv' /\ Grows
  BY <1>2, <1>4, <1>5, <1>6, ClaimKeeps DEF CreationInv
<1>8. SessionOK(s)'
  BY <1>2, <1>6, <1>7, SessionKept DEF CreationInv
<1>9. PICK t : t = [s EXCEPT !.task = "receipt", !.quote = None]
  OBVIOUS
<1>10. t \in Session /\ t.task = "receipt" /\ t.next = s.next /\ t.walking = s.walking
  BY <1>2, <1>9 DEF Session, Task
<1>11. ~s.walking
  BY <1>2 DEF SessionOK, OnChain, WalkTask
<1>12. SessionOK(t)'
  BY <1>8, <1>10, <1>11 DEF SessionOK, OnChain, Begun, Claims
<1>13. Set(w, t)
  BY <1>1, <1>9 DEF Claim
<1>14. window' \in [Window -> Session] /\ (\A v \in Window : SessionOK(window[v]))'
  BY <1>6, <1>7, <1>10, <1>12, <1>13, OneMoves DEF CreationInv
<1> QED
  BY <1>6, <1>7, <1>14 DEF CreationInv, Shape

\* A window is closed.
LEMMA CloseInv ==
  ASSUME CreationInv, NEW w \in Window, Close(w)
  PROVE  CreationInv'
<1>1. PICK t : t = NoWindow
  OBVIOUS
<1>2. t \in Session /\ SessionOK(t)
  BY <1>1, NoWindowOK
<1>3. Set(w, t) /\ UNCHANGED <<journal, quoted, chain>>
  BY <1>1 DEF Close
<1> QED
  BY <1>2, <1>3, MovedQuietly

\* A step that leaves the windows alone leaves them right.
LEMMA WindowsKept ==
  ASSUME CreationInv, Grows, window' = window, quoted' = quoted
  PROVE  (\A v \in Window : SessionOK(window[v]))'
<1> SUFFICES ASSUME NEW v \in Window PROVE SessionOK(window[v])'
  OBVIOUS
<1>1. PICK s : s = window[v]
  OBVIOUS
<1>2. SessionOK(s)'
  BY <1>1, SessionOf, SessionKept DEF CreationInv
<1> QED
  BY <1>1, <1>2

\* A transaction lands.
LEMMA LandInv ==
  ASSUME CreationInv, NEW d \in Digest, Land(d)
  PROVE  CreationInv'
<1>1. /\ ledger[d] = "none" /\ UNCHANGED <<journal, quoted, sent>>
      /\ window' = window /\ located' = located
      /\ \E out \in {"confirmed", "failed"} : ledger' = [ledger EXCEPT ![d] = out]
  BY DEF Land
<1>2. ledger' \in [Digest -> {"none", "confirmed", "failed"}] /\ JournalInv' /\ Grows
  BY <1>1, LandKeeps DEF CreationInv
<1> QED
  BY <1>1, <1>2, WindowsKept DEF CreationInv, Shape

\* A stage is indexed, or a receipt pruned.
LEMMA AroundInv ==
  ASSUME CreationInv,
         (\E d \in Digest : Prune(d)) \/ (\E stage \in Stage : Index(stage)) \/ UNCHANGED vars
  PROVE  CreationInv'
<1>1. UNCHANGED books /\ window' = window /\ located' \subseteq Stage
  BY DEF Prune, Index, vars, books, CreationInv, Shape
<1>2. JournalInv' /\ Grows
  BY <1>1, Quiet DEF CreationInv
<1> QED
  BY <1>1, <1>2, WindowsKept DEF CreationInv, Shape, books

\* The invariant holds of every reachable state.
LEMMA Invariant ==
  Spec => []CreationInv
<1>1. Init => CreationInv
  <2> SUFFICES ASSUME Init PROVE CreationInv
    OBVIOUS
  <2>1. NoEntry \in Entry /\ NoEntry.digest = None
    BY DEF NoEntry, Entry, Status
  <2>2. \A q \in Request : ~Recorded(q)
    BY <2>1 DEF Init, Recorded
  <2>3. located \subseteq Stage
    BY CreationAssumption DEF Init, Stage
  <2>4. Root("identity") \in Request
    BY RequestFields DEF Stage
  <2>5. Shape
    BY <2>1, <2>3, <2>4, NoWindowOK DEF Init, Shape
  <2>6. JournalInv
    BY <2>2 DEF Init, JournalInv, EntriesTrue, SentEntered, RetriesOfSpent, Rooted, OneTail
  <2> QED
    BY <2>5, <2>6, NoWindowOK DEF Init, CreationInv
<1>2. CreationInv /\ [Next]_vars => CreationInv'
  BY ReadInv, PrepareInv, BeginInv, SubmitInv, QueryInv, QueryNoneInv, FailsInv, AvailableInv,
     QuoteInv, ReceiptInv, ClaimInv, CloseInv, LandInv, AroundInv
     DEF Next, WindowStep
<1> QED
  BY <1>1, <1>2, PTL DEF Spec

-----------------------------------------------------------------------------
(* The theorems.                                                           *)

\* One live attempt: of two transactions broadcast for a stage, by whichever windows
\* and after whatever restarts and pruned receipts, one has failed (attempt and
\* beginNewAttempt of onboarding.ts, and the claim of TransactionManager.submit).
THEOREM OneCanLand ==
  Spec => []OneLiveAttempt
<1>1. CreationInv => OneLiveAttempt
  <2> SUFFICES ASSUME CreationInv, NEW d \in sent, NEW e \in sent, d # e,
                      quoted[d].stage = quoted[e].stage
               PROVE  ledger[d] = "failed" \/ ledger[e] = "failed"
    BY DEF OneLiveAttempt
  <2>1. d \in Digest /\ e \in Digest /\ quoted[d].stage \in Stage
    BY RequestFields DEF CreationInv, Shape
  <2>2. PICK f \in {d, e} : Recorded(Retry(quoted[d].stage, f))
    BY DEF CreationInv, JournalInv, OneTail
  <2>3. Retry(quoted[d].stage, f) \in Request /\ Retry(quoted[d].stage, f).after = f /\ f # None
    BY <2>1, RequestFields, CreationAssumption DEF Retry
  <2>4. Spent(Retry(quoted[d].stage, f).stage, f)
    BY <2>2, <2>3 DEF CreationInv, JournalInv, RetriesOfSpent
  <2> QED
    BY <2>4 DEF Spent
<1> QED
  BY <1>1, Invariant, PTL

\* What the end of a walk shows: what it showed before, nothing, or the outcome.
LEMMA EndedShows ==
  ASSUME NEW w \in Window, window[w] \in Session, window[w].task \in WalkTask, NEW q \in Request,
         NEW o \in Outcome \cup {NoOutcome}
  PROVE  Ended(w, q, o).shown \in {window[w].shown, NoEntry, Shown(o)}
<1>1. PICK s : s = window[w]
  OBVIOUS
<1>2. s \in Session
  BY <1>1
<1>3. Shown(o) \in Entry /\ NoEntry \in Entry
  BY ShownType DEF NoEntry, Entry, Status
<1>4. \A u \in Session : Rest(u).shown = u.shown
  BY RestFields
<1>5. CASE s.task = "read"
  <2>1. PICK u : u = [s EXCEPT !.shown = Shown(o), !.quote = None]
    OBVIOUS
  <2>2. u \in Session /\ u.shown = Shown(o)
    BY <1>2, <1>3, <2>1 DEF Session
  <2> QED
    BY <1>1, <1>4, <1>5, <2>1, <2>2 DEF Ended
<1>6. CASE s.task = "prepare"
  <2>1. PICK u : u = [s EXCEPT !.shown = Shown(o)]
    OBVIOUS
  <2>2. u \in Session /\ u.shown = Shown(o)
    BY <1>2, <1>3, <2>1 DEF Session
  <2>3. [s EXCEPT !.task = "available", !.walking = FALSE, !.at = q].shown = s.shown
    BY <1>2 DEF Session
  <2> QED
    BY <1>1, <1>4, <1>6, <2>1, <2>2, <2>3 DEF Ended
<1>7. CASE s.task = "begin"
  <2>1. CASE MayBegin(s.shown, o)
    <3>1. PICK u : u = [s EXCEPT !.shown = NoEntry, !.quote = None,
                                 !.next[s.stage] = Retry(s.stage, o.digest)]
      OBVIOUS
    <3>2. o.digest \in Digest
      BY <2>1 DEF MayBegin, Outcome, NoOutcome
    <3>3. Retry(s.stage, o.digest) \in Request
      BY <1>2, <3>2, RequestFields DEF Session
    <3>4. u \in Session /\ u.shown = NoEntry
      BY <1>2, <1>3, <3>1, <3>3 DEF Session
    <3> QED
      BY <1>1, <1>4, <1>7, <2>1, <3>1, <3>4 DEF Ended
  <2>2. CASE ~MayBegin(s.shown, o)
    BY <1>1, <1>2, <1>4, <1>7, <2>2 DEF Ended
  <2> QED
    BY <2>1, <2>2
<1>8. CASE s.task = "submit"
  <2>1. PICK u : u = [s EXCEPT !.quote = None]
    OBVIOUS
  <2>2. u \in Session /\ u.shown = s.shown
    BY <1>2, <2>1 DEF Session
  <2>3. [s EXCEPT !.task = "claim", !.walking = FALSE, !.at = q].shown = s.shown
    BY <1>2 DEF Session
  <2> QED
    BY <1>1, <1>4, <1>8, <2>1, <2>2, <2>3 DEF Ended
<1> QED
  BY <1>1, <1>5, <1>6, <1>7, <1>8 DEF WalkTask

\* What a walk comes to show has no recorded successor.
Unhidden(w) ==
  Walking(w) /\ window'[w].shown \notin {window[w].shown, NoEntry}
    => ~Recorded(Retry(window[w].stage, window'[w].shown.digest))

\* A walk that ends at a recorded request: a recorded successor would need the
\* request to be spent, and then the answer, or the entry, says "failed".
LEMMA QueryShows ==
  ASSUME CreationInv, NEW w \in Window, NEW o \in Outcome, Query(w, o)
  PROVE  Unhidden(w)
<1>1. PICK s : s = window[w]
  OBVIOUS
<1>2. s \in Session /\ SessionOK(s) /\ s.walking
  BY <1>1, SessionOf DEF Query, Walking
<1>3. PICK q : q = s.at
  OBVIOUS
<1>4. /\ q \in Request /\ q.stage = s.stage /\ Recorded(q) /\ Answer(q, o)
      /\ s.task \in WalkTask /\ s.stage \in Stage
  BY <1>1, <1>2, <1>3 DEF Query, Session, SessionOK, OnChain
<1>5. /\ o.digest = journal[q].digest /\ o.digest \in sent /\ quoted[o.digest] = q
      /\ o.status # "unknown" => o.status = ledger[o.digest]
  <2>1. UNCHANGED <<quoted, sent, ledger>>
    BY DEF Query, chain
  <2> QED
    BY <1>4, <2>1, AnswerKeeps DEF CreationInv
<1>6. window \in [Window -> Session] /\ o.digest \in Digest /\ o \in Outcome \cup {NoOutcome}
  BY DEF CreationInv, Shape, Outcome
<1>7. CASE ~Historical(q, o)
  <2>1. window'[w].shown \in {window[w].shown, NoEntry, Shown(o)}
    <3>1. window'[w] = Ended(w, q, o)
      BY <1>1, <1>3, <1>6, <1>7 DEF Query, Set
    <3> QED
      BY <3>1, <1>1, <1>2, <1>4, <1>6, EndedShows
  <2>2. ~Recorded(Retry(s.stage, o.digest))
    <3> SUFFICES ASSUME Recorded(Retry(s.stage, o.digest)) PROVE FALSE
      OBVIOUS
    <3>1. /\ Retry(s.stage, o.digest) \in Request
          /\ Retry(s.stage, o.digest).stage = s.stage
          /\ Retry(s.stage, o.digest).after = o.digest /\ o.digest # None
      BY <1>4, <1>6, RequestFields, CreationAssumption DEF Retry
    <3>2. Spent(s.stage, o.digest)
      BY <3>1 DEF CreationInv, JournalInv, RetriesOfSpent
    <3> QED
      BY <3>2, <1>5, <1>7 DEF Spent, Historical
  <2>3. Shown(o).digest = o.digest
    BY <1>6, ShownType
  <2> QED
    BY <1>1, <2>1, <2>2, <2>3 DEF Unhidden
<1>8. CASE Historical(q, o) /\ s.visited >= MaxVisited
  <2>1. window'[w] = Rest(s)
    BY <1>1, <1>3, <1>6, <1>8 DEF Query, Throw, Set
  <2> QED
    BY <1>1, <1>2, <2>1, RestFields DEF Unhidden
<1>9. CASE Historical(q, o) /\ ~(s.visited >= MaxVisited)
  <2>1. PICK n : n = s.visited + 1
    OBVIOUS
  <2>2. window'[w] = [s EXCEPT !.at = Retry(q.stage, o.digest), !.back = q, !.last = o,
                               !.visited = n]
    BY <1>1, <1>3, <1>6, <1>9, <2>1 DEF Query, Set
  <2>3. window'[w].shown = s.shown
    BY <1>2, <2>2 DEF Session
  <2> QED
    BY <1>1, <2>3 DEF Unhidden
<1> QED
  BY <1>7, <1>8, <1>9

\* A walk that ends before a request that is not recorded shows the attempt before it.
LEMMA QueryNoneShows ==
  ASSUME CreationInv, NEW w \in Window, QueryNone(w)
  PROVE  Unhidden(w)
<1>1. PICK s : s = window[w]
  OBVIOUS
<1>2. /\ s \in Session /\ SessionOK(s) /\ s.walking /\ ~Recorded(s.at)
      /\ window \in [Window -> Session]
  BY <1>1, SessionOf DEF QueryNone, Walking, CreationInv, Shape
<1>3. /\ s.at \in Request /\ s.back \in Request /\ s.last \in Outcome \cup {NoOutcome}
      /\ NoOutcome \in Outcome \cup {NoOutcome} /\ s.task \in WalkTask /\ s.at.stage = s.stage
  BY <1>2 DEF Session, SessionOK, OnChain
<1>4. Shown(NoOutcome) = NoEntry
  BY DEF Shown, NoOutcome, NoEntry
<1>5. CASE window'[w] = Ended(w, s.at, NoOutcome)
  <2>1. window'[w].shown \in {window[w].shown, NoEntry}
    BY <1>1, <1>2, <1>3, <1>4, <1>5, EndedShows
  <2> QED
    BY <2>1 DEF Unhidden
<1>6. CASE s.at.after # None /\ window'[w] = Ended(w, s.back, s.last)
  <2>1. window'[w].shown \in {window[w].shown, NoEntry, Shown(s.last)}
    BY <1>1, <1>2, <1>3, <1>6, EndedShows
  <2>2. s.last.digest = s.at.after
    BY <1>2, <1>6 DEF SessionOK, OnChain
  <2>3. Retry(s.stage, s.last.digest) = s.at
    BY <1>3, <2>2, RequestFields DEF Retry
  <2>4. Shown(s.last).digest = s.last.digest
    BY <1>3, ShownType
  <2> QED
    BY <1>1, <1>2, <2>1, <2>3, <2>4 DEF Unhidden
<1> QED
  BY <1>1, <1>2, <1>5, <1>6 DEF QueryNone, Set

\* No other step of a window changes what a walk shows but to nothing.
LEMMA OtherShows ==
  ASSUME CreationInv, NEW w \in Window, NEW v \in Window,
         \/ Read(v) \/ Prepare(v) \/ BeginNewAttempt(v) \/ Submit(v) \/ Fails(v)
         \/ Available(v) \/ Claim(v) \/ Close(v)
         \/ \E o \in Outcome : Receipt(v, o)
         \/ \E d \in Digest : Quote(v, d)
  PROVE  Unhidden(w)
<1>1. window \in [Window -> Session] /\ window[v] \in Session /\ SessionOK(window[v])
  BY SessionOf DEF CreationInv, Shape
<1>2. Walking(v) => window[v].task \in WalkTask
  BY <1>1 DEF Walking, SessionOK, OnChain
<1>3. PICK t : /\ window' = [window EXCEPT ![v] = t]
               /\ Walking(v) => t \in {NoWindow, Rest(window[v])}
  <2>1. CASE Fails(v)
    BY <2>1 DEF Fails, Throw, Set
  <2>2. CASE Close(v)
    BY <2>2 DEF Close, Set
  <2>3. CASE ~Walking(v)
    <3>1. \E t : Set(v, t)
      BY DEF Read, Prepare, BeginNewAttempt, Submit, Walk, Fails, Throw, Available, Claim,
             Close, Receipt, Quote
    <3> QED
      BY <2>3, <3>1 DEF Set
  <2>4. CASE Walking(v) /\ ~Fails(v) /\ ~Close(v)
    BY <2>4, <1>2 DEF WalkTask, Read, Prepare, BeginNewAttempt, Submit, Idle, Available, Claim,
             Receipt, Quote
  <2> QED
    BY <2>1, <2>2, <2>3, <2>4
<1>4. CASE w # v
  BY <1>1, <1>3, <1>4 DEF Unhidden
<1>5. CASE w = v /\ Walking(v)
  <2>1. window'[w] = t /\ t \in {NoWindow, Rest(window[v])}
    BY <1>1, <1>3, <1>5
  <2>2. NoWindow.shown = NoEntry
    BY DEF NoWindow
  <2>3. Rest(window[v]).shown = window[v].shown
    BY <1>1, RestFields
  <2>4. window'[w].shown \in {window[w].shown, NoEntry}
    BY <1>5, <2>1, <2>2, <2>3
  <2> QED
    BY <2>4 DEF Unhidden
<1> QED
  BY <1>4, <1>5 DEF Unhidden

\* Successors are not hidden: no walk comes to show an attempt that has been retried,
\* whoever retried it and although its receipt may be gone (attempt of onboarding.ts).
THEOREM RetriesSeen ==
  Spec => SuccessorNotHidden
<1>1. CreationInv /\ [Next]_vars =>
        [\A w \in Window :
           Walking(w) /\ window'[w].shown \notin {window[w].shown, NoEntry}
             => ~Recorded(Retry(window[w].stage, window'[w].shown.digest))]_vars
  <2> SUFFICES ASSUME CreationInv, Next, NEW w \in Window  PROVE Unhidden(w)
    BY DEF Unhidden
  <2>1. CASE window' = window
    BY <2>1 DEF Unhidden
  <2>2. ASSUME NEW v \in Window, WindowStep(v)  PROVE Unhidden(w)
    <3>1. ASSUME NEW o \in Outcome, Query(v, o)  PROVE Unhidden(w)
      <4>1. CASE v = w
        BY <3>1, <4>1, QueryShows
      <4>2. CASE v # w
        <5>1. \E t : Set(v, t)
          BY <3>1 DEF Query, Throw
        <5> QED
          BY <4>2, <5>1 DEF Set, Unhidden, CreationInv, Shape
      <4> QED
        BY <4>1, <4>2
    <3>2. ASSUME QueryNone(v)  PROVE Unhidden(w)
      <4>1. CASE v = w
        BY <3>2, <4>1, QueryNoneShows
      <4>2. CASE v # w
        <5>1. \E t : Set(v, t)
          BY <3>2 DEF QueryNone
        <5> QED
          BY <4>2, <5>1 DEF Set, Unhidden, CreationInv, Shape
      <4> QED
        BY <4>1, <4>2
    <3> QED
      BY <2>2, <3>1, <3>2, OtherShows DEF WindowStep
  <2> QED
    BY <2>1, <2>2 DEF Next, Land, Prune, Index
<1> QED
  BY <1>1, Invariant, PTL DEF Spec, SuccessorNotHidden
=============================================================================
