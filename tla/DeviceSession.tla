---------------------------- MODULE DeviceSession ----------------------------
(***************************************************************************)
(* The device session of the App: useDeviceSession (device-session.ts),    *)
(* the call wrapper of native-device.ts, the revocation effect of App.tsx, *)
(* and the sessions of the native DeviceVault.  Keys are in native memory  *)
(* while the vault's session is open; the App shows what it was last told. *)
(* A native call is asked, carried out and answered in separate steps, and *)
(* answers are taken in any order.  Every profile has keys.                *)
(***************************************************************************)
EXTENDS Naturals

CONSTANTS
  Profile, First,  \* device profiles, and the one preferred at the start
  NoDevice,
  MaxAsked         \* bound: flows a person starts

ASSUME SessionAssumption == First \in Profile /\ NoDevice \notin Profile /\ MaxAsked \in Nat

VARIABLES
  ui,        \* DeviceSession: state, profile, and whose device is shown
  current,   \* profile.current
  preferred, \* preferredDeviceProfile()
  open,      \* profiles with an open session in the vault
  task,      \* flows of the hook that are under way
  revoked,   \* profiles all of whose grants are revoked, on the chain
  read,      \* those that the grants the App holds show as revoked
  due,       \* the effect of App.tsx is due
  asked      \* flows started so far

grants == <<revoked, read>>
vars == <<ui, current, preferred, open, task, grants, due, asked>>

Flow == {"signin", "resync", "unlock", "idle", "poll", "lock", "revoke", "use"}
Pc == {"off", "timeout", "open", "ask", "public", "answer", "failed"}
Off == [pc |-> "off", profile |-> First, device |-> NoDevice, live |-> FALSE]

TypeOK ==
  /\ ui \in [state : {"checking", "unlocking", "locked", "unlocked"},
             profile : Profile, device : Profile \cup {NoDevice}]
  /\ current \in Profile /\ preferred \in Profile
  /\ open \subseteq Profile /\ revoked \subseteq Profile /\ read \subseteq revoked
  /\ task \in [Flow -> [pc : Pc, profile : Profile, device : Profile \cup {NoDevice},
                        live : BOOLEAN]]
  /\ due \in BOOLEAN /\ asked \in 0 .. MaxAsked

\* A WebView that is reloaded may find a live session.
Init ==
  /\ ui = [state |-> "checking", profile |-> First, device |-> NoDevice]
  /\ current = First /\ preferred = First
  /\ open \in {{}, {First}}
  /\ task = [[f \in Flow |-> Off] EXCEPT !["signin"].pc = "ask"]
  /\ revoked = {} /\ read = {} /\ due = FALSE /\ asked = 0

-----------------------------------------------------------------------------
(* setSession, and the flows. *)

\* The effect on [sessionAddress, grants] is due when one of them changed and
\* there is a session and a revoked grant: it does nothing otherwise.
Due(changed, device, shown) == (due \/ changed) /\ device # NoDevice /\ shown # {}

\* Fault: The effect looks at the grants only.
SetQuietly(state, p, device) ==
  /\ ui' = [state |-> state, profile |-> p, device |-> device]
  /\ UNCHANGED due
\* setSession; a change of the address shown makes the effect due
Set(state, p, device) ==
  /\ ui' = [state |-> state, profile |-> p, device |-> device]
  /\ due' = Due(device # ui.device, device, read)
Keep == UNCHANGED <<ui, due>>

Goto(f, pc) == task' = [task EXCEPT ![f].pc = pc]
End(f) == task' = [task EXCEPT ![f] = Off]
Asked(f, pc, p) ==
  /\ task[f].pc = "off"
  /\ task' = [task EXCEPT ![f] = [Off EXCEPT !.pc = pc, !.profile = p]]
ByPerson == asked < MaxAsked /\ asked' = asked + 1

\* unlock, unless one is in flight; `ended' is a flow that falls back on it
StartUnlock(ended) ==
  IF task["unlock"].pc = "off"
  THEN /\ current' = preferred
       /\ task' = [task EXCEPT ![ended] = Off,
                     !["unlock"] = [Off EXCEPT !.pc = "open", !.profile = preferred]]
       /\ Set("unlocking", preferred, NoDevice)
  ELSE End(ended) /\ Keep /\ UNCHANGED current

Unlock ==
  /\ ui.state = "locked" /\ ByPerson
  /\ task["unlock"].pc = "off" /\ StartUnlock("unlock")
  /\ UNCHANGED <<preferred, open, grants>>

\* lock, by the person or after a while in the background
Lock ==
  /\ ui.state = "unlocked" /\ ByPerson
  /\ Asked("lock", "ask", current)
  /\ UNCHANGED <<ui, due, current, preferred, open, grants>>

\* Device setup has created keys, whose session is open, and connect resyncs.
\* The new connection forgets what was read over the old one.
Connect(p) ==
  /\ ByPerson
  /\ preferred' = p /\ current' = p
  /\ open' = open \cup {p}
  /\ read' = {} /\ due' = FALSE
  /\ Asked("resync", "ask", p)
  /\ UNCHANGED <<ui, revoked>>

\* setIdleMinutes of the session that is shown
SetIdleMinutes ==
  /\ ui.state = "unlocked" /\ ByPerson /\ task["idle"].pc = "off"
  /\ task' = [task EXCEPT !["idle"] = [Off EXCEPT !.pc = "timeout", !.device = ui.device]]
  /\ UNCHANGED <<ui, due, current, preferred, open, grants>>

\* An operation of some flow that needs the keys, or the touch of an activity
Use ==
  /\ ui.state = "unlocked" /\ ByPerson
  /\ Asked("use", "public", current)
  /\ UNCHANGED <<ui, due, current, preferred, open, grants>>

\* The interval of an unlocked session
Poll ==
  /\ ui.state = "unlocked"
  /\ Asked("poll", "ask", current)
  /\ UNCHANGED <<ui, due, current, preferred, open, grants, asked>>

\* The effect of App.tsx: a device all of whose grants are revoked is locked, if
\* the grants are known.
RevokedEffect ==
  /\ due /\ due' = FALSE
  /\ IF ui.device \in read THEN Asked("revoke", "ask", current) ELSE UNCHANGED task
  /\ UNCHANGED <<ui, current, preferred, open, grants, asked>>

-----------------------------------------------------------------------------
(* The vault. *)

\* set_idle_timeout is answered; unlocked() then reads profile.current.
TimeoutSet ==
  /\ task["idle"].pc = "timeout"
  /\ task' = [task EXCEPT !["idle"].pc = "ask", !["idle"].profile = current]
  /\ UNCHANGED <<ui, due, current, preferred, open, grants, asked>>

\* fm_device_unlock: the session is opened, or the OS store refuses.
OpenSession ==
  /\ task["unlock"].pc = "open"
  /\ \/ open' = open \cup {task["unlock"].profile} /\ Goto("unlock", "ask")
     \/ UNCHANGED open /\ Goto("unlock", "failed")
  /\ UNCHANGED <<ui, due, current, preferred, grants, asked>>

\* session_status: what follows depends on the flow.
Status(f) ==
  LET live == task[f].profile \in open IN
  /\ f \in {"signin", "resync", "unlock", "idle", "poll"} /\ task[f].pc = "ask"
  /\ task' = [task EXCEPT ![f].live = live, ![f].pc =
       CASE f = "poll" -> "answer"
         [] f \in {"signin", "resync"} /\ live -> "public"
         [] f \in {"unlock", "idle"} /\ live -> "answer"
         [] OTHER -> "failed"]
  /\ UNCHANGED <<ui, due, current, preferred, open, grants, asked>>

\* load, of an operation that needs the keys
Load(f) ==
  /\ task[f].pc = "public"
  /\ Goto(f, IF task[f].profile \in open THEN "answer" ELSE "failed")
  /\ UNCHANGED <<ui, due, current, preferred, open, grants, asked>>

\* lock of every profile
LockAll(f) ==
  /\ f \in {"lock", "revoke"} /\ task[f].pc = "ask"
  /\ open' = {} /\ Goto(f, "answer")
  /\ UNCHANGED <<ui, due, current, preferred, grants, asked>>

\* A session has been idle for too long.
Expire(p) ==
  /\ p \in open /\ open' = open \ {p}
  /\ UNCHANGED <<ui, due, current, preferred, task, grants, asked>>

-----------------------------------------------------------------------------
(* The answers. *)

\* unlocked: the session is shown.
Unlocked(f) ==
  LET t == task[f] IN
  /\ f \in {"signin", "resync", "unlock", "idle"} /\ t.pc = "answer"
  /\ Set("unlocked", t.profile, IF f = "idle" THEN t.device ELSE t.profile)
  /\ End(f)
  /\ UNCHANGED <<current, preferred, open, grants, asked>>

\* Fault: A refused unlock leaves the screen as it is.
FailedSilently(f) ==
  /\ task[f].pc = "failed"
  /\ \/ f \in {"signin", "resync"} /\ StartUnlock(f)
     \/ f \in {"unlock", "idle"} /\ End(f) /\ Keep /\ UNCHANGED current
  /\ UNCHANGED <<preferred, open, grants, asked>>
\* What follows a flow that failed: sign-in and resync unlock, unlock says so.
Failed(f) ==
  /\ task[f].pc = "failed"
  /\ \/ f \in {"signin", "resync"} /\ StartUnlock(f)
     \/ f = "unlock" /\ Set("locked", task[f].profile, NoDevice) /\ End(f) /\ UNCHANGED current
     \/ f = "idle" /\ End(f) /\ Keep /\ UNCHANGED current
  /\ UNCHANGED <<preferred, open, grants, asked>>

\* Fault: The poll only refreshes the time that remains.
PollAnswerRefreshes ==
  /\ task["poll"].pc = "answer"
  /\ Keep /\ End("poll")
  /\ UNCHANGED <<current, preferred, open, grants, asked>>
\* The answer of the interval; one for another profile is refused.
PollAnswer ==
  /\ task["poll"].pc = "answer"
  /\ IF task["poll"].profile = current /\ ~task["poll"].live
     THEN Set("locked", current, NoDevice) ELSE Keep
  /\ End("poll")
  /\ UNCHANGED <<current, preferred, open, grants, asked>>

\* The end of lock, whatever is shown by then
LockAnswer(f) ==
  /\ f \in {"lock", "revoke"} /\ task[f].pc = "answer"
  /\ Set("locked", current, NoDevice) /\ End(f)
  /\ UNCHANGED <<current, preferred, open, grants, asked>>

\* An operation is done, or DEVICE_LOCKED_EVENT tells that the session is locked.
UseAnswer ==
  /\ task["use"].pc \in {"answer", "failed"}
  /\ IF task["use"].pc = "failed" /\ ui.state \in {"unlocked", "checking"}
     THEN Set("locked", current, NoDevice) ELSE Keep
  /\ End("use")
  /\ UNCHANGED <<current, preferred, open, grants, asked>>

-----------------------------------------------------------------------------
(* The grants. *)

\* Another device of the human revokes this one's.
Revoke(p) ==
  /\ p \notin revoked /\ revoked' = revoked \cup {p}
  /\ UNCHANGED <<ui, due, current, preferred, open, task, read, asked>>

\* A read of the human, at the start of a connection and every 15 s.  The effect
\* of a render runs before the next answer.
ReadGrants ==
  /\ ~due /\ read' = revoked /\ due' = Due(TRUE, ui.device, revoked)
  /\ UNCHANGED <<ui, current, preferred, open, task, revoked, asked>>

\* The same, when only the grants cannot be read; or the person disconnects.
LoseGrants ==
  /\ ~due /\ read' = {} /\ due' = FALSE
  /\ UNCHANGED <<ui, current, preferred, open, task, revoked, asked>>

Native(f) == Status(f) \/ Load(f) \/ LockAll(f)
Reply(f) == Unlocked(f) \/ Failed(f) \/ LockAnswer(f)

Next ==
  \/ Unlock \/ Lock \/ SetIdleMinutes \/ Use \/ Poll \/ RevokedEffect
  \/ TimeoutSet \/ OpenSession \/ PollAnswer \/ UseAnswer
  \/ \E f \in Flow : Native(f) \/ Reply(f)
  \/ ReadGrants \/ LoseGrants
  \/ \E p \in Profile : Connect(p) \/ Expire(p) \/ Revoke(p)

\* Native calls are answered, the interval runs while a session is shown, and
\* effects run after a render.  Nothing is assumed of reads of the chain.
Fairness ==
  /\ WF_vars(Poll) /\ WF_vars(PollAnswer) /\ WF_vars(RevokedEffect)
  /\ WF_vars(TimeoutSet) /\ WF_vars(OpenSession) /\ WF_vars(UseAnswer)
  /\ \A f \in Flow : WF_vars(Native(f)) /\ WF_vars(Reply(f))

Spec == Init /\ [][Next]_vars /\ Fairness

-----------------------------------------------------------------------------
(* Properties. *)

\* A session that is shown as unlocked while its keys are gone - idle, locked, or
\* reopened on the screen by an answer that was on its way - does not stay so:
\* the interval notices it (useDeviceSession, the poll).  So for one profile on a
\* device: after a change of profile an answer for the old one can show a session
\* that the interval never asks about (device-session.ts:222).
SessionNoticed ==
  \A p \in Profile :
    ui.state = "unlocked" /\ ui.profile = p /\ p \notin open
      ~> ui.state # "unlocked" \/ ui.profile # p \/ p \in open

\* A device that the grants show as revoked does not stay unlocked, also when
\* they were read before it unlocked, or it is unlocked again (App.tsx), unless
\* the App loses the grants meanwhile: the effect then finds nothing to lock for.
\* And if the grants are read again and again (use-chain.ts), a revocation on the
\* chain ends the session, however often reads fail in between.
RevokedEnds ==
  \A p \in Profile :
    LET unlocked == ui.state = "unlocked" /\ ui.device = p IN
    /\ p \in read /\ unlocked ~> ~unlocked \/ p \notin read
    /\ []<><<ReadGrants>>_vars => (p \in revoked /\ unlocked ~> ~unlocked)

\* Nobody is left before a screen that says unlocking: whatever the store or the
\* status answers, and whichever flow overtakes it (unlock, resync).
UnlockingEnds == ui.state = "unlocking" ~> ui.state # "unlocking"
=============================================================================
