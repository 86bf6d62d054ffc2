----------------------------- MODULE DirectDraft -----------------------------
(***************************************************************************)
(* The device-local working copy of a direct message, NativeDirectDraft,   *)
(* and what the windows do with it.  The stored value is one string of     *)
(* localStorage, shared by all windows: a text, the token drawn when it    *)
(* was saved, and the request that was attempted with it, if any.  Storage *)
(* offers no compare-and-swap but a window's own script is not             *)
(* interrupted: only the encryption of a save and the decryption of a      *)
(* restore are awaited.  Meanwhile the window does nothing else (`flight') *)
(* and its form is disabled, so a save stores the text it began with.      *)
(***************************************************************************)
EXTENDS Naturals

CONSTANTS
  Writer,
  Text,      \* what can be written in the form, and can be written twice
  NoText,    \* the empty form
  MaxToken   \* bound on the random tokens and request ids drawn

ASSUME TokenAssumption == MaxToken \in Nat
ASSUME TextAssumption == NoText \in Text

VARIABLES
  stored,     \* the value in localStorage
  token,      \* the tokens and request ids drawn so far
  editor,     \* the windows: form, NativeDirectDraft.original, the save under way
  submitted,  \* the last request each text was submitted with, 0 for none
  begun       \* what had been drawn when the save of the stored text began

draftVars == <<stored, token, editor, submitted, begun>>

Empty == [token |-> 0, text |-> NoText, attempted |-> 0]

\* What restore offers as a message that was not sent.
Unsent(v) == v.token > 0 /\ v.attempted = 0

Shut ==
  [pc |-> "closed", text |-> NoText, original |-> Empty, expected |-> Empty, since |-> 0]

NothingSubmitted == [t \in Text |-> 0]

DraftInit ==
  /\ stored = Empty /\ token = 0 /\ begun = 0
  /\ editor = [w \in Writer |-> Shut]
  /\ submitted = NothingSubmitted

\* open: the value at this moment is the revision edits are based on.  The
\* form starts empty; begin goes on to restore.
Open(w) ==
  /\ editor[w].pc = "closed"
  /\ editor' = [editor EXCEPT ![w] = [Shut EXCEPT !.pc = "open", !.original = stored]]
  /\ UNCHANGED <<stored, token, submitted, begun>>

\* restore: the new revision is taken before the text is decrypted.  A value
\* with an attempt mark, or none, leaves an empty form.
Restore(w) ==
  /\ editor[w].pc = "open"
  /\ editor' = IF Unsent(stored)
            THEN [editor EXCEPT ![w].pc = "restoring", ![w].original = stored]
            ELSE [editor EXCEPT ![w].text = NoText, ![w].original = stored]
  /\ UNCHANGED <<stored, token, submitted, begun>>

\* The text is shown if it can be decrypted and the value is still the one
\* read; the form stays as it was otherwise.
RestoreEnds(w) ==
  /\ editor[w].pc = "restoring"
  /\ \/ /\ stored = editor[w].original
        /\ editor' = [editor EXCEPT ![w].pc = "open", ![w].text = stored.text]
     \/ editor' = [editor EXCEPT ![w].pc = "open"]
  /\ UNCHANGED <<stored, token, submitted, begun>>

Edit(w, t) ==
  /\ editor[w].pc = "open"
  /\ editor' = [editor EXCEPT ![w].text = t]
  /\ UNCHANGED <<stored, token, submitted, begun>>

\* save, up to the encryption.
Save(w) ==
  /\ editor[w].pc = "open"
  /\ editor[w].text # NoText
  /\ stored = editor[w].original
  /\ editor' = [editor EXCEPT ![w].pc = "saving", ![w].expected = editor[w].original,
                        ![w].since = token]
  /\ UNCHANGED <<stored, token, submitted, begun>>

\* Fault: the storage is not looked at again.
WritableUnseen(w, expected) == editor[w].original = expected

\* write: neither the revision of the window nor the stored value moved.
Writable(w, expected) == editor[w].original = expected /\ stored = expected

\* The encrypted text is written, or the save fails.
SaveEnds(w) ==
  /\ editor[w].pc = "saving"
  /\ \/ /\ Writable(w, editor[w].expected)
        /\ token < MaxToken
        /\ token' = token + 1
        /\ stored' = [token |-> token', text |-> editor[w].text, attempted |-> 0]
        /\ begun' = editor[w].since
        /\ editor' = [editor EXCEPT ![w].pc = "open", ![w].original = stored']
     \/ /\ editor' = [editor EXCEPT ![w].pc = "open"]
        /\ UNCHANGED <<stored, token, begun>>
  /\ UNCHANGED submitted

\* A saved draft keeps its token and its text, an empty store gets a marker.
Marked(v, request) ==
  IF v.token > 0 THEN [v EXCEPT !.attempted = request]
  ELSE [token |-> request, text |-> NoText, attempted |-> request]

\* submit of a message: markAttempted with the id of the quoted request, and
\* only then the transaction.
Mark(w) ==
  /\ editor[w].pc = "open"
  /\ editor[w].text # NoText
  /\ Writable(w, editor[w].original)
  /\ token < MaxToken
  /\ token' = token + 1
  /\ stored' = Marked(stored, token')
  /\ editor' = [editor EXCEPT ![w].original = stored']
  /\ submitted' = [submitted EXCEPT ![editor[w].text] = token']
  /\ UNCHANGED begun

\* discard, at the user's request: the mark goes with the value.
Discard(w) ==
  /\ editor[w].pc = "open"
  /\ Writable(w, editor[w].original)
  /\ stored' = Empty
  /\ editor' = [editor EXCEPT ![w].original = Empty]
  /\ submitted' = NothingSubmitted
  /\ UNCHANGED <<token, begun>>

\* close: a save or a restore under way fails at its next access to storage.
CloseEditor(w) ==
  /\ editor[w].pc # "closed"
  /\ editor' = [editor EXCEPT ![w] = Shut]
  /\ UNCHANGED <<stored, token, submitted, begun>>

DraftNext ==
  \E w \in Writer :
    \/ Open(w) \/ Restore(w) \/ RestoreEnds(w) \/ Save(w) \/ SaveEnds(w)
    \/ Mark(w) \/ Discard(w) \/ CloseEditor(w)
    \/ \E t \in Text : Edit(w, t)

DraftSpec == DraftInit /\ [][DraftNext]_draftVars

-----------------------------------------------------------------------------
(* Properties.                                                             *)

\* While the user has deleted nothing, a text that was submitted is offered as
\* unsent only if it was saved anew, by a save that began after the submission:
\* save against markAttempted, "an earlier asynchronous save cannot restore the
\* old text as an unsent draft", in whichever window it was begun.
SubmittedNotUnsent == Unsent(stored) => submitted[stored.text] <= begun
=============================================================================
