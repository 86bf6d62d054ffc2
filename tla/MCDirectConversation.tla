------------------------- MODULE MCDirectConversation -------------------------
(***************************************************************************)
(* Instances of DirectConversation, with DirectDraft, for TLC: the first   *)
(* state chooses a course, or that only drafts are written.                *)
(***************************************************************************)
EXTENDS DirectConversation, DirectDraft, TLC

CONSTANTS m1, m2, m3, c1, c2, k1, w1, w2, t1, t2, read, write

Names == [c \in Command |-> m1]
Capabilities == [c \in Command |-> k1]
Kinds == [m \in Message |-> IF m = m3 THEN read ELSE write]
Amounts == [m \in Message |-> 1]

\* Everything within the limit, and reading only.
Wide == [kinds |-> {read, write}, max_calls |-> 1, budget_limit |-> 2]
Narrow == [kinds |-> {read}, max_calls |-> 1, budget_limit |-> 2]
Policies == {Wide, Narrow}

Renew == [kind |-> "permission", version |-> 1, policy |-> Wide]
Withdraw == [kind |-> "revoke", version |-> 1]
Of(m, kind) == [kind |-> kind, m |-> m]
Decide(m, approve) == [kind |-> "decision", m |-> m, approve |-> approve]

\* A stored message within the permission: its capability, run and stop, by two
\* windows.
Delivery ==
  [windows |-> {w1, w2}, operations |-> {Of(m1, kind) : kind \in {"capability", "run", "stop"}},
   policy |-> Wide, written |-> {m1}, asked |-> {}]

\* The whole course of a message that needs approval.
Journey ==
  [windows |-> {w1},
   operations |-> {Of(m1, kind) : kind \in {"message", "approval", "capability", "run", "stop"}}
                    \cup {Decide(m1, TRUE), Withdraw},
   policy |-> Narrow, written |-> {}, asked |-> {}]

\* Messages that need approval, a renewal, and another message.
Deciding ==
  [windows |-> {w1},
   operations |-> {Decide(m1, TRUE), Decide(m1, FALSE), Decide(m2, TRUE), Renew,
                   Of(m3, "message")},
   policy |-> Narrow, written |-> {m1, m2}, asked |-> {m1, m2}]

\* Nothing but drafts.
Drafting ==
  [windows |-> {}, operations |-> {}, policy |-> Wide, written |-> {}, asked |-> {}]

Courses == {Delivery, Journey, Deciding, Drafting}
Operations == UNION {c.operations : c \in Courses}

MCInit == ConversationInit /\ DraftInit

MCNext ==
  \/ ConversationNext /\ UNCHANGED draftVars
  \/ course = Drafting /\ DraftNext /\ UNCHANGED allVars

MCSpec == MCInit /\ [][MCNext]_<<allVars, draftVars>>

\* Windows are alike, and so are the commands for one message and the texts.
Symmetry == Permutations(Window) \cup Permutations(Command) \cup Permutations({t1, t2})
=============================================================================
