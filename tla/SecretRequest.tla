----------------------------- MODULE SecretRequest -----------------------------
(***************************************************************************)
(* What the secret flow promises (set.go, manager.go:186-210): a call may  *)
(* ask for a secret on a page, the page is settled once and for ever, and  *)
(* neither the call nor the user is told more than what has happened.      *)
(* Nothing is said of maps, channels and the store.                        *)
(***************************************************************************)
CONSTANTS Call, Request, None

VARIABLES
  state,   \* of the page of a call: "none", "open" or "settled"
  answer,  \* what the call was answered: "active", "pending", "error", or None
  told     \* the call whose page a request was told to be over, or None

Init ==
  /\ state = [c \in Call |-> "none"]
  /\ answer = [c \in Call |-> None]
  /\ told = [r \in Request |-> None]

Answered(c, a) == answer[c] = None /\ answer' = [answer EXCEPT ![c] = a]
Told(r, c)     == told[r] = None /\ told' = [told EXCEPT ![r] = c]

\* The URL of the page leaves the server, as part of the answer or before it.
Issue(c) ==
  /\ state[c] = "none"
  /\ state' = [state EXCEPT ![c] = "open"]
  /\ answer[c] = None
  /\ UNCHANGED answer \/ Answered(c, "pending")
  /\ UNCHANGED told

\* A request settles the page, and its user may be told so at once.
Settle(c) ==
  /\ state[c] = "open"
  /\ state' = [state EXCEPT ![c] = "settled"]
  /\ UNCHANGED told \/ \E r \in Request : Told(r, c)
  /\ UNCHANGED answer

\* A user is told that a page is over: it is.
Tell(r, c) == state[c] = "settled" /\ Told(r, c) /\ UNCHANGED <<state, answer>>

\* "active": the secret had not to be asked for, or the page is settled.
AnswerActive(c) ==
  /\ state[c] # "open"
  /\ Answered(c, "active")
  /\ UNCHANGED <<state, told>>

\* "pending": there is a page, and its URL is known.
AnswerPending(c) ==
  /\ state[c] # "none"
  /\ Answered(c, "pending")
  /\ UNCHANGED <<state, told>>

AnswerError(c) == Answered(c, "error") /\ UNCHANGED <<state, told>>

Next ==
  \E c \in Call :
    \/ Issue(c) \/ Settle(c) \/ \E r \in Request : Tell(r, c)
    \/ AnswerActive(c) \/ AnswerPending(c) \/ AnswerError(c)

Spec == Init /\ [][Next]_<<state, answer, told>>
=============================================================================
