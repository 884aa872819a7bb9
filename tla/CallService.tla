---------------------------- MODULE CallService ----------------------------
(***************************************************************************)
(* What the library promises to each call of cpg_lock on a handle that     *)
(* many threads share: the call returns the first answer that was given to *)
(* it, not another's and not a later one, it fails only if the connection  *)
(* is gone, and once it has been answered it does return.                  *)
(***************************************************************************)
CONSTANTS
  Call,     \* the calls of one handle
  Answer    \* what a call may be answered

VARIABLES
  made,     \* calls that have been made
  answer,   \* the first answer given to each call, or "none"
  ret,      \* what each call has returned, or "none"
  broken    \* is the connection gone?

csvars == <<made, answer, ret, broken>>

CSInit ==
  /\ made = {}
  /\ answer = [c \in Call |-> "none"]
  /\ ret = [c \in Call |-> "none"]
  /\ broken = FALSE

Make(c) ==
  /\ c \notin made
  /\ made' = made \cup {c}
  /\ UNCHANGED <<answer, ret, broken>>

GiveAnswer(c, a) ==
  /\ c \in made
  /\ answer[c] = "none"
  /\ answer' = [answer EXCEPT ![c] = a]
  /\ UNCHANGED <<made, ret, broken>>

Break ==
  /\ ~broken
  /\ broken' = TRUE
  /\ UNCHANGED <<made, answer, ret>>

Return(c) ==
  /\ ret[c] = "none"
  /\ answer[c] # "none"
  /\ ret' = [ret EXCEPT ![c] = answer[c]]
  /\ UNCHANGED <<made, answer, broken>>

Fail(c) ==
  /\ c \in made
  /\ ret[c] = "none"
  /\ broken
  /\ ret' = [ret EXCEPT ![c] = "error"]
  /\ UNCHANGED <<made, answer, broken>>

CSNext ==
  \/ Break
  \/ \E c \in Call :
       \/ Make(c) \/ Return(c) \/ Fail(c)
       \/ \E a \in Answer : GiveAnswer(c, a)

CSSafety == CSInit /\ [][CSNext]_csvars

\* A call that can return does.
CSSpec ==
  /\ CSSafety
  /\ \A c \in Call : WF_csvars(Return(c) \/ Fail(c))

=============================================================================
