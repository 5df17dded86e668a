--------------------------- MODULE OutboxContract ---------------------------
(***************************************************************************)
(* What broka.reliability.outbox promises to the application that stores a *)
(* message with its own state: the message is kept until it has been sent  *)
(* at least once or given up after enough tries, every try sends it at     *)
(* most once, and its fate is never revised.                               *)
(***************************************************************************)
EXTENDS Naturals

CONSTANTS
  Messages,
  MaxAttempts    \* tries before a message may be given up

VARIABLES
  fate,    \* what has become of each message
  tries,   \* how often somebody has set out to send it
  sent     \* the tries in which the transport accepted it

vars == <<fate, tries, sent>>

Fates == {"absent", "kept", "delivered", "given_up", "forgotten"}

Init ==
  /\ fate = [m \in Messages |-> "absent"]
  /\ tries = [m \in Messages |-> 0]
  /\ sent = [m \in Messages |-> {}]

Keep(m) ==
  /\ fate[m] = "absent"
  /\ fate' = [fate EXCEPT ![m] = "kept"]
  /\ UNCHANGED <<tries, sent>>

\* Some of the kept messages are tried once more.
Try(S) ==
  /\ \A m \in S : fate[m] = "kept"
  /\ tries' = [m \in Messages |-> IF m \in S THEN tries[m] + 1 ELSE tries[m]]
  /\ UNCHANGED <<fate, sent>>

\* A late try may still send a message whose fate is settled.
Send(m, try) ==
  /\ try \in 1..tries[m] \ sent[m]
  /\ sent' = [sent EXCEPT ![m] = @ \cup {try}]
  /\ UNCHANGED <<fate, tries>>

Confirm(m) ==
  /\ fate[m] = "kept"
  /\ sent[m] # {}
  /\ fate' = [fate EXCEPT ![m] = "delivered"]
  /\ UNCHANGED <<tries, sent>>

GiveUp(m) ==
  /\ fate[m] = "kept"
  /\ tries[m] >= MaxAttempts
  /\ fate' = [fate EXCEPT ![m] = "given_up"]
  /\ UNCHANGED <<tries, sent>>

Forget(S) ==
  /\ \A m \in S : fate[m] = "delivered"
  /\ fate' = [m \in Messages |-> IF m \in S THEN "forgotten" ELSE fate[m]]
  /\ UNCHANGED <<tries, sent>>

Next ==
  \/ \E m \in Messages : Keep(m) \/ Confirm(m) \/ GiveUp(m)
  \/ \E m \in Messages : \E try \in 1..tries[m] : Send(m, try)
  \/ \E S \in SUBSET Messages : Try(S) \/ Forget(S)

Spec == Init /\ [][Next]_vars
=============================================================================
