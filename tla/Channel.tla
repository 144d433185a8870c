------------------------------ MODULE Channel ------------------------------
(***************************************************************************)
(* What read_message() and read_message_async() promise of one direction    *)
(* of a connection: its messages are received whole, once and in order,     *)
(* and the receiver gives the connection up when the sender has ended it    *)
(* and everything is received, or because of a signal.                      *)
(***************************************************************************)
EXTENDS Naturals, Sequences

CONSTANT Message

VARIABLES
  sent,       \* messages written
  received,   \* messages read
  ended,      \* the sender has closed
  cut,        \* the sender has gone in the middle of a message
  signalled,  \* the receiver has been sent a signal
  open        \* the receiver keeps the connection

vars == <<sent, received, ended, cut, signalled, open>>

Init ==
  /\ sent = <<>> /\ received = <<>>
  /\ ended = FALSE /\ cut = FALSE /\ signalled = FALSE
  /\ open = TRUE

Send ==
  /\ ~ended /\ ~cut
  /\ \E m \in Message : sent' = Append(sent, m)
  /\ UNCHANGED <<received, ended, cut, signalled, open>>

End ==
  /\ \/ ended' = TRUE /\ UNCHANGED cut
     \/ cut' = TRUE /\ UNCHANGED ended
  /\ UNCHANGED <<sent, received, signalled, open>>

Signal == signalled' = TRUE /\ UNCHANGED <<sent, received, ended, cut, open>>

Receive ==
  /\ open /\ Len(received) < Len(sent)
  /\ received' = Append(received, sent[Len(received) + 1])
  /\ UNCHANGED <<sent, ended, cut, signalled, open>>

Hangup ==
  /\ open
  /\ signalled \/ (received = sent /\ (ended \/ cut))
  /\ open' = FALSE
  /\ UNCHANGED <<sent, received, ended, cut, signalled>>

Next == Send \/ End \/ Signal \/ Receive \/ Hangup

Spec == Init /\ [][Next]_vars

\* After a cut nothing is owed.
FairSpec == Spec /\ WF_vars(Receive) /\ WF_vars(ended /\ Hangup)
=============================================================================
