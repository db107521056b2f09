--------------------------- MODULE Conversations ----------------------------
(***************************************************************************)
(* What the sessions promise their user, without caches, files or turns in *)
(* flight: a session is the sequence of the turns that were held in it.  A *)
(* turn joins the session the user is in, at its end; nothing else but an  *)
(* explicit clearing, compaction or deletion changes what was said.        *)
(***************************************************************************)
EXTENDS Naturals, Sequences

CONSTANTS Session, NoSession, Turn

VARIABLES
    talk,     \* the turns of every existing session
    current   \* the session the user is in

Init ==
    \E s \in Session : talk = [r \in {s} |-> <<>>] /\ current = s

Open(s) ==
    /\ s \notin DOMAIN talk
    /\ talk' = [r \in {s} \cup DOMAIN talk |-> IF r = s THEN <<>> ELSE talk[r]]
    /\ current' = s

View(s) ==
    /\ s \in DOMAIN talk
    /\ current' = s
    /\ UNCHANGED talk

Speak(t) ==
    /\ current # NoSession
    /\ \A s \in DOMAIN talk : \A i \in DOMAIN talk[s] : talk[s][i] # t
    /\ talk' = [talk EXCEPT ![current] = Append(@, t)]
    /\ UNCHANGED current

\* Clearing keeps nothing, compaction the end.
Shorten ==
    /\ current # NoSession
    /\ \E n \in 1 .. Len(talk[current]) + 1 :
          talk' = [talk EXCEPT ![current] = SubSeq(@, n, Len(@))]
    /\ UNCHANGED current

Forget(s) ==
    /\ s \in DOMAIN talk
    /\ talk' = [r \in DOMAIN talk \ {s} |-> talk[r]]
    /\ current' = IF current = s THEN NoSession ELSE current

Next ==
    \/ \E s \in Session : Open(s) \/ View(s) \/ Forget(s)
    \/ \E t \in Turn : Speak(t)
    \/ Shorten

Spec == Init /\ [][Next]_<<talk, current>>
=============================================================================
