--------------------------- MODULE TelemetryProxy ---------------------------
(***************************************************************************)
(* What the collector promises to the telemetry that passes through it: an  *)
(* attempt to export that is proxied is rejected, or it is sent to the      *)
(* backend once, as it came, and answered by success if the backend said so *)
(* and by an error if it did not, or not in time.  Any other attempt is     *)
(* answered and not sent.  Evidence does not occur here.                    *)
(***************************************************************************)
CONSTANT Attempts

VARIABLES proxied,    \* the attempts that there is a backend for
          open,       \* the attempts that wait for their answer
          sent,       \* the attempts that were sent to the backend
          said,       \* what the backend answered those that reached it
          answer      \* what the attempts were answered

vars == <<proxied, open, sent, said, answer>>

Statuses == {200, 401, 404, 502}

\* The client has given up, or the connection has ended.
Lost == 0

Init ==
    /\ proxied \subseteq Attempts
    /\ open = {} /\ sent = {} /\ said = <<>> /\ answer = <<>>

With(f, A, v) == [a \in DOMAIN f \cup A |-> IF a \in A THEN v ELSE f[a]]

Open(a) ==
    /\ a \notin open \cup DOMAIN answer
    /\ open' = open \cup {a}
    /\ UNCHANGED <<proxied, sent, said, answer>>

\* Also when nobody waits for the answer any more.
Send(a) ==
    /\ a \in proxied \ sent
    /\ \/ a \in open
       \/ a \in DOMAIN answer /\ answer[a] = Lost
    /\ sent' = sent \cup {a}
    /\ UNCHANGED <<proxied, open, said, answer>>

Deliver(a, status) ==
    /\ a \in sent \ DOMAIN said
    /\ said' = With(said, {a}, status)
    /\ UNCHANGED <<proxied, open, sent, answer>>

Answer(a, status) ==
    /\ a \in open
    /\ \/ status \in {401, 404} /\ a \notin sent
       \/ status = 200 /\ a \notin proxied
       \/ status = 200 /\ a \in DOMAIN said /\ said[a] = 200
       \/ status = 502 /\ a \in sent
    /\ open' = open \ {a}
    /\ answer' = With(answer, {a}, status)
    /\ UNCHANGED <<proxied, sent, said>>

Lose(A) ==
    /\ open' = open \ A
    /\ answer' = With(answer, A, Lost)
    /\ UNCHANGED <<proxied, sent, said>>

Next ==
    \/ \E a \in Attempts :
          \/ Open(a) \/ Send(a)
          \/ \E status \in {200, 503} : Deliver(a, status)
          \/ \E status \in Statuses : Answer(a, status)
    \/ \E A \in (SUBSET open) \ {{}} : Lose(A)

\* Each attempt is answered.
Spec == /\ Init /\ [][Next]_vars
        /\ \A a \in Attempts : WF_vars(\E status \in Statuses : Answer(a, status))
=============================================================================
