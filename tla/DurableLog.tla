----------------------------- MODULE DurableLog -----------------------------
(* What the commit pipeline of a Run promises: an append-only log in sequence
   order that readers see exactly, and that answered commands can rely on. *)
EXTENDS Naturals

VARIABLES log,       \* the durable events kept on disk
          serving,   \* the Run is in use
          shown,     \* the durable events its readers see
          answered,  \* the durable events of commands answered with success
          overtaken  \* it was resumed while an earlier use was still appending

vars == <<log, serving, shown, answered, overtaken>>

Init == log = {} /\ serving = FALSE /\ shown = {} /\ answered = {} /\ overtaken = FALSE

\* New events follow every event already in the log.
Grow == log \subseteq log' /\ \A s \in log' \ log, t \in log : t < s

\* Events are accepted and shown together, unless an earlier append is in doubt.
Accept == /\ serving /\ shown = log
          /\ Grow
          /\ shown' = log'
          /\ UNCHANGED <<serving, answered>>

\* An append in doubt may leave events in the log; nobody is shown them.
Doubt == Grow /\ UNCHANGED <<serving, shown, answered>>

Answer == /\ serving
          /\ answered \subseteq answered' /\ answered' \subseteq answered \union shown
          /\ UNCHANGED <<log, serving, shown>>

\* The Run is closed or crashes, an append of it possibly half way.
Stop == Grow /\ serving' = FALSE /\ shown' = {} /\ UNCHANGED answered

\* It comes back only with the whole log.
Resume == ~serving /\ serving' = TRUE /\ shown' = log /\ UNCHANGED <<log, answered>>

\* What remains once the order of the appends is lost: no event leaves the log,
\* nothing is shown that it does not hold, and answers keep to what was shown.
Keep == /\ log \subseteq log' /\ shown' \subseteq log'
        /\ answered \subseteq answered' /\ answered' \subseteq answered \union shown

Overtake == ~serving /\ serving' = TRUE /\ overtaken' = TRUE /\ Keep

Next == \/ ~overtaken /\ (Accept \/ Doubt \/ Answer \/ Stop \/ Resume) /\ UNCHANGED overtaken
        \/ ~overtaken /\ Overtake
        \/ overtaken /\ Keep /\ UNCHANGED overtaken

Spec == Init /\ [][Next]_vars
=============================================================================
