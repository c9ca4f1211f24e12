--------------------------- MODULE MCRunExecution ---------------------------
(* One Run and a few callers. *)
EXTENDS RunExecution, TLC

CONSTANTS a, b

\* One caller changes the execution, the other reads it and closes the Run.
MCOneLineEach == a :> {"set", "delete"} @@ b :> {"status", "close", "reset"}

\* Changes that wait for each other, a screen that joins, a close, a delete.
MCBothChange == a :> {"advance", "delete"} @@ b :> {"set", "screen", "close"}

\* One caller after the other.
MCResets == a :> {"set", "reset", "delete"}
MCSets == a :> {"set", "advance"}

Ask(p, q) == [playback |-> p, pace |-> q]

\* What the Run's controls send: play, pause, fast-forward.
MCControls == {Ask("playing", "realtime"), Ask("paused", "keep"), Ask("playing", "maximum")}

\* Pause and fast-forward alone.
MCFew == {Ask("paused", "keep"), Ask("playing", "maximum")}

\* Every set that the schema accepts.
MCWishes == {Ask(p, q) : p \in {"playing", "paused", "keep"}, q \in {"realtime", "maximum", "keep"}}
              \ {Ask("keep", "keep")}
=============================================================================
