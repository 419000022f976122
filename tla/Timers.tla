------------------------------- MODULE Timers -------------------------------
(***************************************************************************)
(* What the reactor promises those who set timers, without the falls it    *)
(* keeps them in: each handler has one timer; when time passes, every      *)
(* timer whose time is up fires, and none fires that has Slack or more to  *)
(* go.  A timer that has fired stays so, whatever is done with the timers  *)
(* afterwards, until its handler is called.                                *)
(***************************************************************************)
EXTENDS Integers

CONSTANTS
    Handlers,     \* whoever sets timers
    Timeouts,     \* the timeouts they set
    Times,        \* how much time may pass at once
    Slack         \* a timer fires less than this too early

VARIABLES
    left,         \* the time each timer has left, by handlers with a timer
    fired         \* the handlers whose timers have fired, not yet called

vars == <<left, fired>>

Init == left = [h \in {} |-> 0] /\ fired = {}

Select(h, timeout) ==
    /\ left' = [g \in DOMAIN left \cup {h} |-> IF g = h THEN timeout ELSE left[g]]
    /\ UNCHANGED fired

Cancel(h) ==
    /\ left' = [g \in DOMAIN left \ {h} |-> left[g]]
    /\ UNCHANGED fired

Elapse(time) ==
    /\ fired = {}
    /\ {h \in DOMAIN left : left[h] <= time} \subseteq fired'
    /\ fired' \subseteq {h \in DOMAIN left : left[h] <= time \/ left[h] < Slack}
    /\ left' = [h \in DOMAIN left \ fired' |-> left[h] - time]

Call(h) ==
    /\ h \in fired
    /\ fired' = fired \ {h}
    /\ UNCHANGED left

Next ==
    \/ \E h \in Handlers : Cancel(h) \/ Call(h) \/ \E timeout \in Timeouts : Select(h, timeout)
    \/ \E time \in Times : Elapse(time)

Spec == Init /\ [][Next]_vars
=============================================================================
