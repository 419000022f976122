----------------------------- MODULE Countdown -----------------------------
(***************************************************************************)
(* The timers of the reactor: Countdown (src/core/sox/countdown.cpp,       *)
(* countdown.h) and the part of Selector that feeds it the time            *)
(* (selector.h, Selector_epoll.cpp).                                       *)
(*                                                                         *)
(* A timer lies in one of several lists, the falls.  The longer it has to  *)
(* go the higher the fall, and a fall is looked at only when the time      *)
(* elapsed since the last look reaches the fall's own measure; its timers  *)
(* then fire, stay, or fall to a lower list.  count is measured from the   *)
(* last look at the list the timer lies in.                                *)
(*                                                                         *)
(* The time is added by a signal handler, which nothing keeps from running *)
(* between the two statements that take it (the lock of selector.h:45 and  *)
(* 55 is one on Windows only): what it adds then is lost.                  *)
(***************************************************************************)
EXTENDS Integers

CONSTANTS
    Handlers,     \* whoever sets timers
    LastIdx,      \* the highest fall; 0 is the bottom
    Falls,        \* the measure of each fall
    TIME_CLICK,   \* what one SIGALRM adds to the time
    MaxTimeout,   \* bound: the longest timeout
    MaxElapsed    \* bound: the time that passes between two looks of the loop at it

Idx == 0..LastIdx

ASSUME CountdownAssumption ==
    /\ LastIdx \in Nat \ {0}
    /\ Falls \in [Idx -> Nat]
    /\ Falls[0] = 0 /\ \A i \in 1..LastIdx : Falls[i] > 0
    /\ TIME_CLICK \in Nat \ {0}
    /\ MaxTimeout \in Nat /\ MaxElapsed \in Nat

VARIABLES
    timers,       \* the registered Timeout, by handlers that have one
    m_elasped,    \* of each fall: the time since the last look at it
    m_elapsed,    \* of the Selector: time not yet passed on
    elapsed,      \* of check_timout_run: the time it has read, before it resets it
    result        \* the handlers that have fired and not yet been notified

vars == <<timers, m_elasped, m_elapsed, elapsed, result>>

NotRead == -1

Timeout == [fallidx : Idx, count : Nat]
Registered == DOMAIN timers

Init ==
    /\ timers = [h \in {} |-> 0]
    /\ m_elasped = [i \in Idx |-> 0]
    /\ m_elapsed = 0
    /\ elapsed = NotRead
    /\ result = {}

---------------------------------------------------------------------------
(* find_fall_idx: the highest fall, up to top, the timeout reaches.        *)
FallIdx(timeout, top) ==
    CHOOSE i \in 0..top :
        /\ i > 0 => timeout >= Falls[i]
        /\ \A j \in (i + 1)..top : timeout < Falls[j]

(* select_timeout with a timeout, for a handler registered or not.         *)
SelectFromNow(h, timeout) ==           \* mutant: the fall's elapsed time is forgotten
    /\ elapsed = NotRead
    /\ timers' = [g \in Registered \cup {h} |->
                     IF g = h THEN [fallidx |-> FallIdx(timeout, LastIdx), count |-> timeout]
                              ELSE timers[g]]
    /\ UNCHANGED <<m_elasped, m_elapsed, elapsed, result>>
Select(h, timeout) ==
    LET newidx == FallIdx(timeout, LastIdx) IN
    /\ elapsed = NotRead
    /\ timers' = [g \in Registered \cup {h} |->
                     IF g = h THEN [fallidx |-> newidx,
                                    count |-> timeout + m_elasped[newidx]]
                              ELSE timers[g]]
    /\ UNCHANGED <<m_elasped, m_elapsed, elapsed, result>>

(* select_timeout without one: the timer is removed from its fall.         *)
Cancel(h) ==
    /\ elapsed = NotRead
    /\ timers' = [g \in Registered \ {h} |-> timers[g]]
    /\ UNCHANGED <<m_elasped, m_elapsed, elapsed, result>>

---------------------------------------------------------------------------
(* epoll_timer_click                                                       *)
SigAlrm ==
    /\ m_elapsed + TIME_CLICK <= MaxElapsed
    /\ m_elapsed' = m_elapsed + TIME_CLICK
    /\ UNCHANGED <<timers, m_elasped, elapsed, result>>

(* click_elapse: falls are looked at from low to high, and timers only     *)
(* fall, so a list that receives a timer has been looked at already.       *)
Since(i) == m_elasped[i] + elapsed
LookedAt(i) == i # 0 /\ Since(i) >= Falls[i]
Elapsed(i) == IF i = 0 \/ LookedAt(i) THEN 0 ELSE Since(i)

RestOfUncounted(h) == timers[h].count        \* mutant: the time is not charged
RestOf(h) == timers[h].count - Since(timers[h].fallidx)

TimesOut(h) ==
    \/ timers[h].fallidx = 0
    \/ LookedAt(timers[h].fallidx) /\ RestOf(h) <= 0

Fallen(h) ==
    LET idx == timers[h].fallidx
        newidx == FallIdx(RestOf(h), idx)
    IN  IF ~ LookedAt(idx) THEN timers[h]
        ELSE [fallidx |-> newidx,
              count |-> RestOf(h) + (IF newidx = idx THEN 0 ELSE Elapsed(newidx))]

(* check_timout_run: the time is read, then reset.                         *)
ReadElapsed ==
    /\ elapsed = NotRead /\ result = {}
    /\ elapsed' = m_elapsed
    /\ UNCHANGED <<timers, m_elasped, m_elapsed, result>>

NothingElapsed ==
    /\ elapsed = 0
    /\ m_elapsed' = 0 /\ elapsed' = NotRead
    /\ UNCHANGED <<timers, m_elasped, result>>

ClickElapse ==
    /\ elapsed > 0
    /\ result' = {h \in Registered : TimesOut(h)}
    /\ timers' = [h \in Registered \ result' |-> Fallen(h)]
    /\ m_elasped' = [i \in Idx |-> Elapsed(i)]
    /\ m_elapsed' = 0 /\ elapsed' = NotRead

Notify(h) ==
    /\ h \in result
    /\ result' = result \ {h}
    /\ UNCHANGED <<timers, m_elasped, m_elapsed, elapsed>>

Next ==
    \/ \E h \in Handlers :
          Cancel(h) \/ Notify(h) \/ \E timeout \in 0..MaxTimeout : Select(h, timeout)
    \/ SigAlrm \/ ReadElapsed \/ NothingElapsed \/ ClickElapse

Spec == Init /\ [][Next]_vars

(* The alarm goes off, and not only when its time is being taken; the loop *)
(* goes round and its handlers are notified.                               *)
FairSpec ==
    /\ Spec
    /\ SF_vars(SigAlrm /\ elapsed = NotRead)
    /\ WF_vars(ReadElapsed) /\ WF_vars(NothingElapsed) /\ WF_vars(ClickElapse)
    /\ \A h \in Handlers : WF_vars(Notify(h))

---------------------------------------------------------------------------
(* Types; no fall waits longer than its measure before it is looked at, a  *)
(* timer in a fall reaches the measure of the fall, and one at the bottom  *)
(* has less to go than the first fall measures (countdown.cpp:39-40,       *)
(* 72-101).                                                                *)
TypeOK ==
    /\ Registered \subseteq Handlers
    /\ timers \in [Registered -> Timeout]
    /\ m_elasped \in [Idx -> Nat]
    /\ m_elapsed \in 0..MaxElapsed /\ elapsed \in {NotRead} \cup 0..m_elapsed
    /\ elapsed # NotRead => result = {}
    /\ result \subseteq Handlers
    /\ m_elasped[0] = 0
    /\ \A i \in 1..LastIdx : m_elasped[i] < Falls[i]
    /\ \A h \in Registered :
          IF timers[h].fallidx = 0 THEN timers[h].count < Falls[1]
                                   ELSE timers[h].count >= Falls[timers[h].fallidx]

(* The falls implement plain timers (countdown.cpp:26-103): whatever list  *)
(* a timer goes through, it fires at the first look at the clock after its *)
(* time is up, and never earlier than by the measure of the first fall.    *)
(* Setting a timer is setting the plain timer to the same time.            *)
Left == [h \in Registered |-> timers[h].count - m_elasped[timers[h].fallidx]]
Plain == INSTANCE Timers WITH
    left <- Left, fired <- result, Slack <- Falls[1],
    Timeouts <- 0..MaxTimeout, Times <- 1..MaxElapsed
SetsPlainly ==
    \A h \in Handlers, timeout \in 0..MaxTimeout :
        Select(h, timeout) => Plain!Select(h, timeout)
ImplementsTimers == Plain!Spec /\ [][SetsPlainly]_vars

(* A timer that is not set again and again fires or is cancelled           *)
(* (countdown.cpp:62-69, 72-101), from however high a fall.                *)
SelectAny(h) == \E timeout \in 0..MaxTimeout : Select(h, timeout)
TimersFire ==
    \A h \in Handlers : []<>(h \notin Registered) \/ []<><<SelectAny(h)>>_vars
=============================================================================
