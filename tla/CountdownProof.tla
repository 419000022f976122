--------------------------- MODULE CountdownProof ---------------------------
(***************************************************************************)
(* Proofs about Countdown, for any handlers, any falls and any click: the  *)
(* types, and that the falls implement plain timers.                       *)
(***************************************************************************)
EXTENDS Countdown, WellFoundedInduction, TLAPS

(* A set of numbers up to a bound has a largest one.                       *)
LEMMA LargestExists ==
    ASSUME NEW top \in Nat, NEW S, S \subseteq 0..top, S # {}
    PROVE  \E i \in S : \A j \in S : j <= i
  <1> DEFINE R == {ss \in Nat \X Nat : ss[1] < ss[2]}
             T == {n \in Nat : n <= top /\ top - n \in S}
  <1>1. IsWellFoundedOn(R, Nat)
    BY NatLessThanWellFounded DEF OpToRel
  <1>2. T \subseteq Nat /\ T # {}
    <2>1. PICK i \in S : TRUE
      OBVIOUS
    <2>2. i \in Nat /\ i <= top /\ top - (top - i) = i
      BY <2>1
    <2>3. top - i \in T
      BY <2>1, <2>2
    <2> QED
      BY <2>3
  <1>3. PICK x \in T : \A y \in T : <<y, x>> \notin R
    BY <1>1, <1>2, WFMin
  <1>4. \A y \in T : y >= x
    <2> TAKE y \in T
    <2>1. x \in Nat /\ y \in Nat /\ ~ (y < x)
      BY <1>3
    <2> QED
      BY <2>1
  <1> HIDE DEF R
  <1>5. top - x \in S
    BY <1>3
  <1>6. ASSUME NEW j \in S PROVE j <= top - x
    <2>1. j \in Nat /\ j <= top /\ top - (top - j) = j
      OBVIOUS
    <2>2. top - j \in T
      BY <2>1
    <2>3. x \in Nat /\ top - j >= x
      BY <2>2, <1>4, <1>2
    <2> HIDE DEF T
    <2> QED
      BY <2>1, <2>3
  <1> QED
    BY <1>5, <1>6

(* The loop of find_fall_idx stops at the highest fall that is reached.    *)
LEMMA FallIdxFound ==
    ASSUME NEW timeout \in Int, NEW top \in Idx
    PROVE  LET i == FallIdx(timeout, top) IN
           /\ i \in 0..top
           /\ i > 0 => timeout >= Falls[i]
           /\ \A j \in (i + 1)..top : timeout < Falls[j]
  <1> DEFINE S == {i \in 0..top : i > 0 => timeout >= Falls[i]}
  <1>0. top \in Nat /\ \A j \in 0..top : j \in Idx /\ Falls[j] \in Nat
    BY CountdownAssumption DEF Idx
  <1>1. 0 \in S
    BY <1>0
  <1>2. PICK i \in S : \A j \in S : j <= i
    BY <1>0, <1>1, LargestExists
  <1>3. \A j \in (i + 1)..top : timeout < Falls[j]
    <2> TAKE j \in (i + 1)..top
    <2>1. j \in 0..top /\ j > 0 /\ ~ (j <= i)
      BY <1>0
    <2>2. j \notin S
      BY <1>2, <2>1
    <2> QED
      BY <2>1, <2>2, <1>0
  <1>4. \E k \in 0..top : /\ k > 0 => timeout >= Falls[k]
                          /\ \A j \in (k + 1)..top : timeout < Falls[j]
    BY <1>3
  <1> QED
    BY <1>4 DEF FallIdx

---------------------------------------------------------------------------
(* A timer as TypeOK wants it.                                             *)
WellPlaced(t) ==
    /\ t \in Timeout
    /\ IF t.fallidx = 0 THEN t.count < Falls[1] ELSE t.count >= Falls[t.fallidx]

LEMMA TypeOKByTimer ==
    TypeOK <=> /\ Registered \subseteq Handlers
               /\ timers = [h \in Registered |-> timers[h]]
               /\ \A h \in Registered : WellPlaced(timers[h])
               /\ m_elasped \in [Idx -> Nat]
               /\ m_elapsed \in 0..MaxElapsed /\ elapsed \in {NotRead} \cup 0..m_elapsed
               /\ elapsed # NotRead => result = {}
               /\ result \subseteq Handlers
               /\ m_elasped[0] = 0
               /\ \A i \in 1..LastIdx : m_elasped[i] < Falls[i]
  BY DEF TypeOK, WellPlaced

(* A timer put at the fall its time reaches, with the time since the fall  *)
(* was last looked at added to it, is well placed.                         *)
LEMMA Placed ==
    ASSUME NEW rest \in Nat, NEW top \in Idx, top # 0, NEW since \in Nat,
           FallIdx(rest, top) = 0 => since = 0
    PROVE  WellPlaced([fallidx |-> FallIdx(rest, top), count |-> rest + since])
  <1> DEFINE i == FallIdx(rest, top)
  <1>1. /\ i \in 0..top
        /\ i > 0 => rest >= Falls[i]
        /\ \A j \in (i + 1)..top : rest < Falls[j]
    BY FallIdxFound
  <1>2. i \in Idx /\ Falls[i] \in Nat /\ 1 \in 1..top
    BY <1>1, CountdownAssumption DEF Idx
  <1> HIDE DEF i
  <1>3. i = 0 => rest + since < Falls[1]
    BY <1>1, <1>2 DEF i
  <1>4. i # 0 => rest + since >= Falls[i]
    BY <1>1, <1>2
  <1> QED
    BY <1>2, <1>3, <1>4 DEF WellPlaced, Timeout, i

---------------------------------------------------------------------------
(* What click_elapse does to the falls.                                    *)
LEMMA ElapsedFacts ==
    ASSUME TypeOK, elapsed > 0
    PROVE  /\ elapsed \in Nat /\ elapsed \in 1..MaxElapsed
           /\ \A i \in Idx : Since(i) \in Nat /\ Elapsed(i) \in Nat /\ Falls[i] \in Nat
           /\ Elapsed(0) = 0
           /\ \A i \in 1..LastIdx : Elapsed(i) < Falls[i]
  <1>1. elapsed \in 1..MaxElapsed /\ elapsed \in Nat
    BY CountdownAssumption DEF TypeOK, NotRead
  <1>2. ASSUME NEW i \in Idx
        PROVE  Since(i) \in Nat /\ Elapsed(i) \in Nat /\ Falls[i] \in Nat
    BY <1>1, CountdownAssumption DEF TypeOK, Since, Elapsed, LookedAt
  <1>3. ASSUME NEW i \in 1..LastIdx PROVE Elapsed(i) < Falls[i]
    <2>1. i \in Idx /\ i # 0 /\ Falls[i] > 0
      BY CountdownAssumption DEF Idx
    <2> QED
      BY <1>2, <2>1 DEF Elapsed, LookedAt
  <1> QED
    BY <1>1, <1>2, <1>3 DEF Elapsed

(* A timer that does not fire is well placed afterwards, and has exactly   *)
(* the elapsed time less to go, measured from its new fall.                *)
LEMMA FallenFacts ==
    ASSUME TypeOK, elapsed > 0, NEW h \in Registered, ~ TimesOut(h)
    PROVE  /\ WellPlaced(Fallen(h))
           /\ Fallen(h).fallidx \in Idx
           /\ Fallen(h).count - Elapsed(Fallen(h).fallidx) = Left[h] - elapsed
           /\ Left[h] > elapsed
  <1> DEFINE idx == timers[h].fallidx
             rest == RestOf(h)
             newidx == FallIdx(rest, idx)
  <1>1. /\ idx \in Idx /\ idx # 0 /\ timers[h].count \in Nat
        /\ timers[h].count >= Falls[idx] /\ WellPlaced(timers[h])
        /\ m_elasped[idx] \in Nat
    BY TypeOKByTimer DEF WellPlaced, Timeout, TimesOut
  <1>2. /\ elapsed \in Nat /\ Since(idx) \in Nat /\ Falls[idx] \in Nat
        /\ Since(idx) = m_elasped[idx] + elapsed
    BY <1>1, ElapsedFacts DEF Since
  <1>3. Left[h] = timers[h].count - m_elasped[idx] /\ rest = timers[h].count - Since(idx)
    BY DEF Left, RestOf
  <1>4. rest = Left[h] - elapsed /\ Left[h] \in Int
    BY <1>1, <1>2, <1>3
  <1>5. CASE ~ LookedAt(idx)
    <2>1. Fallen(h) = timers[h] /\ Elapsed(idx) = Since(idx) /\ Since(idx) < Falls[idx]
      BY <1>1, <1>2, <1>5 DEF Fallen, Elapsed, LookedAt
    <2> QED
      BY <2>1, <1>1, <1>2, <1>3
  <1>6. CASE LookedAt(idx)
    <2>1. rest \in Nat /\ rest > 0
      BY <1>1, <1>2, <1>3, <1>6 DEF TimesOut
    <2>2. newidx \in 0..idx /\ newidx \in Idx
      <3>1. newidx \in 0..idx
        <4> HIDE DEF rest
        <4> QED
          BY <1>1, <2>1, FallIdxFound
      <3> QED
        BY <1>1, <3>1, CountdownAssumption DEF Idx
    <2>3. /\ Elapsed(newidx) \in Nat /\ Elapsed(0) = 0
          /\ Elapsed(idx) = 0
      BY <2>2, <1>6, ElapsedFacts DEF Elapsed
    <2>4. Fallen(h) = [fallidx |-> newidx, count |-> rest + Elapsed(newidx)]
      BY <1>6, <2>1, <2>3 DEF Fallen
    <2> HIDE DEF rest, newidx
    <2>5. WellPlaced(Fallen(h))
      BY <1>1, <2>1, <2>3, <2>4, Placed DEF newidx
    <2> DEFINE e == Elapsed(newidx)
    <2>6. e \in Nat /\ Elapsed(Fallen(h).fallidx) = e
      BY <2>3, <2>4
    <2>7. Fallen(h).fallidx = newidx /\ Fallen(h).count = rest + e
      BY <2>4
    <2> HIDE DEF e
    <2>8. Fallen(h).count - Elapsed(Fallen(h).fallidx) = rest
      BY <2>1, <2>6, <2>7
    <2>9. Left[h] > elapsed
      BY <2>1, <1>4, <1>2
    <2> QED
      BY <2>2, <2>5, <2>7, <2>8, <2>9, <1>4
  <1> QED
    BY <1>5, <1>6

---------------------------------------------------------------------------
LEMMA InitTypeOK == Init => TypeOK
  BY CountdownAssumption DEF Init, TypeOK, Registered, Idx, NotRead

LEMMA SelectKeeps ==
    ASSUME TypeOK, NEW h \in Handlers, NEW timeout \in 0..MaxTimeout, Select(h, timeout)
    PROVE  TypeOK'
  <1> DEFINE newidx == FallIdx(timeout, LastIdx)
             t == [fallidx |-> newidx, count |-> timeout + m_elasped[newidx]]
  <1>1. LastIdx \in Idx /\ LastIdx # 0 /\ timeout \in Nat
    BY CountdownAssumption DEF Idx
  <1>2. newidx \in Idx
    BY <1>1, FallIdxFound DEF Idx
  <1>3. WellPlaced(t)
    BY <1>1, <1>2, Placed DEF TypeOK
  <1>4. timers' = [g \in Registered \cup {h} |-> IF g = h THEN t ELSE timers[g]]
    BY DEF Select
  <1> HIDE DEF t
  <1>5. /\ Registered' \subseteq Handlers
        /\ timers' = [g \in Registered' |-> timers'[g]]
        /\ \A g \in Registered' : WellPlaced(timers'[g])
    BY <1>3, <1>4, TypeOKByTimer DEF Registered
  <1> QED
    BY <1>5 DEF Select, TypeOK, WellPlaced

LEMMA ClickElapseKeeps ==
    ASSUME TypeOK, ClickElapse
    PROVE  TypeOK'
  <1>1. elapsed > 0
    BY DEF ClickElapse
  <1>2. ASSUME NEW h \in Registered \ result' PROVE WellPlaced(Fallen(h))
    BY <1>1, FallenFacts DEF ClickElapse
  <1>3. /\ Registered' \subseteq Handlers
        /\ timers' = [g \in Registered' |-> timers'[g]]
        /\ \A g \in Registered' : WellPlaced(timers'[g])
    BY <1>2 DEF ClickElapse, Registered, TypeOK
  <1>4. /\ m_elasped' \in [Idx -> Nat] /\ m_elasped'[0] = 0
        /\ \A i \in 1..LastIdx : m_elasped'[i] < Falls[i]
    BY <1>1, ElapsedFacts, CountdownAssumption DEF ClickElapse, Idx
  <1>5. /\ m_elapsed' \in 0..MaxElapsed
        /\ elapsed' \in {NotRead} \cup 0..m_elapsed'
        /\ elapsed' # NotRead => result' = {}
        /\ result' \subseteq Handlers
    BY CountdownAssumption DEF ClickElapse, TypeOK
  <1> QED
    BY <1>3, <1>4, <1>5 DEF TypeOK, WellPlaced

LEMMA NextTypeOK == TypeOK /\ [Next]_vars => TypeOK'
  <1> SUFFICES ASSUME TypeOK, [Next]_vars PROVE TypeOK'
    OBVIOUS
  <1>1. CASE UNCHANGED vars
    BY <1>1 DEF vars, TypeOK, Registered
  <1>2. ASSUME NEW h \in Handlers, Cancel(h) PROVE TypeOK'
    BY <1>2 DEF Cancel, TypeOK, Registered, NotRead
  <1>3. ASSUME NEW h \in Handlers, Notify(h) PROVE TypeOK'
    BY <1>3 DEF Notify, TypeOK, Registered
  <1>4. CASE SigAlrm
    BY <1>4, CountdownAssumption DEF SigAlrm, TypeOK, Registered, NotRead
  <1>5. CASE ReadElapsed
    BY <1>5, CountdownAssumption DEF ReadElapsed, TypeOK, Registered
  <1>6. CASE NothingElapsed
    BY <1>6, CountdownAssumption DEF NothingElapsed, TypeOK, Registered
  <1> QED
    BY <1>1, <1>2, <1>3, <1>4, <1>5, <1>6, SelectKeeps, ClickElapseKeeps DEF Next

(* Every timer is in the fall its time wants, and no fall is overdue       *)
(* (countdown.cpp:26-103).                                                 *)
THEOREM TypeCorrect == Spec => []TypeOK
  BY InitTypeOK, NextTypeOK, PTL DEF Spec

---------------------------------------------------------------------------
LEMMA InitImplements == Init => Plain!Init
  BY DEF Init, Plain!Init, Left, Registered

LEMMA SelectImplements ==
    ASSUME TypeOK, NEW h \in Handlers, NEW timeout \in 0..MaxTimeout, Select(h, timeout)
    PROVE  Plain!Select(h, timeout)
  <1> DEFINE newidx == FallIdx(timeout, LastIdx)
  <1>1. newidx \in Idx /\ m_elasped[newidx] \in Nat /\ timeout \in Nat
    BY CountdownAssumption, FallIdxFound DEF Idx, TypeOK
  <1>2. /\ Registered' = Registered \cup {h} /\ m_elasped' = m_elasped
        /\ timers'[h] = [fallidx |-> newidx, count |-> timeout + m_elasped[newidx]]
        /\ \A g \in Registered \ {h} : timers'[g] = timers[g]
    BY DEF Select, Registered
  <1>3. timers'[h].count - m_elasped'[timers'[h].fallidx] = timeout
    BY <1>1, <1>2
  <1>4. Left' = [g \in Registered \cup {h} |-> IF g = h THEN timeout ELSE Left[g]]
    BY <1>2, <1>3 DEF Left
  <1>5. DOMAIN Left = Registered
    BY DEF Left
  <1> QED
    BY <1>4, <1>5 DEF Plain!Select, Select

LEMMA ClickElapseImplements ==
    ASSUME TypeOK, ClickElapse
    PROVE  Plain!Elapse(elapsed) /\ elapsed \in 1..MaxElapsed
  <1>1. elapsed > 0 /\ elapsed \in 1..MaxElapsed
    BY ElapsedFacts DEF ClickElapse
  <1>2. result = {}
    BY <1>1 DEF TypeOK, NotRead
  <1>3. DOMAIN Left = Registered
    BY DEF Left
  <1>4. ASSUME NEW h \in Registered, Left[h] <= elapsed PROVE h \in result'
    <2>1. Left[h] \in Int
      BY DEF Left, TypeOK, Timeout
    <2> QED
      BY <1>1, <1>4, <2>1, FallenFacts DEF ClickElapse
  <1>5. ASSUME NEW h \in result' PROVE h \in Registered /\ (Left[h] <= elapsed \/ Left[h] < Falls[1])
    <2>1. h \in Registered /\ TimesOut(h)
      BY DEF ClickElapse
    <2>2. CASE timers[h].fallidx = 0
      BY <2>1, <2>2 DEF Left, TypeOK, Timeout
    <2>3. CASE RestOf(h) <= 0
      <3>1. m_elasped[timers[h].fallidx] \in Nat /\ timers[h].count \in Nat
        BY <2>1 DEF TypeOK, Timeout
      <3> QED
        BY <1>1, <2>1, <2>3, <3>1 DEF Left, RestOf, Since
    <2> QED
      BY <2>1, <2>2, <2>3 DEF TimesOut
  <1>6. Left' = [h \in Registered \ result' |-> Left[h] - elapsed]
    <2>1. Registered' = Registered \ result' /\ m_elasped' = [i \in Idx |-> Elapsed(i)]
      BY DEF ClickElapse, Registered
    <2>2. ASSUME NEW h \in Registered \ result'
          PROVE  timers'[h].count - m_elasped'[timers'[h].fallidx] = Left[h] - elapsed
      <3>1. timers'[h] = Fallen(h) /\ ~ TimesOut(h)
        BY DEF ClickElapse
      <3> QED
        BY <1>1, <2>1, <3>1, FallenFacts
    <2> QED
      BY <2>1, <2>2 DEF Left
  <1>7. /\ {h \in DOMAIN Left : Left[h] <= elapsed} \subseteq result'
        /\ result' \subseteq {h \in DOMAIN Left : Left[h] <= elapsed \/ Left[h] < Falls[1]}
    BY <1>3, <1>4, <1>5
  <1> QED
    BY <1>1, <1>2, <1>3, <1>6, <1>7 DEF Plain!Elapse

LEMMA NextImplements == TypeOK /\ [Next]_vars => [Plain!Next]_(Plain!vars)
  <1> SUFFICES ASSUME TypeOK, [Next]_vars PROVE [Plain!Next]_(Plain!vars)
    OBVIOUS
  <1>1. CASE UNCHANGED vars
    BY <1>1 DEF vars, Plain!vars, Left, Registered
  <1>2. ASSUME NEW h \in Handlers, Cancel(h) PROVE Plain!Cancel(h)
    BY <1>2 DEF Cancel, Plain!Cancel, Left, Registered
  <1>3. ASSUME NEW h \in Handlers, Notify(h) PROVE Plain!Call(h)
    BY <1>3 DEF Notify, Plain!Call, Left, Registered
  <1>4. CASE SigAlrm
    BY <1>4 DEF SigAlrm, Plain!vars, Left, Registered
  <1>5. CASE ReadElapsed
    BY <1>5 DEF ReadElapsed, Plain!vars, Left, Registered
  <1>6. CASE NothingElapsed
    BY <1>6 DEF NothingElapsed, Plain!vars, Left, Registered
  <1> QED
    BY <1>1, <1>2, <1>3, <1>4, <1>5, <1>6, SelectImplements, ClickElapseImplements
    DEF Next, Plain!Next

LEMMA NextSetsPlainly == TypeOK /\ [Next]_vars => [SetsPlainly]_vars
  BY SelectImplements DEF SetsPlainly

(* The falls implement plain timers: each fires at the first look at the   *)
(* clock after its time is up, and earlier by less than the first fall     *)
(* (countdown.cpp:26-103).                                                 *)
THEOREM FallsAreTimers == Spec => ImplementsTimers
  <1>1. Spec => []TypeOK
    BY TypeCorrect
  <1> QED
    BY <1>1, InitImplements, NextImplements, NextSetsPlainly, PTL
    DEF Spec, ImplementsTimers, Plain!Spec
=============================================================================
