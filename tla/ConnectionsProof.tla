-------------------------- MODULE ConnectionsProof --------------------------
(***************************************************************************)
(* Proofs about Connections, for both managers, any finite memory and any  *)
(* number of connections: the table and the objects agree, a handler never *)
(* runs on an object that is gone or on another one in its place, deferred *)
(* deletion misses no disabled connection, and m_removed names exactly the *)
(* reads and writes that are stale.  Serial numbers tell connections       *)
(* apart, and only one operation of the map leads to the call of a method  *)
(* of a NULL connection.                                                   *)
(***************************************************************************)
EXTENDS Connections, FiniteSetTheorems, TLAPS

(* The slots of a vector are 0, 1, ...; the ids of a map were all given.   *)
Slots ==
    IF manager = "vec" THEN \E n \in 0..created : DOMAIN connects = 0..(n - 1)
                       ELSE DOMAIN connects \subseteq 0..created

(* What the loop still has to deliver is for a living connection, or its   *)
(* address is among those removed.                                         *)
StaleIsRemoved ==
    \A e \in pending : \/ e.at \in removed
                       \/ e.at \in DOMAIN heap /\ heap[e.at].serial = e.serial

Heap == DOMAIN heap \subseteq Addresses /\ heap \in [DOMAIN heap -> Conn]
Table ==
    /\ DOMAIN connects \subseteq Ids
    /\ connects \in [DOMAIN connects -> Addresses \cup {NULL}]
    /\ freeList \subseteq Ids
Rest ==
    /\ manager \in Managers
    /\ toDelete \subseteq Ids
    /\ created \in 0..MaxConns
    /\ phase \in {"wait", "events", "timers"}
    /\ pending \subseteq Event
    /\ lazyDue \in BOOLEAN
    /\ removed \subseteq Addresses
    /\ current \in Owner \cup {NULL}
    /\ crashed \in BOOLEAN

Store == Heap /\ Table /\ TableAgrees /\ Slots
Loop == StaleIsRemoved /\ HandlerOwnsObject

IInv == Store /\ Rest /\ Loop /\ DisabledIsListed

LEMMA TypesOfParts == TypeOK <=> Heap /\ Table /\ Rest
  BY DEF TypeOK, Heap, Table, Rest

---------------------------------------------------------------------------
(* A connection in the table is found under its id, in a slot of its own.  *)
LEMMA SlotOfConnection ==
    ASSUME Store, NEW a \in DOMAIN heap
    PROVE  /\ heap[a].id \in DOMAIN connects /\ connects[heap[a].id] = a
           /\ a \in Addresses /\ a # NULL
  <1>1. a \in Addresses /\ a # NULL
    BY ConnectionsAssumption DEF Store, Heap
  <1>2. LookUp(heap[a].id) = a
    BY DEF Store, TableAgrees
  <1> QED
    BY <1>1, <1>2 DEF LookUp

(* Erasing connections in the table keeps table and objects agreed.        *)
LEMMA EraseKeepsStore ==
    ASSUME Store, UNCHANGED <<manager, created>>,
           NEW ids \in SUBSET {id \in DOMAIN connects : connects[id] # NULL},
           EraseAll(ids)
    PROVE  /\ Store'
           /\ DOMAIN heap' = DOMAIN heap \ {connects[id] : id \in ids}
           /\ \A a \in DOMAIN heap' : heap'[a] = heap[a]
           /\ removed' = removed \cup {connects[id] : id \in ids}
           /\ {connects[id] : id \in ids} \subseteq Addresses
  <1> DEFINE gone == {connects[id] : id \in ids}
  <1>1. /\ DOMAIN heap' = DOMAIN heap \ gone
        /\ heap' = [a \in DOMAIN heap \ gone |-> heap[a]]
        /\ removed' = removed \cup gone
    BY DEF EraseAll, Delete, Without
  <1>2. gone \subseteq Addresses
    BY DEF Store, Table
  <1>3. \A a \in DOMAIN heap' : heap'[a] = heap[a]
    BY <1>1
  <1>4. Heap'
    BY <1>1, <1>3 DEF Store, Heap
  <1>5. ASSUME NEW id \in DOMAIN connects \ ids
        PROVE  id \in DOMAIN connects' /\ connects'[id] = connects[id]
    BY <1>5 DEF EraseAll, Unlink, Without
  <1>6. ASSUME NEW id \in DOMAIN connects', connects'[id] # NULL
        PROVE  id \in DOMAIN connects \ ids
    BY <1>6 DEF EraseAll, Unlink, Without
  <1>7. Table'
    BY DEF Store, Table, EraseAll, Unlink, Without
  <1>8. Slots'
    BY DEF Store, Slots, EraseAll, Unlink, Without
  <1>9. ASSUME NEW a \in DOMAIN heap'
        PROVE  LookUp(heap[a].id)' = a
    <2>1. a \in DOMAIN heap /\ a \notin gone
      BY <1>1
    <2>2. heap[a].id \in DOMAIN connects /\ connects[heap[a].id] = a
      BY <2>1, SlotOfConnection
    <2>3. heap[a].id \notin ids
      BY <2>1, <2>2
    <2>4. heap[a].id \in DOMAIN connects' /\ connects'[heap[a].id] = a
      BY <1>5, <2>2, <2>3
    <2>5. heap'[a].id = heap[a].id
      BY <1>3
    <2> QED
      BY <1>3, <2>4, <2>5 DEF LookUp
  <1>10. ASSUME NEW id \in DOMAIN connects', connects'[id] # NULL
         PROVE  connects'[id] \in DOMAIN heap' /\ heap'[connects'[id]].id = id
    <2>1. id \in DOMAIN connects \ ids /\ connects'[id] = connects[id]
      BY <1>5, <1>6, <1>10
    <2>2. connects[id] \in DOMAIN heap /\ heap[connects[id]].id = id
      BY <1>10, <2>1 DEF Store, TableAgrees
    <2>3. connects[id] \notin gone
      <3>1. SUFFICES ASSUME NEW other \in ids, connects[other] = connects[id] PROVE FALSE
        OBVIOUS
      <3>2. heap[connects[other]].id = other
        BY DEF Store, TableAgrees
      <3> QED
        BY <2>1, <2>2, <3>1, <3>2
    <2> QED
      BY <1>1, <1>3, <2>1, <2>2, <2>3
  <1>11. freeList' = IF manager' = "vec"
                     THEN {id \in DOMAIN connects' : connects'[id] = NULL} ELSE {}
    <2>1. CASE manager = "vec"
      <3>1. /\ DOMAIN connects' = DOMAIN connects /\ freeList' = freeList \cup ids
            /\ \A id \in DOMAIN connects :
                  connects'[id] = IF id \in ids THEN NULL ELSE connects[id]
        BY <2>1 DEF EraseAll, Unlink
      <3>2. freeList = {id \in DOMAIN connects : connects[id] = NULL}
        BY <2>1 DEF Store, TableAgrees
      <3> QED
        BY <2>1, <3>1, <3>2
    <2>2. CASE manager # "vec"
      BY <2>2 DEF Store, TableAgrees, EraseAll, Unlink
    <2> QED
      BY <2>1, <2>2
  <1>12. TableAgrees'
    <2>1. \A a \in DOMAIN heap' : heap'[a].id = heap[a].id
      BY <1>3
    <2>2. \A a \in DOMAIN heap' : LookUp(heap[a].id)' = LookUp(heap[a].id)'
      OBVIOUS
    <2> QED
      BY <1>9, <1>10, <1>11, <2>1 DEF TableAgrees, LookUp
  <1> QED
    BY <1>1, <1>2, <1>3, <1>4, <1>7, <1>8, <1>12 DEF Store

(* After an erasure what is pending is still for the living or recorded.   *)
LEMMA EraseKeepsStale ==
    ASSUME StaleIsRemoved, NEW gone, pending' \subseteq pending,
           DOMAIN heap' = DOMAIN heap \ gone,
           \A a \in DOMAIN heap' : heap'[a] = heap[a],
           removed' = removed \cup gone
    PROVE  StaleIsRemoved'
  BY DEF StaleIsRemoved

---------------------------------------------------------------------------
(* A new connection: its id is free, and so is its address.                *)
LEMMA FreshId ==
    ASSUME Store, Rest, NEW id \in Ids, NewId(id)
    PROVE  /\ id \in DOMAIN connects => connects[id] = NULL
           /\ manager = "vec" =>
                 \E n \in 0..(created + 1) : DOMAIN connects \cup {id} = 0..(n - 1)
           /\ id \in 0..(created + 1)
  <1> USE ConnectionsAssumption DEF Store, Rest, Ids
  <1>1. CASE manager = "vec" /\ freeList = {}
    <2>1. PICK n \in 0..created : DOMAIN connects = 0..(n - 1)
      BY <1>1 DEF Slots
    <2>2. Cardinality(DOMAIN connects) = n
      BY <2>1, FS_Interval
    <2>3. id = n
      BY <1>1, <2>2 DEF NewId
    <2>4. DOMAIN connects \cup {id} = 0..((n + 1) - 1) /\ n + 1 \in 0..(created + 1)
      BY <2>1, <2>3
    <2>5. id \notin DOMAIN connects /\ id \in 0..(created + 1)
      BY <2>1, <2>3
    <2> QED
      BY <2>4, <2>5
  <1>2. CASE manager = "vec" /\ freeList # {}
    <2>1. id \in DOMAIN connects /\ connects[id] = NULL
      BY <1>2 DEF NewId, TableAgrees
    <2>2. PICK n \in 0..created : DOMAIN connects = 0..(n - 1)
      BY <1>2 DEF Slots
    <2> QED
      BY <2>1, <2>2
  <1>3. CASE manager # "vec"
    <2>1. manager = "map" /\ id = created + 1
      BY <1>3 DEF NewId
    <2> QED
      BY <2>1, <1>3 DEF Slots
  <1> QED
    BY <1>1, <1>2, <1>3

LEMMA CreateKeeps ==
    ASSUME IInv, NEW a \in Addresses, NEW id \in Ids, Create(a, id)
    PROVE  IInv'
  <1> USE ConnectionsAssumption DEF IInv
  <1> DEFINE new == [id |-> id, serial |-> created + 1, enabled |-> TRUE]
  <1>1. /\ a \notin DOMAIN heap /\ created' = created + 1 /\ created < MaxConns
        /\ DOMAIN heap' = DOMAIN heap \cup {a} /\ heap'[a] = new
        /\ \A b \in DOMAIN heap : heap'[b] = heap[b]
        /\ heap' = [b \in DOMAIN heap' |-> heap'[b]]
        /\ DOMAIN connects' = DOMAIN connects \cup {id} /\ connects'[id] = a
        /\ \A i \in DOMAIN connects \ {id} : connects'[i] = connects[i]
        /\ connects' = [i \in DOMAIN connects' |-> connects'[i]]
        /\ freeList' = freeList \ {id} /\ NewId(id)
        /\ UNCHANGED <<manager, toDelete, removed, phase, pending, lazyDue, current, crashed>>
    BY DEF Create, Enter, loop
  <1>2. /\ id \in DOMAIN connects => connects[id] = NULL
        /\ id \in 0..(created + 1)
        /\ manager = "vec" =>
              \E n \in 0..(created + 1) : DOMAIN connects \cup {id} = 0..(n - 1)
    BY <1>1, FreshId
  <1>3. new \in Conn /\ new.id = id /\ new.enabled
    BY <1>1 DEF Conn, Serials, Rest
  <1> HIDE DEF new
  <1>4. Heap' /\ Table'
    BY <1>1, <1>3 DEF Heap, Table, Store
  <1>5. Slots'
    BY <1>1, <1>2 DEF Slots, Store, Rest
  <1>6. \A b \in DOMAIN heap : /\ heap[b].id \in DOMAIN connects \ {id}
                               /\ connects[heap[b].id] = b
    BY <1>2, SlotOfConnection
  <1>7. ASSUME NEW b \in DOMAIN heap' PROVE LookUp(heap[b].id)' = b
    <2>1. CASE b = a
      BY <1>1, <1>3, <2>1 DEF LookUp
    <2>2. CASE b # a
      <3>1. heap'[b] = heap[b] /\ heap'[b].id \in DOMAIN connects \ {id}
        BY <1>1, <1>6, <2>2
      <3> QED
        BY <1>1, <1>6, <2>2, <3>1 DEF LookUp
    <2> QED
      BY <2>1, <2>2
  <1>8. ASSUME NEW i \in DOMAIN connects', connects'[i] # NULL
        PROVE  connects'[i] \in DOMAIN heap' /\ heap'[connects'[i]].id = i
    <2>1. CASE i = id
      BY <1>1, <1>3, <2>1
    <2>2. CASE i # id
      <3>1. connects'[i] = connects[i] /\ i \in DOMAIN connects
        BY <1>1, <2>2
      <3>2. connects[i] \in DOMAIN heap /\ heap[connects[i]].id = i
        BY <1>8, <3>1 DEF Store, TableAgrees
      <3> QED
        BY <1>1, <3>1, <3>2
    <2> QED
      BY <2>1, <2>2
  <1>9. freeList' = IF manager' = "vec"
                    THEN {i \in DOMAIN connects' : connects'[i] = NULL} ELSE {}
    BY <1>1, <1>2 DEF Store, TableAgrees
  <1>10. TableAgrees'
    BY <1>7, <1>8, <1>9 DEF TableAgrees, LookUp
  <1>11. Rest'
    BY <1>1 DEF Rest
  <1>12. Loop'
    BY <1>1 DEF Loop, StaleIsRemoved, HandlerOwnsObject
  <1>13. DisabledIsListed'
    BY <1>1, <1>3 DEF DisabledIsListed
  <1> QED
    BY <1>4, <1>5, <1>10, <1>11, <1>12, <1>13 DEF Store

---------------------------------------------------------------------------
LEMMA DisableKeeps ==
    ASSUME IInv, NEW a \in DOMAIN heap, Disable(a),
           UNCHANGED <<manager, connects, freeList, created, removed, loop, current, crashed>>
    PROVE  IInv'
  <1> USE DEF IInv
  <1>1. /\ DOMAIN heap' = DOMAIN heap
        /\ heap'[a] = [heap[a] EXCEPT !.enabled = FALSE]
        /\ \A b \in DOMAIN heap \ {a} : heap'[b] = heap[b]
        /\ heap' = [b \in DOMAIN heap |-> heap'[b]]
        /\ toDelete' = toDelete \cup {heap[a].id}
    BY DEF Disable, Store, Heap
  <1>2. heap[a] \in Conn
    BY DEF Store, Heap
  <1>3. /\ heap'[a] \in Conn /\ heap'[a].id = heap[a].id
        /\ heap'[a].serial = heap[a].serial /\ heap[a].id \in Ids
    BY <1>1, <1>2 DEF Conn
  <1>4. \A b \in DOMAIN heap : /\ heap'[b].id = heap[b].id /\ heap'[b] \in Conn
                               /\ heap'[b].serial = heap[b].serial
    BY <1>1, <1>3 DEF Store, Heap
  <1>5. Heap'
    BY <1>1, <1>4 DEF Store, Heap
  <1>6. Table' /\ Slots' /\ TableAgrees'
    BY <1>1, <1>4 DEF Store, Table, Slots, TableAgrees, LookUp
  <1>7. Rest'
    BY <1>1, <1>3 DEF Rest, loop
  <1>8. Loop'
    BY <1>1, <1>4 DEF Loop, StaleIsRemoved, HandlerOwnsObject, loop
  <1>9. DisabledIsListed'
    BY <1>1, <1>3 DEF DisabledIsListed
  <1> QED
    BY <1>5, <1>6, <1>7, <1>8, <1>9 DEF Store

LEMMA FoundIsLive ==
    ASSUME Store, NEW id, LookUp(id) # NULL
    PROVE  /\ id \in DOMAIN connects /\ connects[id] = LookUp(id)
           /\ LookUp(id) \in DOMAIN heap /\ heap[LookUp(id)].id = id
  BY DEF Store, TableAgrees, LookUp

LEMMA DispatchToAbsentKeeps ==
    ASSUME IInv, NEW id \in Ids, DispatchToAbsent(id)
    PROVE  IInv'
  <1> USE DEF IInv
  <1>1. /\ UNCHANGED <<manager, heap, connects, freeList, created, removed, loop, current>>
        /\ toDelete \subseteq toDelete' /\ toDelete' \subseteq Ids
    BY DEF DispatchToAbsent, Rest
  <1>2. crashed' \in BOOLEAN
    <2>1. crashed \in BOOLEAN /\ (id \in DOMAIN connects) \in BOOLEAN
      BY DEF Rest
    <2>2. crashed' = crashed \/ crashed' = (id \in DOMAIN connects)
      BY Zenon DEF DispatchToAbsent
    <2> QED
      BY <2>1, <2>2, Zenon
  <1>3. Store'
    BY <1>1 DEF Store, Heap, Table, TableAgrees, Slots, LookUp
  <1>4. Rest' /\ Loop' /\ DisabledIsListed'
    BY <1>1, <1>2 DEF Rest, Loop, StaleIsRemoved, HandlerOwnsObject, DisabledIsListed, loop
  <1> QED
    BY <1>3, <1>4

(* Only a map gets a NULL entry: a vector has no gaps.                     *)
LEMMA BroadcastToAbsentKeeps ==
    ASSUME IInv, NEW id \in Ids, BroadcastToAbsent(id)
    PROVE  IInv'
  <1> USE ConnectionsAssumption DEF IInv
  <1>1. /\ id \notin DOMAIN connects /\ id < Cardinality(DOMAIN connects)
        /\ DOMAIN connects' = DOMAIN connects \cup {id} /\ connects'[id] = NULL
        /\ \A i \in DOMAIN connects : connects'[i] = connects[i]
        /\ connects' = [i \in DOMAIN connects' |-> connects'[i]]
        /\ UNCHANGED <<manager, heap, freeList, toDelete, created, removed, phase, pending,
                       lazyDue, current, crashed>>
    BY DEF BroadcastToAbsent, loop
  <1>2. manager # "vec"
    <2>1. SUFFICES ASSUME manager = "vec" PROVE FALSE
      OBVIOUS
    <2>2. PICK n \in 0..created : DOMAIN connects = 0..(n - 1)
      BY <2>1 DEF Store, Slots
    <2>3. Cardinality(DOMAIN connects) = n
      BY <2>2, FS_Interval DEF Rest
    <2> QED
      BY <1>1, <2>2, <2>3 DEF Ids, Rest
  <1>3. id \in 0..created
    <2>1. DOMAIN connects \subseteq 0..created /\ IsFiniteSet(0..created)
          /\ Cardinality(0..created) = created + 1
      BY <1>2, FS_Interval DEF Store, Slots, Rest
    <2>2. Cardinality(DOMAIN connects) <= created + 1
          /\ Cardinality(DOMAIN connects) \in Nat
      BY <2>1, FS_Subset, FS_CardinalityType
    <2> QED
      BY <1>1, <2>2 DEF Ids, Rest
  <1>4. Slots' /\ Table' /\ Heap'
    BY <1>1, <1>2, <1>3 DEF Store, Slots, Table, Heap
  <1>5. ASSUME NEW a \in DOMAIN heap' PROVE LookUp(heap[a].id)' = a
    <2>1. heap[a].id \in DOMAIN connects /\ connects[heap[a].id] = a
      BY <1>1, SlotOfConnection
    <2> QED
      BY <1>1, <2>1 DEF LookUp
  <1>6. ASSUME NEW i \in DOMAIN connects', connects'[i] # NULL
        PROVE  connects'[i] \in DOMAIN heap' /\ heap'[connects'[i]].id = i
    <2>1. i \in DOMAIN connects /\ connects'[i] = connects[i]
      BY <1>1, <1>6
    <2> QED
      BY <1>1, <1>6, <2>1 DEF Store, TableAgrees
  <1>7. freeList' = {}
    BY <1>1, <1>2 DEF Store, TableAgrees
  <1>8. TableAgrees'
    BY <1>1, <1>2, <1>5, <1>6, <1>7 DEF TableAgrees, LookUp
  <1>9. Rest' /\ Loop' /\ DisabledIsListed'
    BY <1>1 DEF Rest, Loop, StaleIsRemoved, HandlerOwnsObject, DisabledIsListed
  <1> QED
    BY <1>4, <1>8, <1>9 DEF Store

LEMMA EraseByIdKeeps ==
    ASSUME IInv, NEW id \in Ids, EraseConnectById(id)
    PROVE  IInv'
  <1> USE DEF IInv
  <1>1. /\ current # NULL /\ LookUp(id) # NULL /\ LookUp(id) # current.at
        /\ EraseAll({id})
        /\ UNCHANGED <<manager, toDelete, created, phase, pending, lazyDue, current, crashed>>
    BY DEF EraseConnectById, Running, loop
  <1>2. id \in DOMAIN connects /\ connects[id] # NULL /\ connects[id] # current.at
    BY <1>1, FoundIsLive
  <1>3. /\ Store'
        /\ DOMAIN heap' = DOMAIN heap \ {connects[i] : i \in {id}}
        /\ \A a \in DOMAIN heap' : heap'[a] = heap[a]
        /\ removed' = removed \cup {connects[i] : i \in {id}}
        /\ {connects[i] : i \in {id}} \subseteq Addresses
    BY <1>1, <1>2, EraseKeepsStore
  <1>4. StaleIsRemoved'
    BY <1>1, <1>3, EraseKeepsStale DEF Loop
  <1>5. HandlerOwnsObject'
    BY <1>1, <1>2, <1>3 DEF Loop, HandlerOwnsObject
  <1>6. Rest' /\ DisabledIsListed'
    BY <1>1, <1>3 DEF Rest, DisabledIsListed
  <1> QED
    BY <1>3, <1>4, <1>5, <1>6 DEF Loop

LEMMA CloseSelfKeeps ==
    ASSUME IInv, CloseSelf
    PROVE  IInv'
  <1> USE DEF IInv
  <1> DEFINE own == heap[current.at].id
  <1>1. /\ current # NULL /\ current' = NULL /\ EraseAll({own})
        /\ UNCHANGED <<manager, toDelete, created, phase, pending, lazyDue, crashed>>
    BY DEF CloseSelf, Running, loop
  <1>2. own \in DOMAIN connects /\ connects[own] # NULL
    BY <1>1, SlotOfConnection DEF Loop, HandlerOwnsObject
  <1> HIDE DEF own
  <1>3. /\ Store'
        /\ DOMAIN heap' = DOMAIN heap \ {connects[i] : i \in {own}}
        /\ \A a \in DOMAIN heap' : heap'[a] = heap[a]
        /\ removed' = removed \cup {connects[i] : i \in {own}}
        /\ {connects[i] : i \in {own}} \subseteq Addresses
    BY <1>1, <1>2, EraseKeepsStore
  <1>4. Loop'
    BY <1>1, <1>3, EraseKeepsStale DEF Loop, HandlerOwnsObject
  <1>5. Rest' /\ DisabledIsListed'
    BY <1>1, <1>3 DEF Rest, DisabledIsListed
  <1> QED
    BY <1>3, <1>4, <1>5

(* The list is cleared, but every disabled connection is found by it.      *)
LEMMA LazyDeleteKeeps ==
    ASSUME IInv, LazyDelete
    PROVE  IInv'
  <1> USE DEF IInv
  <1>1. /\ current = NULL /\ lazyDue' = FALSE /\ toDelete' = {} /\ EraseAll(Listed)
        /\ UNCHANGED <<manager, created, phase, pending, current, crashed>>
    BY DEF LazyDelete, Idle
  <1>2. \A id \in Listed : id \in DOMAIN connects /\ connects[id] # NULL
    BY FoundIsLive DEF Listed
  <1>3. /\ Store'
        /\ DOMAIN heap' = DOMAIN heap \ {connects[i] : i \in Listed}
        /\ \A a \in DOMAIN heap' : heap'[a] = heap[a]
        /\ removed' = removed \cup {connects[i] : i \in Listed}
        /\ {connects[i] : i \in Listed} \subseteq Addresses
    BY <1>1, <1>2, EraseKeepsStore
  <1>4. Loop'
    BY <1>1, <1>3, EraseKeepsStale DEF Loop, HandlerOwnsObject
  <1>5. ASSUME NEW a \in DOMAIN heap, ~ heap[a].enabled
        PROVE  a \notin DOMAIN heap'
    <2>1. heap[a].id \in toDelete
      BY <1>5 DEF DisabledIsListed
    <2>2. /\ heap[a].id \in DOMAIN connects /\ connects[heap[a].id] = a
          /\ a # NULL
      BY SlotOfConnection
    <2>3. heap[a].id \in Listed
      BY <1>5, <2>1, <2>2 DEF Listed, LookUp
    <2> QED
      BY <1>3, <2>2, <2>3
  <1>6. DisabledIsListed'
    BY <1>3, <1>5 DEF DisabledIsListed
  <1>7. Rest'
    BY <1>1, <1>3 DEF Rest
  <1> QED
    BY <1>3, <1>4, <1>6, <1>7

(* A step that leaves the connections alone.                               *)
LEMMA StoreStays ==
    ASSUME IInv, UNCHANGED <<manager, heap, connects, freeList, toDelete, created>>
    PROVE  Store' /\ DisabledIsListed'
  BY DEF IInv, Store, Heap, Table, TableAgrees, Slots, LookUp, DisabledIsListed

LEMMA LoopKeeps ==
    ASSUME IInv, EpollWait \/ Click \/ NoClick \/ EndLoop
    PROVE  IInv'
  <1> USE DEF IInv
  <1>1. /\ UNCHANGED <<manager, heap, connects, freeList, toDelete, created, current, crashed>>
        /\ phase' \in {"wait", "events", "timers"}
        /\ lazyDue' \in {TRUE, lazyDue}
        /\ removed' \subseteq removed
    <2>1. CASE EpollWait
      BY <2>1 DEF EpollWait, store
    <2>2. CASE Click
      BY <2>2 DEF Click, store
    <2>3. CASE NoClick
      BY <2>3 DEF NoClick, store
    <2>4. CASE EndLoop
      BY <2>4 DEF EndLoop
    <2> QED
      BY <2>1, <2>2, <2>3, <2>4
  <1>2. Store' /\ DisabledIsListed'
    BY <1>1, StoreStays
  <1>3. ASSUME NEW a \in DOMAIN heap, NEW what \in {"read", "write", "timer"}
        PROVE  /\ Of(a, what) \in Event /\ Of(a, what).at = a
               /\ Of(a, what).serial = heap[a].serial
    BY DEF Of, Event, Store, Heap, Conn
  <1>4. \/ pending' = {}
        \/ pending' \subseteq {Of(a, what) : a \in DOMAIN heap,
                                            what \in {"read", "write", "timer"}}
    BY DEF EpollWait, Click, NoClick, EndLoop
  <1>5. Rest'
    <2>1. pending' \subseteq Event
      BY <1>3, <1>4
    <2>2. lazyDue' \in BOOLEAN
      BY <1>1, Zenon DEF Rest
    <2> QED
      BY <1>1, <2>1, <2>2 DEF Rest
  <1>6. Loop'
    BY <1>1, <1>3, <1>4 DEF Loop, StaleIsRemoved, HandlerOwnsObject
  <1> QED
    BY <1>2, <1>5, <1>6

LEMMA NotifyKeeps ==
    ASSUME IInv, NEW e \in pending, NotifyRemoved(e) \/ Notify(e)
    PROVE  IInv'
  <1> USE DEF IInv
  <1>1. /\ UNCHANGED <<manager, heap, connects, freeList, toDelete, created, removed,
                       phase, lazyDue, crashed>>
        /\ pending' \subseteq pending
        /\ \/ current' = current
           \/ current' = [at |-> e.at, serial |-> e.serial] /\ e.at \notin removed
    BY DEF NotifyRemoved, Notify, store
  <1>2. Store' /\ DisabledIsListed'
    BY <1>1, StoreStays
  <1>3. [at |-> e.at, serial |-> e.serial] \in Owner
    BY DEF Rest, Event, Owner
  <1>4. Rest'
    BY <1>1, <1>3 DEF Rest
  <1>5. Loop'
    BY <1>1 DEF Loop, StaleIsRemoved, HandlerOwnsObject
  <1> QED
    BY <1>2, <1>4, <1>5

LEMMA ReturnKeeps ==
    ASSUME IInv, Return \/ UNCHANGED vars \/ (\E id \in Ids : EraseNullById(id))
    PROVE  IInv'
  <1> USE DEF IInv
  <1>1. /\ UNCHANGED <<manager, heap, connects, freeList, toDelete, created, removed,
                       phase, pending, lazyDue>>
        /\ current' \in {current, NULL} /\ crashed' \in {crashed, TRUE}
    BY DEF Return, vars, store, loop, EraseNullById
  <1>2. Store' /\ DisabledIsListed'
    BY <1>1, StoreStays
  <1>3. Rest' /\ Loop'
    BY <1>1 DEF Rest, Loop, StaleIsRemoved, HandlerOwnsObject
  <1> QED
    BY <1>2, <1>3

---------------------------------------------------------------------------
LEMMA InitIInv == Init => IInv
  <1> SUFFICES ASSUME Init PROVE IInv
    OBVIOUS
  <1>1. DOMAIN heap = {} /\ DOMAIN connects = {}
    BY DEF Init
  <1>2. Heap /\ Table /\ TableAgrees /\ Loop /\ DisabledIsListed
    BY <1>1 DEF Init, Heap, Table, TableAgrees, Loop, StaleIsRemoved, HandlerOwnsObject,
       DisabledIsListed
  <1>3. Rest
    <2>1. manager \in Managers /\ created \in 0..MaxConns
      BY ConnectionsAssumption DEF Init
    <2>2. toDelete = {} /\ pending = {} /\ removed = {} /\ current = NULL /\ phase = "wait"
      BY DEF Init
    <2>3. lazyDue \in BOOLEAN /\ crashed \in BOOLEAN
      BY Zenon DEF Init
    <2> QED
      BY <2>1, <2>2, <2>3 DEF Rest
  <1>4. Slots
    <2>1. 0 \in 0..created /\ DOMAIN connects = 0..(0 - 1)
      BY <1>1 DEF Init
    <2> QED
      BY <1>1, <2>1 DEF Slots
  <1> QED
    BY <1>2, <1>3, <1>4 DEF IInv, Store

LEMMA NextIInv == IInv /\ [Next]_vars => IInv'
  <1> SUFFICES ASSUME IInv, [Next]_vars PROVE IInv'
    OBVIOUS
  <1>1. CASE UNCHANGED vars \/ Crashed
    BY <1>1, ReturnKeeps DEF Crashed
  <1>2. ASSUME NEW a \in Addresses, DelayDelConn(a) PROVE IInv'
    BY <1>2, DisableKeeps DEF DelayDelConn
  <1>3. ASSUME NEW id \in Ids, SendFails(id) PROVE IInv'
    <2>1. LookUp(id) \in DOMAIN heap
      BY <1>3, FoundIsLive DEF SendFails, IInv
    <2> QED
      BY <1>3, <2>1, DisableKeeps DEF SendFails
  <1>4. CASE HandlerStep
    BY <1>2, <1>3, <1>4, DispatchToAbsentKeeps, BroadcastToAbsentKeeps, EraseByIdKeeps,
       ReturnKeeps DEF HandlerStep
  <1>5. CASE HandlerEnds
    BY <1>5, ReturnKeeps, CloseSelfKeeps DEF HandlerEnds
  <1>6. CASE LoopStep
    BY <1>6, LoopKeeps, LazyDeleteKeeps, NotifyKeeps DEF LoopStep
  <1> QED
    BY <1>1, <1>4, <1>5, <1>6, CreateKeeps DEF Next

THEOREM Invariant == Spec => []IInv
  BY InitIInv, NextIInv, PTL DEF Spec

(* Every variable keeps its type, for any memory and number of connections *)
(* (src/core/corelib, src/core/sox).                                       *)
THEOREM TypeCorrect == Spec => []TypeOK
  <1>1. IInv => TypeOK
    BY TypesOfParts DEF IInv, Store
  <1> QED
    BY <1>1, Invariant, PTL

(* Every connection is in the slot of its id, and the free ids are those   *)
(* of the empty slots (MultiConnManagerVecImp.cpp, MultiConnManagerImp.cpp)*)
THEOREM TableAndObjects == Spec => []TableAgrees
  <1>1. IInv => TableAgrees
    BY DEF IInv, Store
  <1> QED
    BY <1>1, Invariant, PTL

(* A handler runs on the connection its event was collected for, to its    *)
(* end (selector.cpp:17-34, InnerConn.cpp:54-86).                          *)
THEOREM HandlersOwn == Spec => []HandlerOwnsObject
  <1>1. IInv => HandlerOwnsObject
    BY DEF IInv, Loop
  <1> QED
    BY <1>1, Invariant, PTL

(* No disabled connection escapes the deferred deletion                    *)
(* (ConnManagerLinkImp.cpp:34-54).                                         *)
THEOREM NoneEscapes == Spec => []DisabledIsListed
  <1>1. IInv => DisabledIsListed
    BY DEF IInv
  <1> QED
    BY <1>1, Invariant, PTL

---------------------------------------------------------------------------
(* Serial numbers tell connections apart, also those of one address.       *)
SerialsTell ==
    /\ \A a \in DOMAIN heap : heap[a].serial <= created
    /\ \A a, b \in DOMAIN heap : heap[a].serial = heap[b].serial => a = b

LEMMA SameSerials ==
    ASSUME IInv, SerialsTell, created' = created, DOMAIN heap' \subseteq DOMAIN heap,
           \A a \in DOMAIN heap' : heap'[a].serial = heap[a].serial
    PROVE  SerialsTell'
  BY DEF SerialsTell

LEMMA SerialsStep ==
    ASSUME IInv, SerialsTell, [Next]_vars
    PROVE  SerialsTell'
  <1>0. /\ heap \in [DOMAIN heap -> Conn] /\ created \in Nat
        /\ \A a \in DOMAIN heap : heap[a].serial \in Nat
    BY ConnectionsAssumption DEF IInv, Store, Heap, Rest, Conn, Serials
  <1>1. ASSUME NEW a \in Addresses, NEW id \in Ids, Create(a, id)
        PROVE  SerialsTell'
    <2>1. /\ DOMAIN heap' = DOMAIN heap \cup {a} /\ a \notin DOMAIN heap
          /\ heap'[a].serial = created + 1 /\ created' = created + 1
          /\ \A b \in DOMAIN heap : heap'[b] = heap[b]
      BY <1>1 DEF Create, Enter
    <2> QED
      BY <1>0, <2>1 DEF SerialsTell
  <1>2. ASSUME NEW addresses, Delete(addresses), created' = created
        PROVE  SerialsTell'
    BY <1>2, SameSerials DEF Delete, Without
  <1>3. ASSUME NEW a \in DOMAIN heap, Disable(a), created' = created
        PROVE  SerialsTell'
    <2>1. heap' = [heap EXCEPT ![a].enabled = FALSE]
      BY <1>3 DEF Disable
    <2>2. \A b \in DOMAIN heap : heap'[b].serial = heap[b].serial
      BY <1>0, <2>1 DEF Conn
    <2> QED
      BY <1>0, <1>3, <2>1, <2>2, SameSerials
  <1>4. ASSUME UNCHANGED <<heap, created>> PROVE SerialsTell'
    BY <1>4, SameSerials
  <1>5. ASSUME NEW id, SendFails(id) PROVE LookUp(id) \in DOMAIN heap
    BY <1>5, FoundIsLive DEF SendFails, IInv
  <1>6. CASE HandlerStep
    BY <1>2, <1>3, <1>4, <1>5, <1>6
    DEF HandlerStep, DelayDelConn, SendFails, DispatchToAbsent, BroadcastToAbsent,
        EraseConnectById, EraseNullById, EraseAll, store
  <1>7. CASE HandlerEnds
    BY <1>2, <1>4, <1>7 DEF HandlerEnds, Return, CloseSelf, EraseAll, store
  <1>8. CASE LoopStep
    BY <1>2, <1>4, <1>8
    DEF LoopStep, EpollWait, Click, NoClick, LazyDelete, EndLoop, NotifyRemoved, Notify,
        EraseAll, store
  <1>9. CASE Crashed \/ UNCHANGED vars
    BY <1>4, <1>9 DEF Crashed, vars, store
  <1> QED
    BY <1>1, <1>6, <1>7, <1>8, <1>9 DEF Next

(* ++serialId gives no two connections that live one number, so that a     *)
(* handler is known by it (HandlerOwnsObject) whoever lies at its address  *)
(* (MultiConnManagerImp.cpp:17-28, MultiConnManagerVecImp.cpp:18-40).      *)
THEOREM SerialsTellApart == Spec => []SerialsTell
  <1>1. Init => SerialsTell
    BY DEF Init, SerialsTell
  <1>2. IInv /\ SerialsTell /\ [Next]_vars => SerialsTell'
    BY SerialsStep
  <1> QED
    BY <1>1, <1>2, Invariant, PTL DEF Spec

---------------------------------------------------------------------------
(* Every loop starts with nothing removed and nothing to deliver.  What is *)
(* pending was collected for a connection that is not newer than the last; *)
(* if its address is among those removed, that connection is gone.         *)
ExactInv ==
    /\ phase = "wait" => removed = {} /\ pending = {} /\ current = NULL /\ ~ lazyDue
    /\ phase = "events" => \A e \in pending : /\ e.serial <= created
                                              /\ e.at \in removed => ~ IsAlive(e)

(* What makes no connection and collects nothing deletes, or leaves alone. *)
LEMMA ExactStays ==
    ASSUME ExactInv, phase # "wait", UNCHANGED <<phase, created>>, pending' \subseteq pending,
           NEW gone, DOMAIN heap' = DOMAIN heap \ gone,
           \A a \in DOMAIN heap' : heap'[a].serial = heap[a].serial,
           removed' = removed \cup gone
    PROVE  ExactInv'
  <1>1. ASSUME NEW e \in pending', phase = "events"
        PROVE  e.serial <= created' /\ (e.at \in removed' => ~ IsAlive(e)')
    <2>1. e.serial <= created /\ (e.at \in removed => ~ IsAlive(e))
      BY <1>1 DEF ExactInv
    <2>2. IsAlive(e)' => IsAlive(e) /\ e.at \notin gone
      BY DEF IsAlive
    <2> QED
      BY <2>1, <2>2
  <1> QED
    BY <1>1 DEF ExactInv

LEMMA ExactCreate ==
    ASSUME IInv, ExactInv, NEW a \in Addresses, NEW id \in Ids, Create(a, id)
    PROVE  ExactInv'
  <1>1. /\ DOMAIN heap' = DOMAIN heap \cup {a} /\ a \notin DOMAIN heap
        /\ heap'[a].serial = created + 1 /\ created' = created + 1
        /\ \A b \in DOMAIN heap : heap'[b] = heap[b]
        /\ UNCHANGED <<removed, phase, pending>> /\ phase # "wait"
    BY DEF Create, Enter, loop
  <1>2. ASSUME NEW e \in pending, phase = "events"
        PROVE  e.serial <= created' /\ (e.at \in removed' => ~ IsAlive(e)')
    <2>1. e.serial <= created /\ (e.at \in removed => ~ IsAlive(e))
      BY <1>2 DEF ExactInv
    <2>2. e.serial \in Nat /\ created \in Nat
      BY ConnectionsAssumption DEF IInv, Rest, Event, Serials
    <2>3. e.serial <= created' /\ e.serial # created + 1
      BY <1>1, <2>1, <2>2
    <2>4. IsAlive(e)' => IsAlive(e)
      BY <1>1, <2>3 DEF IsAlive
    <2> QED
      BY <1>1, <2>1, <2>3, <2>4
  <1> QED
    BY <1>1, <1>2 DEF ExactInv

LEMMA ExactErase ==
    ASSUME IInv, ExactInv, phase # "wait", UNCHANGED <<phase, created>>,
           pending' \subseteq pending, NEW ids, EraseAll(ids)
    PROVE  ExactInv'
  <1> DEFINE gone == {connects[id] : id \in ids}
  <1>1. /\ DOMAIN heap' = DOMAIN heap \ gone /\ removed' = removed \cup gone
        /\ \A a \in DOMAIN heap' : heap'[a] = heap[a]
    BY DEF EraseAll, Delete, Without
  <1> HIDE DEF gone
  <1> QED
    BY <1>1, ExactStays

LEMMA ExactDisable ==
    ASSUME IInv, ExactInv, phase # "wait", UNCHANGED <<phase, created, pending, removed>>,
           NEW a \in DOMAIN heap, Disable(a)
    PROVE  ExactInv'
  <1>1. heap \in [DOMAIN heap -> Conn] /\ heap' = [heap EXCEPT ![a].enabled = FALSE]
    BY DEF IInv, Store, Heap, Disable
  <1>2. DOMAIN heap' = DOMAIN heap \ {}
        /\ \A b \in DOMAIN heap' : heap'[b].serial = heap[b].serial
    BY <1>1 DEF Conn
  <1>3. \A e \in pending : IsAlive(e)' <=> IsAlive(e)
    BY <1>2 DEF IsAlive
  <1> QED
    BY <1>3 DEF ExactInv

LEMMA ExactSame ==
    ASSUME ExactInv, phase # "wait", UNCHANGED <<phase, created, removed, heap>>,
           pending' \subseteq pending
    PROVE  ExactInv'
  BY DEF ExactInv, IsAlive

(* epoll_wait collects for the living, and nobody is removed yet.          *)
LEMMA ExactEpoll ==
    ASSUME IInv, SerialsTell, ExactInv, EpollWait
    PROVE  ExactInv'
  <1>1. removed' = {} /\ phase' = "events" /\ created' = created
    BY DEF EpollWait, ExactInv, store
  <1>2. \A e \in pending' : \E a \in DOMAIN heap : e.serial = heap[a].serial
    BY DEF EpollWait, Of
  <1> QED
    BY <1>1, <1>2 DEF ExactInv, SerialsTell

LEMMA ExactStep ==
    ASSUME IInv, SerialsTell, ExactInv, [Next]_vars
    PROVE  ExactInv'
  <1>1. CASE HandlerStep
    <2>1. phase # "wait" /\ UNCHANGED <<phase, created, pending>>
      BY <1>1 DEF ExactInv, HandlerStep, DelayDelConn, SendFails, DispatchToAbsent,
         BroadcastToAbsent, EraseConnectById, EraseNullById, Running, loop
    <2>2. ASSUME NEW a \in Addresses, DelayDelConn(a) PROVE ExactInv'
      BY <2>1, <2>2, ExactDisable DEF DelayDelConn
    <2>3. ASSUME NEW id \in Ids, SendFails(id) PROVE ExactInv'
      <3>1. LookUp(id) \in DOMAIN heap
        BY <2>3, FoundIsLive DEF SendFails, IInv
      <3> QED
        BY <2>1, <2>3, <3>1, ExactDisable DEF SendFails
    <2>4. ASSUME NEW id \in Ids, EraseConnectById(id) PROVE ExactInv'
      BY <2>1, <2>4, ExactErase DEF EraseConnectById
    <2>5. ASSUME NEW id \in Ids,
                 DispatchToAbsent(id) \/ BroadcastToAbsent(id) \/ EraseNullById(id)
          PROVE  ExactInv'
      BY <2>1, <2>5, ExactSame DEF DispatchToAbsent, BroadcastToAbsent, EraseNullById, store
    <2> QED
      BY <1>1, <2>2, <2>3, <2>4, <2>5 DEF HandlerStep
  <1>2. CASE HandlerEnds
    <2>1. phase # "wait" /\ UNCHANGED <<phase, created, pending>>
      BY <1>2 DEF ExactInv, HandlerEnds, Return, CloseSelf, Running, loop
    <2>2. CASE Return
      BY <2>1, <2>2, ExactSame DEF Return, store
    <2>3. CASE CloseSelf
      BY <2>1, <2>3, ExactErase DEF CloseSelf
    <2> QED
      BY <1>2, <2>2, <2>3 DEF HandlerEnds
  <1>3. CASE Click \/ NoClick
    <2>1. phase' = "timers"
      BY <1>3 DEF Click, NoClick
    <2> QED
      BY <2>1 DEF ExactInv
  <1>4. CASE LazyDelete
    BY <1>4, ExactErase DEF LazyDelete, ExactInv
  <1>5. CASE EndLoop
    BY <1>5 DEF EndLoop, Idle, ExactInv
  <1>6. ASSUME NEW e \in pending, NotifyRemoved(e) \/ Notify(e) PROVE ExactInv'
    <2>1. phase # "wait"
      BY DEF ExactInv
    <2> QED
      BY <1>6, <2>1, ExactSame DEF NotifyRemoved, Notify, store
  <1>7. CASE Crashed \/ UNCHANGED vars
    BY <1>7 DEF Crashed, vars, store, loop, ExactInv, IsAlive
  <1> QED
    BY <1>1, <1>2, <1>3, <1>4, <1>5, <1>6, <1>7, ExactEpoll, ExactCreate DEF Next, LoopStep

(* Of the reads and writes that wait, isRemoved finds those of connections *)
(* that are gone, all of them and no others, whoever lies at the address   *)
(* now (selector.cpp:17-23, selector.h:59-62, Selector_epoll.cpp:157-169). *)
THEOREM RemovedExact == Spec => []RemovedIsExact
  <1>1. Init => ExactInv
    BY DEF Init, ExactInv
  <1>2. IInv /\ SerialsTell /\ ExactInv /\ [Next]_vars => ExactInv'
    BY ExactStep
  <1>3. IInv /\ ExactInv => RemovedIsExact
    BY DEF IInv, Loop, StaleIsRemoved, ExactInv, RemovedIsExact, IsAlive
  <1> QED
    BY <1>1, <1>2, <1>3, Invariant, SerialsTellApart, PTL DEF Spec

---------------------------------------------------------------------------
(* dispatchByIds of the map at ids it has not.                             *)
BroadcastsAmiss == manager = "map" /\ \E id \in Ids : BroadcastToAbsent(id)

NoNulls == manager = "map" => \A id \in DOMAIN connects : connects[id] # NULL

NullInv == NoNulls /\ ~ crashed

LEMMA NullStep ==
    ASSUME IInv, NullInv, Next, ~ BroadcastsAmiss
    PROVE  NullInv'
  <1>1. ASSUME NEW a \in Addresses, NEW id \in Ids, Create(a, id)
        PROVE  NullInv'
    BY <1>1, ConnectionsAssumption DEF Create, Enter, NullInv, NoNulls
  <1>2. ASSUME NEW ids, Unlink(ids), UNCHANGED <<manager, crashed>>
        PROVE  NullInv'
    BY <1>2 DEF Unlink, Without, NullInv, NoNulls
  <1>3. ASSUME UNCHANGED <<manager, connects, crashed>> PROVE NullInv'
    BY <1>3 DEF NullInv, NoNulls
  <1>4. ASSUME NEW id \in Ids, DispatchToAbsent(id)
        PROVE  NullInv'
    <2>1. UNCHANGED <<manager, connects>> /\ ~ crashed
      BY <1>4 DEF DispatchToAbsent, NullInv
    <2>2. CASE manager = "vec"
      BY <1>4, <2>1, <2>2 DEF DispatchToAbsent, NullInv, NoNulls
    <2>3. CASE manager # "vec"
      <3>1. id \notin DOMAIN connects
        BY <1>4, <2>3, ConnectionsAssumption
        DEF DispatchToAbsent, LookUp, NullInv, NoNulls, IInv, Rest
      <3>2. ~ crashed'
        BY <1>4, <2>3, <3>1 DEF DispatchToAbsent
      <3> QED
        BY <2>1, <3>2 DEF NullInv, NoNulls
    <2> QED
      BY <2>2, <2>3
  <1>5. ASSUME NEW id \in Ids, BroadcastToAbsent(id) PROVE NullInv'
    BY <1>5 DEF BroadcastsAmiss, BroadcastToAbsent, NullInv, NoNulls
  <1>6. \A id \in Ids : ~ EraseNullById(id)
    BY DEF EraseNullById, NullInv, NoNulls
  <1>7. CASE HandlerStep
    BY <1>2, <1>3, <1>4, <1>5, <1>6, <1>7
    DEF HandlerStep, DelayDelConn, SendFails, EraseConnectById, EraseAll
  <1>8. CASE HandlerEnds
    BY <1>2, <1>3, <1>8 DEF HandlerEnds, Return, CloseSelf, EraseAll, store
  <1>9. CASE LoopStep
    BY <1>2, <1>3, <1>9
    DEF LoopStep, EpollWait, Click, NoClick, LazyDelete, EndLoop, NotifyRemoved, Notify,
        EraseAll, store
  <1>10. CASE Crashed
    BY <1>10 DEF Crashed, NullInv
  <1> QED
    BY <1>1, <1>7, <1>8, <1>9, <1>10 DEF Next

(* No method of a NULL connection is ever called but for dispatchByIds of  *)
(* the map, which makes the NULL entry (MultiConnManagerImp.cpp:57, 107),  *)
(* and which nothing in the repository calls.                              *)
THEOREM OnlyBroadcastsCrash == Spec /\ [][~ BroadcastsAmiss]_vars => []NoNullCall
  <1>1. Init => NullInv
    BY DEF Init, NullInv, NoNulls
  <1>2. IInv /\ NullInv /\ [Next]_vars /\ [~ BroadcastsAmiss]_vars => NullInv'
    <2>1. NullInv /\ UNCHANGED vars => NullInv'
      BY DEF vars, store, NullInv, NoNulls
    <2> QED
      BY <2>1, NullStep
  <1>3. NullInv => NoNullCall
    BY DEF NullInv, NoNullCall
  <1> QED
    BY <1>1, <1>2, <1>3, Invariant, PTL DEF Spec
=============================================================================
