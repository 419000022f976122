---------------------------- MODULE Connections ----------------------------
(***************************************************************************)
(* Connections and the loop that serves them: InnerConn, the two managers  *)
(* MultiConnManagerImp ("map") and MultiConnManagerVecImp ("vec"), the     *)
(* deferred deletion of LazyDelConnManager (src/core/corelib), and the     *)
(* loop of Selector_epoll with the list of handlers that were removed in   *)
(* it (src/core/sox).                                                      *)
(*                                                                         *)
(* All of it runs in one thread.  What interleaves is the work of one      *)
(* handler, which may close any connection, with the events the loop has   *)
(* collected and not yet delivered, and the reuse of connection ids and    *)
(* of memory.  A handler is not one action: between Notify and its return  *)
(* it may call the manager any number of times.                            *)
(***************************************************************************)
EXTENDS Naturals, FiniteSets

CONSTANTS
    Addresses,    \* where connection objects may lie
    Managers,     \* the managers considered, of "map" and "vec"
    MaxConns,     \* bound: connections ever made
    NULL          \* no connection

ASSUME ConnectionsAssumption ==
    /\ Managers \subseteq {"map", "vec"}
    /\ MaxConns \in Nat
    /\ IsFiniteSet(Addresses)
    /\ NULL \notin Addresses

VARIABLES
    manager,      \* which manager this is
    heap,         \* the connection objects, by address
    connects,     \* the manager: address, or NULL, by connection id
    freeList,     \* "vec": ids to be used again
    toDelete,     \* ids whose connections are to be deleted, if disabled
    created,      \* the last serial id given ("map": the last id as well)
    phase,        \* of the loop: "wait", "events" or "timers"
    pending,      \* events and timers collected and not yet delivered
    lazyDue,      \* has the manager's own timer fired?
    removed,      \* m_removed: the addresses of handlers gone in this loop
    current,      \* the connection whose handler runs, or NULL
    crashed       \* has a method of a NULL connection been called?

store == <<heap, connects, freeList, toDelete, removed>>
loop == <<phase, pending, lazyDue>>
vars == <<manager, store, created, loop, current, crashed>>

Ids == 0..MaxConns
Serials == 1..MaxConns
Conn == [id : Ids, serial : Serials, enabled : BOOLEAN]
Event == [at : Addresses, serial : Serials, what : {"read", "write", "timer"}]
Owner == [at : Addresses, serial : Serials]

(* getConnectById                                                          *)
LookUp(id) == IF id \in DOMAIN connects THEN connects[id] ELSE NULL

Without(f, gone) == [x \in DOMAIN f \ gone |-> f[x]]

Init ==
    /\ manager \in Managers
    /\ heap = [a \in {} |-> NULL]
    /\ connects = [id \in {} |-> NULL]
    /\ freeList = {}
    /\ toDelete = {}
    /\ created = 0
    /\ phase = "wait"
    /\ pending = {}
    /\ lazyDue = FALSE
    /\ removed = {}
    /\ current = NULL
    /\ crashed = FALSE

---------------------------------------------------------------------------
(* eraseConnect and eraseConnectById of connections in the table: the slot *)
(* is given up and the object deleted; ~Handler records its address.       *)
UnlinkKeepsSlot(ids) ==      \* mutant: the slot keeps the deleted connection
    /\ connects' = IF manager = "vec" THEN connects ELSE Without(connects, ids)
    /\ freeList' = IF manager = "vec" THEN freeList \cup ids ELSE freeList
Unlink(ids) ==
    /\ connects' = IF manager = "vec"
                   THEN [id \in DOMAIN connects |->
                            IF id \in ids THEN NULL ELSE connects[id]]
                   ELSE Without(connects, ids)
    /\ freeList' = IF manager = "vec" THEN freeList \cup ids ELSE freeList

DeleteUnrecorded(addresses) ==         \* mutant: ~Handler records nothing
    /\ heap' = Without(heap, addresses)
    /\ UNCHANGED removed
Delete(addresses) ==
    /\ heap' = Without(heap, addresses)
    /\ removed' = removed \cup addresses

EraseAll(ids) ==
    /\ Unlink(ids)
    /\ Delete({connects[id] : id \in ids})

(* setEnable(false) and an entry in toDelete.                              *)
DisableOnly(a) ==            \* mutant: the connection is not listed
    /\ heap' = [heap EXCEPT ![a].enabled = FALSE]
    /\ UNCHANGED toDelete
Disable(a) ==
    /\ heap' = [heap EXCEPT ![a].enabled = FALSE]
    /\ toDelete' = toDelete \cup {heap[a].id}

---------------------------------------------------------------------------
(* What a handler may do: createServerConn and createClientConn, with      *)
(* onConnCreate; DelayDelConn; dispatchById; one id of dispatchByIds;      *)
(* eraseConnectById, of another connection than the handler's own.         *)
Running == current # NULL /\ ~ crashed

EnterPostIncrement(a, id) ==           \* mutant: serialId++ for ++serialId
    /\ heap' = [b \in DOMAIN heap \cup {a} |->
                   IF b = a THEN [id |-> id, serial |-> created, enabled |-> TRUE]
                            ELSE heap[b]]
    /\ connects' = [i \in DOMAIN connects \cup {id} |-> IF i = id THEN a ELSE connects[i]]
    /\ created' = created + 1
Enter(a, id) ==
    /\ heap' = [b \in DOMAIN heap \cup {a} |->
                   IF b = a THEN [id |-> id, serial |-> created + 1, enabled |-> TRUE]
                            ELSE heap[b]]
    /\ connects' = [i \in DOMAIN connects \cup {id} |-> IF i = id THEN a ELSE connects[i]]
    /\ created' = created + 1

NewId(id) ==
    IF manager = "map" THEN id = created + 1
    ELSE IF freeList = {} THEN id = Cardinality(DOMAIN connects)
    ELSE id \in freeList

Create(a, id) ==
    /\ phase # "wait" /\ ~ crashed
    /\ created < MaxConns
    /\ a \notin DOMAIN heap
    /\ NewId(id)
    /\ Enter(a, id)
    /\ freeList' = freeList \ {id}
    /\ UNCHANGED <<manager, toDelete, removed, loop, current, crashed>>

DelayDelConn(a) ==
    /\ Running
    /\ a \in DOMAIN heap
    /\ Disable(a)
    /\ UNCHANGED <<manager, connects, freeList, created, removed, loop, current, crashed>>

(* A send of dispatchById or dispatchByIds throws.  A disabled connection  *)
(* sends nothing, so only an enabled one can fail.                         *)
SendFails(id) ==
    /\ Running
    /\ LookUp(id) # NULL
    /\ heap[LookUp(id)].enabled
    /\ Disable(LookUp(id))
    /\ UNCHANGED <<manager, connects, freeList, created, removed, loop, current, crashed>>

DispatchToAbsent(id) ==
    /\ Running
    /\ LookUp(id) = NULL
    /\ IF manager = "vec"
       THEN /\ toDelete' = toDelete \cup {id}
            /\ UNCHANGED crashed
       ELSE /\ crashed' = (id \in DOMAIN connects)
            /\ UNCHANGED toDelete
    /\ UNCHANGED <<manager, heap, connects, freeList, created, removed, loop, current>>

(* dispatchByIds compares the id with the number of entries, and reading   *)
(* the map at an id it has not makes a NULL entry.                         *)
BroadcastToAbsent(id) ==
    /\ Running
    /\ id < Cardinality(DOMAIN connects)
    /\ id \notin DOMAIN connects
    /\ connects' = [i \in DOMAIN connects \cup {id} |->
                       IF i = id THEN NULL ELSE connects[i]]
    /\ UNCHANGED <<manager, heap, freeList, toDelete, created, removed, loop, current,
                   crashed>>

EraseConnectById(id) ==
    /\ Running
    /\ LookUp(id) \notin {NULL, current.at}
    /\ EraseAll({id})
    /\ UNCHANGED <<manager, toDelete, created, loop, current, crashed>>

EraseNullById(id) ==
    /\ Running
    /\ manager = "map"
    /\ id \in DOMAIN connects /\ connects[id] = NULL
    /\ crashed' = TRUE
    /\ UNCHANGED <<manager, store, created, loop, current>>

(* The handler returns, or ends with onClose, onInitiativeClose, onError   *)
(* or onTimeout, which erase the connection itself.                        *)
Return ==
    /\ Running
    /\ current' = NULL
    /\ UNCHANGED <<manager, store, created, loop, crashed>>

CloseSelf ==
    /\ Running
    /\ EraseAll({heap[current.at].id})
    /\ current' = NULL
    /\ UNCHANGED <<manager, toDelete, created, loop, crashed>>

HandlerStep ==
    \/ \E a \in Addresses : DelayDelConn(a)
    \/ \E id \in Ids :
          \/ SendFails(id) \/ DispatchToAbsent(id)
          \/ BroadcastToAbsent(id) \/ EraseConnectById(id)
          \/ EraseNullById(id)

HandlerEnds == Return \/ CloseSelf

---------------------------------------------------------------------------
(* The loop: collect events, deliver them, collect the timers that have    *)
(* fired if time has passed, deliver them, forget who was removed.         *)
Idle == current = NULL /\ ~ crashed
Of(a, what) == [at |-> a, serial |-> heap[a].serial, what |-> what]

EpollWait ==
    /\ phase = "wait" /\ ~ crashed
    /\ pending' \in SUBSET {Of(a, what) : a \in DOMAIN heap, what \in {"read", "write"}}
    /\ phase' = "events"
    /\ UNCHANGED <<manager, store, created, lazyDue, current, crashed>>

ReadComesFirst(e) == e.what = "write" => [e EXCEPT !.what = "read"] \notin pending

(* notify_event                                                            *)
NotifyRemoved(e) ==
    /\ Idle
    /\ e.at \in removed
    /\ ReadComesFirst(e)
    /\ pending' = pending \ {e}
    /\ UNCHANGED <<manager, store, created, phase, lazyDue, current, crashed>>

Notify(e) ==
    /\ Idle
    /\ e.at \notin removed
    /\ ReadComesFirst(e)
    /\ pending' = pending \ {e}
    /\ current' = [at |-> e.at, serial |-> e.serial]
    /\ UNCHANGED <<manager, store, created, phase, lazyDue, crashed>>

(* check_timout_run.  The manager's timer is of 10 ms, which every click   *)
(* of the clock exceeds, and is armed again whenever it fires.             *)
Click ==
    /\ phase = "events" /\ pending = {} /\ Idle
    /\ pending' \in SUBSET {Of(a, "timer") : a \in DOMAIN heap}
    /\ lazyDue' = TRUE
    /\ phase' = "timers"
    /\ UNCHANGED <<manager, store, created, current, crashed>>

NoClick ==
    /\ phase = "events" /\ pending = {} /\ Idle
    /\ phase' = "timers"
    /\ UNCHANGED <<manager, store, created, pending, lazyDue, current, crashed>>

(* LazyDelConnManager::handle                                              *)
Listed == {id \in toDelete : LookUp(id) # NULL /\ ~ heap[LookUp(id)].enabled}

LazyDeleteStops ==           \* mutant: an absent connection ends the loop
    /\ Idle /\ lazyDue
    /\ EraseAll(IF \E id \in toDelete : LookUp(id) = NULL THEN {} ELSE Listed)
    /\ toDelete' = {}
    /\ lazyDue' = FALSE
    /\ UNCHANGED <<manager, created, phase, pending, current, crashed>>
LazyDelete ==
    /\ Idle /\ lazyDue
    /\ EraseAll(Listed)
    /\ toDelete' = {}
    /\ lazyDue' = FALSE
    /\ UNCHANGED <<manager, created, phase, pending, current, crashed>>

EndLoopKeepsRemoved ==       \* mutant: clearRemoved is not called
    /\ phase = "timers" /\ pending = {} /\ ~ lazyDue /\ Idle
    /\ phase' = "wait"
    /\ UNCHANGED <<manager, store, created, pending, lazyDue, current, crashed>>
EndLoop ==
    /\ phase = "timers" /\ pending = {} /\ ~ lazyDue /\ Idle
    /\ removed' = {}
    /\ phase' = "wait"
    /\ UNCHANGED <<manager, heap, connects, freeList, toDelete, created, pending, lazyDue,
                   current, crashed>>

LoopStep ==
    \/ EpollWait \/ Click \/ NoClick \/ LazyDelete \/ EndLoop
    \/ \E e \in pending : NotifyRemoved(e) \/ Notify(e)

Crashed == crashed /\ UNCHANGED vars

Next ==
    \/ \E a \in Addresses, id \in Ids : Create(a, id)
    \/ HandlerStep \/ HandlerEnds \/ LoopStep \/ Crashed

Spec == Init /\ [][Next]_vars

(* The loop goes on, handlers return, and time passes.                     *)
FairSpec ==
    /\ Spec
    /\ WF_vars(HandlerEnds) /\ WF_vars(LoopStep) /\ SF_vars(Click) /\ WF_vars(LazyDelete)

---------------------------------------------------------------------------
(* Types; a connection knows its id, which names it alone.                 *)
TypeOK ==
    /\ manager \in Managers
    /\ DOMAIN heap \subseteq Addresses
    /\ heap \in [DOMAIN heap -> Conn]
    /\ DOMAIN connects \subseteq Ids
    /\ connects \in [DOMAIN connects -> Addresses \cup {NULL}]
    /\ freeList \subseteq Ids
    /\ toDelete \subseteq Ids
    /\ created \in 0..MaxConns
    /\ phase \in {"wait", "events", "timers"}
    /\ pending \subseteq Event
    /\ lazyDue \in BOOLEAN
    /\ removed \subseteq Addresses
    /\ current \in Owner \cup {NULL}
    /\ crashed \in BOOLEAN

(* The table and the objects agree (MultiConnManagerVecImp.cpp:18-40,      *)
(* 127-140; MultiConnManagerImp.cpp:17-28, 119-124): every connection is   *)
(* in the slot of its id and nothing else is in any slot; the ids to be    *)
(* used again are those of the empty slots of the vector.                  *)
TableAgrees ==
    /\ \A a \in DOMAIN heap : LookUp(heap[a].id) = a
    /\ \A id \in DOMAIN connects : connects[id] # NULL =>
          connects[id] \in DOMAIN heap /\ heap[connects[id]].id = id
    /\ freeList = IF manager = "vec" THEN {id \in DOMAIN connects : connects[id] = NULL}
                                     ELSE {}

(* A handler runs on the connection its event was collected for, to its    *)
(* end (selector.cpp:17-34, InnerConn.cpp:54-86): never on one deleted     *)
(* since, nor on another that has taken its place in memory.               *)
HandlerOwnsObject ==
    current # NULL => /\ current.at \in DOMAIN heap
                      /\ heap[current.at].serial = current.serial

(* m_removed tells exactly which of the collected reads and writes are     *)
(* stale (selector.cpp:17-23, selector.h:59-62, 67-80,                     *)
(* Selector_epoll.cpp:157-169): none is delivered to another connection,   *)
(* and none of a connection that lives is dropped, although handlers close *)
(* one another's connections and new ones take their places in memory.     *)
(* Timers are left out: one of a connection made in this loop at an        *)
(* address in m_removed is dropped (README, section 5).                    *)
IsAlive(e) == e.at \in DOMAIN heap /\ heap[e.at].serial = e.serial
RemovedIsExact ==
    phase = "events" => \A e \in pending : e.at \in removed <=> ~ IsAlive(e)

(* A connection that was disabled is on the list of those to be deleted,   *)
(* whichever of its paths disabled it (ConnManagerLinkImp.cpp:49-54,       *)
(* dispatchById, dispatchByIds), even if its id was on the list for an     *)
(* earlier connection and the list was cleared since.                      *)
DisabledIsListed ==
    \A a \in DOMAIN heap : ~ heap[a].enabled => heap[a].id \in toDelete

(* A disabled connection is deleted in the end, unless the process crashes *)
(* (ConnManagerLinkImp.cpp:34-47).                                         *)
IsDisabled(a, s) == a \in DOMAIN heap /\ heap[a].serial = s /\ ~ heap[a].enabled
DisabledIsDeleted ==
    \A a \in Addresses, s \in Serials : IsDisabled(a, s) ~> (~ IsDisabled(a, s) \/ crashed)

(* Nobody calls a method of an absent connection                           *)
(* (MultiConnManagerImp.cpp:57-70, 100-113).                               *)
NoNullCall == ~ crashed
=============================================================================
