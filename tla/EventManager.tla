---------------------------- MODULE EventManager ----------------------------
(***************************************************************************)
(* The event queue of the client: EventManager.{h,cpp} and the Event       *)
(* record.  Everything that happens in a frame is raised here as an event  *)
(* and handled when the main loop drains the queue.  std::priority_queue   *)
(* promises nothing about the order of events with equal timestamps, so    *)
(* any earliest event may come out.                                        *)
(***************************************************************************)
EXTENDS Integers, FiniteSets, Bags

CONSTANTS
  Dangling       \* a pointer to an EventHandler that has been deleted

VARIABLES
  queue,         \* the pending events, a bag: equal events may be pending twice
  scrambled,     \* a NaN timestamp has spoilt the heap order of the queue
  handlers       \* guid -> the board slot whose handler is registered for it

managerVars == <<queue, scrambled, handlers>>

\* The guid of an event that goes to the watchers of its type, and the value
\* of an INTENDED_GUID argument that is not there.
Broadcast == -1
NoTarget == -1

AddressedTypes ==
  {"KEYBOARD_INPUT", "SHOOT", "MOVE", "MOVE_DOWN", "MOVE_LAT",
   "SHOOT_LANE", "SHOOT_RANDOM", "COLLISION_ENEMY", "COLLISION_PLAYER",
   "COLLISION_BOUND", "ENEMY_DIED"}

BroadcastTypes == {"PLAYER_DIED", "UPDATE_SCORE", "PLAYER_LOST_LIFE", "WON"}

\* An event with the INTENDED_GUID argument set, and one without it.
EventAt(type, guid, time, intended) ==
  [eventType |-> type, associatedGUID |-> guid, timestamp |-> time,
   intendedGUID |-> intended]

Event(type, guid, time) == EventAt(type, guid, time, NoTarget)

Pending == DOMAIN queue

PendingOf(type) == {e \in Pending : e.eventType = type}

\* Mutant: the comparison of std::priority_queue the other way round.
LatestFirst(e, f) == e.timestamp >= f.timestamp

\* CompareEvent: e comes no later than f.
NoLater(e, f) == e.timestamp <= f.timestamp

\* queue.top(): an event with the least timestamp, ties in any order.
Top(e) ==
  /\ e \in Pending
  /\ scrambled \/ \A f \in Pending : NoLater(e, f)

\* raise(event), for a set of different events raised together.
Raise(events) == queue (+) SetToBag(events)

\* Mutant: a queue that keeps equal events only once.
OnlyOnce(e, events) == SetToBag((Pending \ {e}) \cup events)

\* pop() of event e, and raise(event) for each of events while e is handled.
PopAndRaise(e, events) == (queue (-) SetToBag({e})) (+) SetToBag(events)

\* addToHandlers(guid, handler)
AddToHandlers(guid, slot) ==
  [g \in DOMAIN handlers \cup {guid} |->
     IF g = guid THEN slot ELSE handlers[g]]

\* The map keeps the pointers to handlers that cleanUp() deletes.
DanglingHandlers(slots) ==
  [g \in DOMAIN handlers |->
     IF handlers[g] \in slots THEN Dangling ELSE handlers[g]]
=============================================================================
