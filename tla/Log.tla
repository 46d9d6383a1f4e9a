-------------------------------- MODULE Log --------------------------------
(***************************************************************************)
(* lib/log.c: an event goes to stderr and to the callbacks of a table,     *)
(* under the lock of the program if it has given one.                      *)
(*                                                                         *)
(* The configuring functions take no lock: the program calls them before   *)
(* its threads log.  log_log is a loop over the sinks: slot 0 is stderr,   *)
(* slot n the n-th callback.  The broken-down time is localtime's static   *)
(* one, which every event in every thread points to.                       *)
(*                                                                         *)
(* callbacks has the slots with a function, which are the first ones, and  *)
(* at most MAX_CALLBACKS (AddCallback): the loop, which ends at a slot     *)
(* without a function or at the end of the table, ends at its length.      *)
(***************************************************************************)
EXTENDS Naturals, Sequences, FiniteSets

CONSTANTS
  Threads, NoThread,
  Levels,          \* numbers, LOG_TRACE is 0
  MAX_CALLBACKS,
  MaxEvents,       \* bound: the events logged
  MaxTime          \* bound: the seconds that pass

ASSUME LogAssumption ==
  /\ Levels \subseteq Nat /\ MAX_CALLBACKS \in Nat /\ MaxEvents \in Nat /\ MaxTime \in Nat
  /\ NoThread \notin Threads

VARIABLES
  level, quiet,    \* L.level, L.quiet
  callbacks,       \* the levels of L.callbacks, up to the first whose fn is NULL
  hasLock,         \* L.lock is set
  ret,             \* what log_add_callback gave
  started,         \* the configuration is over
  owner,           \* the thread that has the lock
  pc, slot, event, \* of each thread; an event is its number, level and time
  got,             \* of each slot, what was written there
  done,            \* the events whose call has returned
  tm,              \* localtime's static structure
  now

config == <<level, quiet, callbacks, hasLock, ret, started>>
vars == <<config, owner, pc, slot, event, got, done, tm, now>>

Slots == 0 .. MAX_CALLBACKS
NoEvent == [id |-> 0, level |-> 0, timed |-> FALSE]

-----------------------------------------------------------------------------
SetLock == hasLock' = TRUE /\ UNCHANGED <<level, quiet, callbacks, ret, started>>
SetLevel(l) == level' = l /\ UNCHANGED <<quiet, callbacks, hasLock, ret, started>>
SetQuiet(b) == quiet' = b /\ UNCHANGED <<level, callbacks, hasLock, ret, started>>

(* log_add_callback, log_add_fp: the first slot without a function, or -1. *)
AddCallback(l) ==
  /\ IF Len(callbacks) < MAX_CALLBACKS
     THEN callbacks' = Append(callbacks, l) /\ ret' = "0"
     ELSE callbacks' = callbacks /\ ret' = "-1"
  /\ UNCHANGED <<level, quiet, hasLock, started>>

Start == started' = TRUE /\ UNCHANGED <<level, quiet, callbacks, hasLock, ret>>

Configure ==
  /\ ~started
  /\ SetLock \/ Start \/ (\E l \in Levels : SetLevel(l) \/ AddCallback(l))
             \/ \E b \in BOOLEAN : SetQuiet(b)
  /\ UNCHANGED <<owner, pc, slot, event, got, done, tm, now>>

-----------------------------------------------------------------------------
(* The events begun so far: their numbers are 1, 2, ... *)
Begun == {e.id : e \in done} \union {event[t].id : t \in {u \in Threads : pc[u] # "idle"}}

Call(t, l) ==
  /\ started /\ pc[t] = "idle" /\ Cardinality(Begun) < MaxEvents
  /\ pc' = [pc EXCEPT ![t] = "lock"]
  /\ event' = [event EXCEPT ![t] = [id |-> Cardinality(Begun) + 1, level |-> l, timed |-> FALSE]]
  /\ slot' = [slot EXCEPT ![t] = 0]
  /\ UNCHANGED <<config, owner, got, done, tm, now>>

(* lock: L.lock(true, L.udata) waits until the lock is free.               *)
Lock(t) ==
  /\ pc[t] = "lock"
  /\ IF hasLock THEN owner = NoThread /\ owner' = t ELSE owner' = owner
  /\ pc' = [pc EXCEPT ![t] = "slot"]
  /\ UNCHANGED <<config, slot, event, got, done, tm, now>>

(* Fault: an event must be above a callback's level. *)
Wanted_Above(l, s) ==
  IF s = 0 THEN ~quiet /\ l >= level ELSE l > callbacks[s]

(* Whether an event of this level goes to the slot. *)
Wanted(l, s) == IF s = 0 THEN ~quiet /\ l >= level ELSE l >= callbacks[s]

Skip(t) ==
  /\ pc[t] = "slot" /\ slot[t] <= Len(callbacks) /\ ~Wanted(event[t].level, slot[t])
  /\ slot' = [slot EXCEPT ![t] = @ + 1]
  /\ UNCHANGED <<config, owner, pc, event, got, done, tm, now>>

(* Fault: every sink is given the time at which it is called. *)
InitEvent_EachTime(t) ==
  /\ pc[t] = "slot" /\ slot[t] <= Len(callbacks) /\ Wanted(event[t].level, slot[t])
  /\ tm' = now
  /\ event' = [event EXCEPT ![t].timed = TRUE]
  /\ pc' = [pc EXCEPT ![t] = "write"]
  /\ UNCHANGED <<config, owner, slot, got, done, now>>

(* init_event: the time is taken for the first sink. *)
InitEvent(t) ==
  /\ pc[t] = "slot" /\ slot[t] <= Len(callbacks) /\ Wanted(event[t].level, slot[t])
  /\ tm' = IF event[t].timed THEN tm ELSE now
  /\ event' = [event EXCEPT ![t].timed = TRUE]
  /\ pc' = [pc EXCEPT ![t] = "write"]
  /\ UNCHANGED <<config, owner, slot, got, done, now>>

(* Fault: the lock is held for stderr only. *)
Write_UnlockAfterStderr(t) ==
  /\ pc[t] = "write"
  /\ got' = [got EXCEPT ![slot[t]] = Append(@, [id |-> event[t].id, tm |-> tm])]
  /\ slot' = [slot EXCEPT ![t] = @ + 1]
  /\ pc' = [pc EXCEPT ![t] = "slot"]
  /\ owner' = IF slot[t] = 0 THEN NoThread ELSE owner
  /\ UNCHANGED <<config, event, done, tm, now>>

(* stdout_callback, file_callback, or the program's own function. *)
Write(t) ==
  /\ pc[t] = "write"
  /\ got' = [got EXCEPT ![slot[t]] = Append(@, [id |-> event[t].id, tm |-> tm])]
  /\ slot' = [slot EXCEPT ![t] = @ + 1]
  /\ pc' = [pc EXCEPT ![t] = "slot"]
  /\ UNCHANGED <<config, owner, event, done, tm, now>>

(* Fault: the lock is not given back. *)
Unlock_Forgotten(t) ==
  /\ pc[t] = "slot" /\ slot[t] > Len(callbacks)
  /\ owner' = owner
  /\ pc' = [pc EXCEPT ![t] = "idle"]
  /\ event' = [event EXCEPT ![t] = NoEvent]
  /\ done' = done \union {[id |-> event[t].id, level |-> event[t].level]}
  /\ UNCHANGED <<config, slot, got, tm, now>>

Unlock(t) ==
  /\ pc[t] = "slot" /\ slot[t] > Len(callbacks)
  /\ owner' = IF hasLock THEN NoThread ELSE owner
  /\ pc' = [pc EXCEPT ![t] = "idle"]
  /\ event' = [event EXCEPT ![t] = NoEvent]
  /\ done' = done \union {[id |-> event[t].id, level |-> event[t].level]}
  /\ UNCHANGED <<config, slot, got, tm, now>>

(* A second passes. *)
Tick ==
  /\ started /\ now < MaxTime /\ now' = now + 1
  /\ UNCHANGED <<config, owner, pc, slot, event, got, done, tm>>

-----------------------------------------------------------------------------
Init ==
  /\ level = 0 /\ quiet = FALSE /\ callbacks = <<>> /\ hasLock = FALSE
  /\ ret = "none" /\ started = FALSE /\ owner = NoThread
  /\ pc = [t \in Threads |-> "idle"] /\ slot = [t \in Threads |-> 0]
  /\ event = [t \in Threads |-> NoEvent] /\ got = [s \in Slots |-> <<>>]
  /\ done = {} /\ tm = 0 /\ now = 0

Step(t) == Lock(t) \/ Skip(t) \/ InitEvent(t) \/ Write(t) \/ Unlock(t)

Next ==
  \/ Configure \/ Tick
  \/ \E t \in Threads : Step(t) \/ \E l \in Levels : Call(t, l)

(* A thread inside log_log goes on, and a lock that is free again and      *)
(* again is not refused to it for ever.                                    *)
Fairness == \A t \in Threads : WF_vars(Step(t)) /\ SF_vars(Lock(t))

Spec == Init /\ [][Next]_vars /\ Fairness

-----------------------------------------------------------------------------
TypeOK ==
  /\ level \in Levels \union {0} /\ quiet \in BOOLEAN /\ callbacks \in Seq(Levels)
  /\ hasLock \in BOOLEAN /\ ret \in {"none", "0", "-1"} /\ started \in BOOLEAN
  /\ owner \in Threads \union {NoThread}
  /\ pc \in [Threads -> {"idle", "lock", "slot", "write"}] /\ slot \in [Threads -> Nat]
  /\ event \in [Threads -> [id : Nat, level : Levels \union {0}, timed : BOOLEAN]]
  /\ got \in [Slots -> Seq([id : Nat, tm : Nat])]
  /\ done \subseteq [id : Nat, level : Levels] /\ tm \in Nat /\ now \in Nat

Ids(s) == {got[s][i].id : i \in DOMAIN got[s]}
Before(a, b, s) == \E i, j \in DOMAIN got[s] : i < j /\ got[s][i].id = a /\ got[s][j].id = b

(* What two threads log at once comes in one order everywhere: no sink has *)
(* two events in another order than a second sink has them.                *)
SameOrder ==
  hasLock => \A s, r \in Slots : \A a, b \in Ids(s) \intersect Ids(r) :
               a # b /\ Before(a, b, s) => ~Before(b, a, r)

(* An event has one time: the sinks it goes to do not see the next event's. *)
SameTime ==
  hasLock => \A s, r \in Slots : \A i \in DOMAIN got[s], j \in DOMAIN got[r] :
               got[s][i].id = got[r][j].id => got[s][i].tm = got[r][j].tm

(* A returned call has reached, once each, stderr and the callbacks whose  *)
(* level it has, and no other; the table of callbacks is not overrun.      *)
Due(l, s) == IF s = 0 THEN ~(quiet \/ l < level) ELSE s <= Len(callbacks) /\ ~(l < callbacks[s])

Delivered ==
  /\ Len(callbacks) <= MAX_CALLBACKS
  /\ \A s \in Slots : \A i, j \in DOMAIN got[s] : got[s][i].id = got[s][j].id => i = j
  /\ \A e \in done, s \in Slots : e.id \in Ids(s) <=> Due(e.level, s)

(* log_log returns, whatever the other threads log. *)
CallsReturn == \A t \in Threads : pc[t] # "idle" ~> pc[t] = "idle"
=============================================================================
