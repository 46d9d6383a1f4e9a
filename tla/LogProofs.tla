----------------------------- MODULE LogProofs -----------------------------
(***************************************************************************)
(* Theorems about Log, for any number of threads, levels, callbacks and    *)
(* events.                                                                 *)
(***************************************************************************)
EXTENDS Log, FiniteSetTheorems, TLAPS

Active(t) == pc[t] # "idle"

(* With a lock, the thread that has it is the only one in the loop.        *)
Held == hasLock => \A t \in Threads : pc[t] \in {"slot", "write"} <=> owner = t

(* Nothing has happened while the program still configures.                *)
Fresh ==
  ~started => /\ done = {} /\ owner = NoThread
              /\ \A t \in Threads : pc[t] = "idle"
              /\ \A s \in Slots : got[s] = <<>>

(* The numbers of the events are 1, 2, ..., each has one thread.           *)
Numbered ==
  /\ \E n \in Nat : Begun = 1 .. n
  /\ \A t, u \in Threads : Active(t) /\ Active(u) /\ event[t].id = event[u].id => t = u
  /\ \A t \in Threads, e \in done : Active(t) => e.id # event[t].id
  /\ \A s \in Slots : Ids(s) \subseteq Begun

(* An event is where its thread has been with it, and nowhere else.        *)
Reached ==
  \A t \in Threads : Active(t) =>
    /\ event[t].level \in Levels
    /\ slot[t] <= Len(callbacks) + 1
    /\ pc[t] = "lock" => slot[t] = 0
    /\ pc[t] = "write" => /\ slot[t] <= Len(callbacks) /\ event[t].timed
                          /\ Wanted(event[t].level, slot[t])
    /\ \A s \in Slots :
         event[t].id \in Ids(s) <=> s < slot[t] /\ Wanted(event[t].level, s)

(* What has been written of an event that is under way has the time        *)
(* localtime still holds, and is the last that was written there.          *)
Timed ==
  \A t \in Threads : Active(t) =>
    \A s \in Slots : \A i \in DOMAIN got[s] :
      got[s][i].id = event[t].id =>
        /\ event[t].timed /\ pc[t] # "lock"
        /\ hasLock => got[s][i].tm = tm /\ i = Len(got[s])

LogInv ==
  TypeOK /\ Held /\ Fresh /\ Numbered /\ Reached /\ Timed /\ SameOrder /\ SameTime /\ Delivered

-----------------------------------------------------------------------------
(* The next number of an event. *)
LEMMA NextNumber ==
  ASSUME NEW n \in Nat
  PROVE  /\ Cardinality(1 .. n) = n
         /\ (1 .. n) \union {n + 1} = 1 .. (n + 1)
         /\ n + 1 \notin 1 .. n
<1>1. Cardinality(1 .. n) = n
  BY FS_Interval
<1> QED
  BY <1>1

LEMMA LogInit == Init => LogInv
<1> SUFFICES ASSUME Init PROVE LogInv
  OBVIOUS
<1>1. TypeOK
  <2>1. <<>> \in Seq(Levels) /\ <<>> \in Seq([id : Nat, tm : Nat])
    OBVIOUS
  <2>2. got \in [Slots -> Seq([id : Nat, tm : Nat])]
    BY <2>1 DEF Init
  <2>3. event \in [Threads -> [id : Nat, level : Levels \union {0}, timed : BOOLEAN]]
    BY DEF Init, NoEvent
  <2> QED
    BY <2>1, <2>2, <2>3 DEF Init, TypeOK
<1>2. \A s \in Slots : got[s] = <<>> /\ Ids(s) = {}
  BY DEF Init, Ids
<1>3. Begun = {}
  BY DEF Init, Begun
<1>4. Held /\ Fresh /\ Reached /\ Timed
  BY <1>2, LogAssumption DEF Init, Held, Fresh, Reached, Timed, Active
<1>5. Numbered
  <2>1. 1 .. 0 = {}
    OBVIOUS
  <2> QED
    BY <1>2, <1>3, <2>1 DEF Init, Numbered, Active
<1>6. SameOrder /\ SameTime /\ Delivered
  BY <1>2, LogAssumption DEF Init, SameOrder, SameTime, Delivered
<1> QED
  BY <1>1, <1>4, <1>5, <1>6 DEF LogInv

-----------------------------------------------------------------------------
(* Configuring, the clock, and the steps that write nothing. *)

LEMMA ConfigureStep == LogInv /\ Configure => LogInv'
<1> SUFFICES ASSUME LogInv, Configure PROVE LogInv'
  OBVIOUS
<1> DEFINE Config == /\ level \in Levels \union {0} /\ quiet \in BOOLEAN /\ callbacks \in Seq(Levels)
                     /\ hasLock \in BOOLEAN /\ ret \in {"none", "0", "-1"} /\ started \in BOOLEAN
                     /\ Len(callbacks) <= MAX_CALLBACKS
<1>a. /\ owner' = owner /\ pc' = pc /\ slot' = slot /\ event' = event /\ got' = got
      /\ done' = done /\ tm' = tm /\ now' = now
      /\ done = {} /\ owner = NoThread
      /\ \A t \in Threads : pc[t] = "idle"
      /\ \A s \in Slots : got[s] = <<>>
  BY DEF Configure, LogInv, Fresh
<1>1. Config'
  <2>0. Config
    BY DEF LogInv, TypeOK, Delivered
  <2>1. CASE SetLock
    BY <2>0, <2>1 DEF SetLock
  <2>2. CASE Start
    BY <2>0, <2>2 DEF Start
  <2>3. ASSUME NEW l \in Levels, SetLevel(l) PROVE Config'
    BY <2>0, <2>3 DEF SetLevel
  <2>4. ASSUME NEW b \in BOOLEAN, SetQuiet(b) PROVE Config'
    BY <2>0, <2>4 DEF SetQuiet
  <2>5. ASSUME NEW l \in Levels, AddCallback(l) PROVE Config'
    <3>1. CASE Len(callbacks) < MAX_CALLBACKS
      <4>1. callbacks' = Append(callbacks, l) /\ ret' = "0"
        BY <2>5, <3>1 DEF AddCallback
      <4>2. callbacks' \in Seq(Levels) /\ Len(callbacks') = Len(callbacks) + 1
        BY <2>0, <4>1
      <4> QED
        BY <2>0, <2>5, <3>1, <4>1, <4>2, LogAssumption DEF AddCallback
    <3>2. CASE ~(Len(callbacks) < MAX_CALLBACKS)
      BY <2>0, <2>5, <3>2 DEF AddCallback
    <3> QED
      BY <3>1, <3>2
  <2> QED
    BY <2>1, <2>2, <2>3, <2>4, <2>5 DEF Configure
<1>2. TypeOK'
  BY <1>a, <1>1 DEF LogInv, TypeOK
<1>3. \A s \in Slots : Ids(s)' = {} /\ Ids(s) = {}
  BY <1>a DEF Ids
<1>4. Begun' = Begun
  BY <1>a DEF Begun
<1>5. Held' /\ Fresh' /\ Reached' /\ Timed'
  BY <1>a, LogAssumption DEF Held, Fresh, Reached, Timed, Active
<1>6. Numbered'
  BY <1>a, <1>3, <1>4 DEF LogInv, Numbered, Active
<1>7. SameOrder' /\ SameTime' /\ Delivered'
  BY <1>a, <1>1, <1>3 DEF SameOrder, SameTime, Delivered
<1> QED
  BY <1>2, <1>5, <1>6, <1>7 DEF LogInv

(* A step that leaves the sinks, the configuration and the returned calls  *)
(* alone keeps what is said of them alone.                                 *)
LEMMA SinksKept ==
  ASSUME SameOrder, SameTime, Delivered,
         got' = got, done' = done, UNCHANGED config
  PROVE  /\ \A s \in Slots : Ids(s)' = Ids(s)
         /\ \A l, s : Wanted(l, s)' <=> Wanted(l, s)
         /\ SameOrder' /\ SameTime' /\ Delivered'
<1>1. /\ hasLock' = hasLock /\ level' = level /\ quiet' = quiet /\ callbacks' = callbacks
  BY DEF config
<1>2. \A s \in Slots : Ids(s)' = Ids(s)
  BY DEF Ids
<1>3. \A l, s : Wanted(l, s)' <=> Wanted(l, s)
  BY <1>1 DEF Wanted
<1>4. SameOrder' /\ SameTime'
  BY <1>1, <1>2 DEF SameOrder, SameTime, Before
<1>5. Delivered'
  BY <1>1, <1>2 DEF Delivered, Due
<1> QED
  BY <1>2, <1>3, <1>4, <1>5

LEMMA TickStep == LogInv /\ Tick => LogInv'
<1> SUFFICES ASSUME LogInv, Tick PROVE LogInv'
  OBVIOUS
<1>1. /\ UNCHANGED config /\ owner' = owner /\ pc' = pc /\ slot' = slot /\ event' = event
      /\ got' = got /\ done' = done /\ tm' = tm /\ now' = now + 1
      /\ hasLock' = hasLock /\ callbacks' = callbacks /\ started' = started
  BY DEF Tick, config
<1>2. /\ \A s \in Slots : Ids(s)' = Ids(s)
      /\ \A l, s : Wanted(l, s)' <=> Wanted(l, s)
      /\ SameOrder' /\ SameTime' /\ Delivered'
  BY <1>1, SinksKept DEF LogInv
<1>3. TypeOK'
  BY <1>1 DEF LogInv, TypeOK, config
<1>4. Begun' = Begun
  BY <1>1 DEF Begun
<1>5. Held' /\ Fresh' /\ Timed'
  BY <1>1 DEF LogInv, Held, Fresh, Timed, Active
<1>6. Numbered'
  BY <1>1, <1>2, <1>4 DEF LogInv, Numbered, Active
<1>7. Reached'
  BY <1>1, <1>2 DEF LogInv, Reached, Active
<1> QED
  BY <1>2, <1>3, <1>5, <1>6, <1>7 DEF LogInv

-----------------------------------------------------------------------------
(* Beginning, waiting for the lock, passing a sink by, taking the time.    *)

LEMMA CallStep ==
  ASSUME LogInv, NEW t \in Threads, NEW l \in Levels, Call(t, l)
  PROVE  LogInv'
<1> USE LogAssumption
<1>1. /\ UNCHANGED config /\ owner' = owner /\ got' = got /\ done' = done
      /\ tm' = tm /\ now' = now /\ started /\ pc[t] = "idle"
      /\ hasLock' = hasLock /\ callbacks' = callbacks /\ started' = started
  BY DEF Call, config
<1>t. /\ pc \in [Threads -> {"idle", "lock", "slot", "write"}] /\ slot \in [Threads -> Nat]
      /\ event \in [Threads -> [id : Nat, level : Levels \union {0}, timed : BOOLEAN]]
  BY DEF LogInv, TypeOK
<1>2. PICK n \in Nat : Begun = 1 .. n
  BY DEF LogInv, Numbered
<1>3. Cardinality(Begun) = n /\ n + 1 \notin Begun /\ Begun \union {n + 1} = 1 .. (n + 1)
  BY <1>2, NextNumber
<1>4. /\ pc' = [pc EXCEPT ![t] = "lock"] /\ slot' = [slot EXCEPT ![t] = 0]
      /\ event' = [event EXCEPT ![t] = [id |-> n + 1, level |-> l, timed |-> FALSE]]
  BY <1>3 DEF Call
<1>5. /\ pc'[t] = "lock" /\ slot'[t] = 0
      /\ event'[t] = [id |-> n + 1, level |-> l, timed |-> FALSE]
      /\ \A u \in Threads : u # t => pc'[u] = pc[u] /\ slot'[u] = slot[u] /\ event'[u] = event[u]
  BY <1>t, <1>4
<1>6. /\ \A s \in Slots : Ids(s)' = Ids(s)
      /\ \A k, s : Wanted(k, s)' <=> Wanted(k, s)
      /\ SameOrder' /\ SameTime' /\ Delivered'
  BY <1>1, SinksKept DEF LogInv
<1>7. Begun' = Begun \union {n + 1}
  BY <1>1, <1>5 DEF Begun
<1>8. \A u \in Threads : Active(u) => event[u].id \in Begun
  BY DEF Begun, Active
<1>9. \A e \in done : e.id \in Begun
  BY DEF Begun
<1>10. TypeOK'
  <2>1. pc' \in [Threads -> {"idle", "lock", "slot", "write"}] /\ slot' \in [Threads -> Nat]
    BY <1>t, <1>4
  <2>2. event' \in [Threads -> [id : Nat, level : Levels \union {0}, timed : BOOLEAN]]
    BY <1>t, <1>4
  <2> QED
    BY <1>1, <2>1, <2>2 DEF LogInv, TypeOK, config
<1>11. Held' /\ Fresh'
  BY <1>1, <1>5 DEF LogInv, Held, Fresh
<1>12. Numbered'
  <2>1. \E m \in Nat : Begun' = 1 .. m
    BY <1>3, <1>7
  <2>2. \A u, v \in Threads : Active(u)' /\ Active(v)' /\ event'[u].id = event'[v].id => u = v
    BY <1>3, <1>5, <1>8 DEF LogInv, Numbered, Active
  <2>3. \A u \in Threads, e \in done' : Active(u)' => e.id # event'[u].id
    BY <1>1, <1>3, <1>5, <1>9 DEF LogInv, Numbered, Active
  <2>4. \A s \in Slots : Ids(s)' \subseteq Begun'
    BY <1>6, <1>7 DEF LogInv, Numbered
  <2> QED
    BY <2>1, <2>2, <2>3, <2>4 DEF Numbered
<1>13. \A s \in Slots : n + 1 \notin Ids(s)
  BY <1>3 DEF LogInv, Numbered
<1>14. Reached'
  <2> SUFFICES ASSUME NEW u \in Threads, Active(u)'
               PROVE  /\ event'[u].level \in Levels
                      /\ slot'[u] <= Len(callbacks) + 1
                      /\ pc'[u] = "lock" => slot'[u] = 0
                      /\ pc'[u] = "write" => /\ slot'[u] <= Len(callbacks) /\ event'[u].timed
                                             /\ Wanted(event'[u].level, slot'[u])
                      /\ \A s \in Slots :
                           event'[u].id \in Ids(s) <=> s < slot'[u] /\ Wanted(event'[u].level, s)
    BY <1>1, <1>6 DEF Reached
  <2>1. CASE u = t
    <3>1. Len(callbacks) \in Nat
      BY DEF LogInv, TypeOK
    <3> QED
      BY <1>1, <1>5, <1>6, <1>13, <2>1, <3>1 DEF Slots
  <2>2. CASE u # t
    BY <1>1, <1>5, <1>6, <2>2 DEF LogInv, Reached, Active
  <2> QED
    BY <2>1, <2>2
<1>15. Timed'
  <2> SUFFICES ASSUME NEW u \in Threads, Active(u)', NEW s \in Slots, NEW i \in DOMAIN got[s],
                      got[s][i].id = event'[u].id
               PROVE  /\ event'[u].timed /\ pc'[u] # "lock"
                      /\ hasLock => got[s][i].tm = tm /\ i = Len(got[s])
    BY <1>1 DEF Timed
  <2>1. u # t
    BY <1>5, <1>13 DEF Ids
  <2> QED
    BY <1>5, <2>1 DEF LogInv, Timed, Active
<1> QED
  BY <1>6, <1>10, <1>11, <1>12, <1>14, <1>15 DEF LogInv

(* What the steps of a thread that write nothing have in common.           *)
LEMMA QuietStep ==
  ASSUME LogInv, NEW t \in Threads, Active(t), Active(t)',
         UNCHANGED config, got' = got, done' = done,
         pc' = [pc EXCEPT ![t] = pc'[t]],
         event' = [event EXCEPT ![t] = event'[t]], event'[t].id = event[t].id
  PROVE  /\ \A u \in Threads : event'[u].id = event[u].id /\ (Active(u)' <=> Active(u))
         /\ \A u \in Threads : u # t => event'[u] = event[u] /\ pc'[u] = pc[u]
         /\ \A s \in Slots : Ids(s)' = Ids(s)
         /\ \A l, s : Wanted(l, s)' <=> Wanted(l, s)
         /\ Numbered' /\ SameOrder' /\ SameTime' /\ Delivered'
<1>1. /\ \A u \in Threads : event'[u].id = event[u].id /\ (Active(u)' <=> Active(u))
      /\ \A u \in Threads : u # t => event'[u] = event[u] /\ pc'[u] = pc[u]
  BY DEF LogInv, TypeOK, Active
<1>2. /\ \A s \in Slots : Ids(s)' = Ids(s)
      /\ \A l, s : Wanted(l, s)' <=> Wanted(l, s)
      /\ SameOrder' /\ SameTime' /\ Delivered'
  BY SinksKept DEF LogInv
<1>3. Begun' = Begun
  <2>1. {u \in Threads : pc'[u] # "idle"} = {u \in Threads : pc[u] # "idle"}
    BY <1>1 DEF Active
  <2>2. {event'[u].id : u \in {v \in Threads : pc[v] # "idle"}}
          = {event[u].id : u \in {v \in Threads : pc[v] # "idle"}}
    BY <1>1
  <2> QED
    BY <2>1, <2>2 DEF Begun
<1>4. Numbered'
  BY <1>1, <1>2, <1>3 DEF LogInv, Numbered
<1> QED
  BY <1>1, <1>2, <1>4

LEMMA LockStep ==
  ASSUME LogInv, NEW t \in Threads, Lock(t)
  PROVE  LogInv'
<1> USE LogAssumption
<1>1. /\ UNCHANGED config /\ slot' = slot /\ event' = event /\ got' = got /\ done' = done
      /\ tm' = tm /\ now' = now /\ pc[t] = "lock" /\ pc' = [pc EXCEPT ![t] = "slot"]
      /\ hasLock' = hasLock /\ callbacks' = callbacks /\ started' = started
      /\ IF hasLock THEN owner = NoThread /\ owner' = t ELSE owner' = owner
  BY DEF Lock, config
<1>t. /\ pc \in [Threads -> {"idle", "lock", "slot", "write"}] /\ slot \in [Threads -> Nat]
      /\ event \in [Threads -> [id : Nat, level : Levels \union {0}, timed : BOOLEAN]]
  BY DEF LogInv, TypeOK
<1>2. pc'[t] = "slot" /\ event' = [event EXCEPT ![t] = event'[t]] /\ Active(t) /\ Active(t)'
  BY <1>1, <1>t DEF Active
<1>3. /\ \A u \in Threads : event'[u].id = event[u].id /\ (Active(u)' <=> Active(u))
      /\ \A u \in Threads : u # t => event'[u] = event[u] /\ pc'[u] = pc[u]
      /\ \A s \in Slots : Ids(s)' = Ids(s)
      /\ \A l, s : Wanted(l, s)' <=> Wanted(l, s)
      /\ Numbered' /\ SameOrder' /\ SameTime' /\ Delivered'
  BY <1>1, <1>2, QuietStep
<1>4. TypeOK'
  <2>1. pc' \in [Threads -> {"idle", "lock", "slot", "write"}] /\ owner' \in Threads \union {NoThread}
    BY <1>1, <1>t DEF LogInv, TypeOK
  <2> QED
    BY <1>1, <2>1 DEF LogInv, TypeOK, config
<1>5. Held'
  BY <1>1, <1>2, <1>3 DEF LogInv, Held
<1>6. Fresh'
  BY <1>1 DEF LogInv, Fresh
<1>7. Reached'
  BY <1>1, <1>2, <1>3 DEF LogInv, Reached
<1>8. Timed'
  BY <1>1, <1>2, <1>3 DEF LogInv, Timed
<1> QED
  BY <1>3, <1>4, <1>5, <1>6, <1>7, <1>8 DEF LogInv

LEMMA SkipStep ==
  ASSUME LogInv, NEW t \in Threads, Skip(t)
  PROVE  LogInv'
<1> USE LogAssumption
<1>1. /\ UNCHANGED config /\ owner' = owner /\ pc' = pc /\ event' = event /\ got' = got
      /\ done' = done /\ tm' = tm /\ now' = now /\ slot' = [slot EXCEPT ![t] = slot[t] + 1]
      /\ hasLock' = hasLock /\ callbacks' = callbacks /\ started' = started
      /\ pc[t] = "slot" /\ slot[t] <= Len(callbacks) /\ ~Wanted(event[t].level, slot[t])
  BY DEF Skip, config
<1>t. /\ pc \in [Threads -> {"idle", "lock", "slot", "write"}] /\ slot \in [Threads -> Nat]
      /\ event \in [Threads -> [id : Nat, level : Levels \union {0}, timed : BOOLEAN]]
      /\ Len(callbacks) \in Nat
  BY DEF LogInv, TypeOK
<1>2. pc' = [pc EXCEPT ![t] = pc'[t]] /\ event' = [event EXCEPT ![t] = event'[t]]
      /\ Active(t) /\ Active(t)'
  BY <1>1, <1>t DEF Active
<1>3. /\ \A u \in Threads : event'[u].id = event[u].id /\ (Active(u)' <=> Active(u))
      /\ \A s \in Slots : Ids(s)' = Ids(s)
      /\ \A l, s : Wanted(l, s)' <=> Wanted(l, s)
      /\ Numbered' /\ SameOrder' /\ SameTime' /\ Delivered'
  BY <1>1, <1>2, QuietStep
<1>4. TypeOK'
  <2>1. slot' \in [Threads -> Nat]
    BY <1>1, <1>t
  <2> QED
    BY <1>1, <2>1 DEF LogInv, TypeOK, config
<1>5. Held' /\ Fresh' /\ Timed'
  BY <1>1 DEF LogInv, Held, Fresh, Timed, Active
<1>6. slot'[t] = slot[t] + 1 /\ \A u \in Threads : u # t => slot'[u] = slot[u]
  BY <1>1, <1>t
<1>7. Reached'
  <2> SUFFICES ASSUME NEW u \in Threads, Active(u)
               PROVE  /\ event[u].level \in Levels
                      /\ slot'[u] <= Len(callbacks) + 1
                      /\ pc[u] = "lock" => slot'[u] = 0
                      /\ pc[u] = "write" => /\ slot'[u] <= Len(callbacks) /\ event[u].timed
                                            /\ Wanted(event[u].level, slot'[u])
                      /\ \A s \in Slots :
                           event[u].id \in Ids(s) <=> s < slot'[u] /\ Wanted(event[u].level, s)
    BY <1>1, <1>3 DEF Reached, Active
  <2>1. CASE u = t
    <3>1. \A s \in Slots : s < slot[t] + 1 <=> s < slot[t] \/ s = slot[t]
      BY <1>t DEF Slots
    <3> QED
      BY <1>1, <1>t, <1>6, <2>1, <3>1 DEF LogInv, Reached
  <2>2. CASE u # t
    BY <1>1, <1>6, <2>2 DEF LogInv, Reached
  <2> QED
    BY <2>1, <2>2
<1> QED
  BY <1>3, <1>4, <1>5, <1>7 DEF LogInv

LEMMA InitEventStep ==
  ASSUME LogInv, NEW t \in Threads, InitEvent(t)
  PROVE  LogInv'
<1> USE LogAssumption
<1>1. /\ UNCHANGED config /\ owner' = owner /\ slot' = slot /\ got' = got
      /\ done' = done /\ now' = now /\ pc' = [pc EXCEPT ![t] = "write"]
      /\ event' = [event EXCEPT ![t].timed = TRUE]
      /\ tm' = IF event[t].timed THEN tm ELSE now
      /\ hasLock' = hasLock /\ callbacks' = callbacks /\ started' = started
      /\ pc[t] = "slot" /\ slot[t] <= Len(callbacks) /\ Wanted(event[t].level, slot[t])
  BY DEF InitEvent, config
<1>t. /\ pc \in [Threads -> {"idle", "lock", "slot", "write"}] /\ slot \in [Threads -> Nat]
      /\ event \in [Threads -> [id : Nat, level : Levels \union {0}, timed : BOOLEAN]]
      /\ tm \in Nat /\ now \in Nat
  BY DEF LogInv, TypeOK
<1>2. /\ pc'[t] = "write" /\ event' = [event EXCEPT ![t] = event'[t]]
      /\ event'[t].id = event[t].id /\ event'[t].level = event[t].level /\ event'[t].timed = TRUE
      /\ pc' = [pc EXCEPT ![t] = pc'[t]] /\ Active(t) /\ Active(t)'
  BY <1>1, <1>t DEF Active
<1>3. /\ \A u \in Threads : event'[u].id = event[u].id /\ (Active(u)' <=> Active(u))
      /\ \A u \in Threads : u # t => event'[u] = event[u] /\ pc'[u] = pc[u]
      /\ \A s \in Slots : Ids(s)' = Ids(s)
      /\ \A l, s : Wanted(l, s)' <=> Wanted(l, s)
      /\ Numbered' /\ SameOrder' /\ SameTime' /\ Delivered'
  BY <1>1, <1>2, QuietStep
<1>4. TypeOK'
  <2>1. pc' \in [Threads -> {"idle", "lock", "slot", "write"}] /\ tm' \in Nat
    BY <1>1, <1>t
  <2>2. event' \in [Threads -> [id : Nat, level : Levels \union {0}, timed : BOOLEAN]]
    BY <1>1, <1>t
  <2> QED
    BY <1>1, <2>1, <2>2 DEF LogInv, TypeOK, config
<1>5. Held'
  BY <1>1, <1>2, <1>3 DEF LogInv, Held
<1>6. Fresh'
  BY <1>1 DEF LogInv, Fresh
<1>7. Reached'
  BY <1>1, <1>2, <1>3 DEF LogInv, Reached
<1>8. Timed'
  <2> SUFFICES ASSUME NEW u \in Threads, Active(u), NEW s \in Slots, NEW i \in DOMAIN got[s],
                      got[s][i].id = event[u].id
               PROVE  /\ event'[u].timed /\ pc'[u] # "lock"
                      /\ hasLock => got[s][i].tm = tm' /\ i = Len(got[s])
    BY <1>1, <1>3 DEF Timed
  <2>1. /\ event[u].timed /\ pc[u] # "lock"
        /\ hasLock => got[s][i].tm = tm /\ i = Len(got[s])
    BY DEF LogInv, Timed
  <2>2. hasLock => u = t
    BY <1>1, <1>t, <2>1 DEF LogInv, Held, Active
  <2> QED
    BY <1>1, <1>2, <1>3, <2>1, <2>2
<1> QED
  BY <1>3, <1>4, <1>5, <1>6, <1>7, <1>8 DEF LogInv

-----------------------------------------------------------------------------
(* Writing: the event comes last in one sink.                              *)

LEMMA WriteShape ==
  ASSUME LogInv, NEW t \in Threads, Write(t)
  PROVE  /\ slot[t] \in Slots
         /\ got' \in [Slots -> Seq([id : Nat, tm : Nat])]
         /\ \A s \in Slots : \A i \in DOMAIN got[s] :
              i \in DOMAIN got'[s] /\ got'[s][i] = got[s][i]
         /\ \A s \in Slots : s # slot[t] => got'[s] = got[s]
         /\ \A s \in Slots : Len(got[s]) \in Nat /\ DOMAIN got[s] = 1 .. Len(got[s])
         /\ Len(got'[slot[t]]) = Len(got[slot[t]]) + 1
         /\ \A i \in DOMAIN got'[slot[t]] :
              i \in DOMAIN got[slot[t]]
                \/ (i = Len(got[slot[t]]) + 1 /\ got'[slot[t]][i] = [id |-> event[t].id, tm |-> tm])
         /\ Len(got[slot[t]]) + 1 \in DOMAIN got'[slot[t]]
         /\ got'[slot[t]][Len(got[slot[t]]) + 1].id = event[t].id
<1> USE LogAssumption
<1> DEFINE new == [id |-> event[t].id, tm |-> tm]
           old == got[slot[t]]
<1>1. /\ slot[t] \in Nat /\ slot[t] <= Len(callbacks) /\ event[t].id \in Nat /\ tm \in Nat
      /\ Len(callbacks) <= MAX_CALLBACKS /\ Len(callbacks) \in Nat
  BY DEF Write, LogInv, TypeOK, Reached, Active, Delivered
<1>2. slot[t] \in Slots
  BY <1>1 DEF Slots
<1>3. got \in [Slots -> Seq([id : Nat, tm : Nat])]
  BY DEF LogInv, TypeOK
<1>4. /\ old \in Seq([id : Nat, tm : Nat]) /\ new \in [id : Nat, tm : Nat] /\ new.id = event[t].id
  BY <1>1, <1>2, <1>3
<1>5. got' = [got EXCEPT ![slot[t]] = Append(old, new)]
  BY DEF Write
<1>6. /\ got'[slot[t]] = Append(old, new)
      /\ \A s \in Slots : s # slot[t] => got'[s] = got[s]
  BY <1>2, <1>3, <1>5
<1> HIDE DEF new, old
<1>7. /\ Append(old, new) \in Seq([id : Nat, tm : Nat])
      /\ Len(old) \in Nat /\ DOMAIN old = 1 .. Len(old)
      /\ Len(Append(old, new)) = Len(old) + 1
      /\ DOMAIN Append(old, new) = 1 .. (Len(old) + 1)
      /\ \A i \in 1 .. Len(old) : Append(old, new)[i] = old[i]
      /\ Append(old, new)[Len(old) + 1] = new
  BY <1>4
<1>8. got' \in [Slots -> Seq([id : Nat, tm : Nat])]
  BY <1>2, <1>3, <1>5, <1>7
<1>9. \A s \in Slots : Len(got[s]) \in Nat /\ DOMAIN got[s] = 1 .. Len(got[s])
  BY <1>3
<1>o. old = got[slot[t]]
  BY DEF old
<1>10. ASSUME NEW s \in Slots, NEW i \in DOMAIN got[s]
       PROVE  i \in DOMAIN got'[s] /\ got'[s][i] = got[s][i]
  <2>1. CASE s = slot[t]
    <3>1. got[s] = old /\ got'[s] = Append(old, new)
      BY <1>6, <1>o, <2>1
    <3>2. i \in 1 .. Len(old)
      BY <1>7, <3>1
    <3>3. i \in 1 .. (Len(old) + 1) /\ Append(old, new)[i] = old[i]
      BY <1>7, <3>2
    <3> QED
      BY <1>7, <3>1, <3>3
  <2>2. CASE s # slot[t]
    BY <1>6, <2>2
  <2> QED
    BY <2>1, <2>2
<1>11. /\ Len(Append(old, new)) = Len(old) + 1
       /\ \A i \in DOMAIN Append(old, new) :
            i \in DOMAIN old \/ (i = Len(old) + 1 /\ Append(old, new)[i] = new)
       /\ Len(old) + 1 \in DOMAIN Append(old, new)
       /\ Append(old, new)[Len(old) + 1].id = event[t].id
  <2>1. \A i \in 1 .. (Len(old) + 1) : i \in 1 .. Len(old) \/ i = Len(old) + 1
    BY <1>7
  <2>2. Len(old) + 1 \in 1 .. (Len(old) + 1)
    BY <1>7
  <2>3. \A i \in DOMAIN Append(old, new) :
          i \in DOMAIN old \/ (i = Len(old) + 1 /\ Append(old, new)[i] = new)
    <3> SUFFICES ASSUME NEW i \in DOMAIN Append(old, new)
                 PROVE  i \in DOMAIN old \/ (i = Len(old) + 1 /\ Append(old, new)[i] = new)
      OBVIOUS
    <3>1. i \in 1 .. (Len(old) + 1)
      BY <1>7
    <3>2. CASE i \in 1 .. Len(old)
      <4>1. DOMAIN old = 1 .. Len(old)
        BY <1>7
      <4>2. i \in DOMAIN old
        BY <3>2, <4>1, Zenon
      <4> QED
        BY <4>2, Zenon
    <3>3. CASE i = Len(old) + 1
      BY <1>7, <3>3
    <3> QED
      BY <2>1, <3>1, <3>2, <3>3
  <2> QED
    BY <1>4, <1>7, <2>2, <2>3, Zenon
<1>12. /\ Len(got'[slot[t]]) = Len(got[slot[t]]) + 1
       /\ \A i \in DOMAIN got'[slot[t]] :
            i \in DOMAIN got[slot[t]]
              \/ (i = Len(got[slot[t]]) + 1 /\ got'[slot[t]][i] = new)
       /\ Len(got[slot[t]]) + 1 \in DOMAIN got'[slot[t]]
       /\ got'[slot[t]][Len(got[slot[t]]) + 1].id = event[t].id
  BY <1>6, <1>11, <1>o, Zenon
<1> QED
  BY <1>2, <1>6, <1>8, <1>9, <1>10, <1>12 DEF new

LEMMA WriteStep ==
  ASSUME LogInv, NEW t \in Threads, Write(t)
  PROVE  LogInv'
<1> USE LogAssumption
<1> DEFINE c == event[t].id
           w == slot[t]
<1>1. /\ UNCHANGED config /\ owner' = owner /\ event' = event /\ done' = done
      /\ tm' = tm /\ now' = now /\ pc[t] = "write" /\ pc' = [pc EXCEPT ![t] = "slot"]
      /\ slot' = [slot EXCEPT ![t] = slot[t] + 1]
      /\ hasLock' = hasLock /\ level' = level /\ quiet' = quiet
      /\ callbacks' = callbacks /\ started' = started
  BY DEF Write, config
<1>t. /\ pc \in [Threads -> {"idle", "lock", "slot", "write"}] /\ slot \in [Threads -> Nat]
      /\ event \in [Threads -> [id : Nat, level : Levels \union {0}, timed : BOOLEAN]]
      /\ Len(callbacks) \in Nat
  BY DEF LogInv, TypeOK
<1>2. /\ w \in Slots
      /\ got' \in [Slots -> Seq([id : Nat, tm : Nat])]
      /\ \A s \in Slots : \A i \in DOMAIN got[s] :
           i \in DOMAIN got'[s] /\ got'[s][i] = got[s][i]
      /\ \A s \in Slots : s # w => got'[s] = got[s]
      /\ \A s \in Slots : Len(got[s]) \in Nat /\ DOMAIN got[s] = 1 .. Len(got[s])
      /\ Len(got'[w]) = Len(got[w]) + 1
      /\ \A i \in DOMAIN got'[w] :
           i \in DOMAIN got[w] \/ (i = Len(got[w]) + 1 /\ got'[w][i] = [id |-> c, tm |-> tm])
      /\ Len(got[w]) + 1 \in DOMAIN got'[w]
      /\ got'[w][Len(got[w]) + 1].id = c
  BY WriteShape
<1>3. /\ pc'[t] = "slot" /\ slot'[t] = w + 1 /\ Active(t) /\ Active(t)'
      /\ \A u \in Threads : u # t => pc'[u] = pc[u] /\ slot'[u] = slot[u]
      /\ \A u \in Threads : Active(u)' <=> Active(u)
  BY <1>1, <1>t DEF Active
<1>4. /\ event[t].level \in Levels /\ w <= Len(callbacks) /\ event[t].timed
      /\ Wanted(event[t].level, w)
      /\ \A s \in Slots : c \in Ids(s) <=> s < w /\ Wanted(event[t].level, s)
  BY <1>1, <1>3 DEF LogInv, Reached
<1> HIDE DEF c, w
<1>5. w \in Nat /\ c \notin Ids(w)
  BY <1>2, <1>4, <1>t DEF w
<1>6. ASSUME NEW s \in Slots
      PROVE  Ids(s)' = IF s = w THEN Ids(s) \union {c} ELSE Ids(s)
  <2>1. CASE s = w
    <3>1. Ids(s) \subseteq Ids(s)'
      BY <1>2 DEF Ids
    <3>2. c \in Ids(s)'
      <4>1. /\ Len(got[s]) + 1 \in DOMAIN got'[s]
            /\ got'[s][Len(got[s]) + 1].id = c
        BY <1>2, <2>1
      <4> QED
        BY <4>1 DEF Ids
    <3>3. \A i \in DOMAIN got'[s] : got'[s][i].id \in Ids(s) \union {c}
      BY <1>2, <2>1 DEF Ids
    <3>4. Ids(s)' \subseteq Ids(s) \union {c}
      BY <3>3 DEF Ids
    <3> QED
      BY <2>1, <3>1, <3>2, <3>4
  <2>2. CASE s # w
    BY <1>2, <2>2 DEF Ids
  <2> QED
    BY <2>1, <2>2
<1>7. \A l, s : Wanted(l, s)' <=> Wanted(l, s)
  BY <1>1 DEF Wanted
(* What there is of this event is at the end, before and after.            *)
<1>8. \A s \in Slots : \A i \in DOMAIN got'[s] :
        got'[s][i].id = c =>
          /\ i \notin DOMAIN got[s] => s = w /\ got'[s][i].tm = tm
          /\ hasLock => got'[s][i].tm = tm /\ i = Len(got'[s])
  <2> SUFFICES ASSUME NEW s \in Slots, NEW i \in DOMAIN got'[s], got'[s][i].id = c
               PROVE  /\ i \notin DOMAIN got[s] => s = w /\ got'[s][i].tm = tm
                      /\ hasLock => got'[s][i].tm = tm /\ i = Len(got'[s])
    OBVIOUS
  <2>1. CASE s = w
    <3>1. i \notin DOMAIN got[w]
      BY <1>2, <1>5, <2>1 DEF Ids
    <3> QED
      BY <1>2, <2>1, <3>1
  <2>2. CASE s # w
    BY <1>2, <1>3, <2>2 DEF LogInv, Timed, c
  <2> QED
    BY <2>1, <2>2
<1>e. \A q \in Slots : \A n \in DOMAIN got'[q] :
        got'[q][n].id # c => n \in DOMAIN got[q] /\ got'[q][n] = got[q][n]
  <2> SUFFICES ASSUME NEW q \in Slots, NEW n \in DOMAIN got'[q], got'[q][n].id # c
               PROVE  n \in DOMAIN got[q] /\ got'[q][n] = got[q][n]
    OBVIOUS
  <2>1. n \in DOMAIN got[q]
    <3>1. CASE q = w
      <4>1. got'[q][n] # [id |-> c, tm |-> tm]
        OBVIOUS
      <4> QED
        BY <1>2, <3>1, <4>1
    <3>2. CASE q # w
      BY <1>2, <3>2
    <3> QED
      BY <3>1, <3>2
  <2> QED
    BY <1>2, <2>1
<1>9. TypeOK'
  <2>1. pc' \in [Threads -> {"idle", "lock", "slot", "write"}] /\ slot' \in [Threads -> Nat]
    BY <1>1, <1>t
  <2> QED
    BY <1>1, <1>2, <2>1 DEF LogInv, TypeOK, config
<1>10. Held'
  BY <1>1, <1>3 DEF LogInv, Held
<1>11. Fresh'
  BY <1>1 DEF LogInv, Fresh
<1>12. Begun' = Begun
  BY <1>1, <1>3 DEF Begun, Active
<1>13. c \in Begun
  BY <1>3 DEF Begun, Active, c
<1>14. Numbered'
  <2>1. \A s \in Slots : Ids(s)' \subseteq Begun
    BY <1>6, <1>13 DEF LogInv, Numbered
  <2> QED
    BY <1>1, <1>3, <1>12, <2>1 DEF LogInv, Numbered
<1>15. Reached'
  <2> SUFFICES ASSUME NEW u \in Threads, Active(u)
               PROVE  /\ event[u].level \in Levels
                      /\ slot'[u] <= Len(callbacks) + 1
                      /\ pc'[u] = "lock" => slot'[u] = 0
                      /\ pc'[u] = "write" => /\ slot'[u] <= Len(callbacks) /\ event[u].timed
                                             /\ Wanted(event[u].level, slot'[u])
                      /\ \A s \in Slots :
                           event[u].id \in Ids(s)' <=> s < slot'[u] /\ Wanted(event[u].level, s)
    BY <1>1, <1>3, <1>7 DEF Reached
  <2>1. CASE u = t
    <3>1. \A s \in Slots : s < w + 1 <=> s < w \/ s = w
      BY <1>5 DEF Slots
    <3>2. \A s \in Slots : c \in Ids(s)' <=> s < w + 1 /\ Wanted(event[t].level, s)
      BY <1>4, <1>6, <3>1
    <3> QED
      BY <1>3, <1>4, <1>5, <1>t, <2>1, <3>2 DEF c
  <2>2. CASE u # t
    <3>1. event[u].id # c
      BY <1>3, <2>2 DEF LogInv, Numbered, c
    <3>2. \A s \in Slots : event[u].id \in Ids(s)' <=> event[u].id \in Ids(s)
      BY <1>6, <3>1
    <3> QED
      BY <1>3, <2>2, <3>2 DEF LogInv, Reached
  <2> QED
    BY <2>1, <2>2
<1>16. Timed'
  <2> SUFFICES ASSUME NEW u \in Threads, Active(u), NEW s \in Slots, NEW i \in DOMAIN got'[s],
                      got'[s][i].id = event[u].id
               PROVE  /\ event[u].timed /\ pc'[u] # "lock"
                      /\ hasLock => got'[s][i].tm = tm /\ i = Len(got'[s])
    BY <1>1, <1>3 DEF Timed
  <2>1. CASE u = t
    BY <1>3, <1>4, <1>8, <2>1 DEF c
  <2>2. CASE u # t
    <3>1. event[u].id # c
      BY <1>3, <2>2 DEF LogInv, Numbered, c
    <3>2. i \in DOMAIN got[s] /\ got[s][i].id = event[u].id
      BY <1>2, <3>1
    <3>3. /\ event[u].timed /\ pc[u] # "lock"
          /\ hasLock => got[s][i].tm = tm /\ i = Len(got[s])
      BY <3>2 DEF LogInv, Timed
    <3>4. hasLock => u = t
      BY <1>1, <1>t, <3>3 DEF LogInv, Held, Active
    <3> QED
      BY <1>3, <2>2, <3>3, <3>4
  <2> QED
    BY <2>1, <2>2
<1>17. SameOrder'
  <2> SUFFICES ASSUME hasLock, NEW s \in Slots, NEW r \in Slots,
                      NEW i \in DOMAIN got'[s], NEW j \in DOMAIN got'[s], i < j,
                      NEW k \in DOMAIN got'[r], NEW m \in DOMAIN got'[r], k < m,
                      got'[s][i].id # got'[s][j].id,
                      got'[s][i].id = got'[r][m].id, got'[s][j].id = got'[r][k].id
               PROVE  FALSE
    BY <1>1 DEF SameOrder, Before
  <2>1. Len(got'[s]) \in Nat /\ Len(got'[r]) \in Nat /\ DOMAIN got'[s] = 1 .. Len(got'[s])
        /\ DOMAIN got'[r] = 1 .. Len(got'[r])
    <3>1. got'[s] \in Seq([id : Nat, tm : Nat]) /\ got'[r] \in Seq([id : Nat, tm : Nat])
      BY <1>2
    <3>2. \A q \in Seq([id : Nat, tm : Nat]) : Len(q) \in Nat /\ DOMAIN q = 1 .. Len(q)
      OBVIOUS
    <3> QED
      BY <3>1, <3>2, Zenon
  <2>2. got'[s][i].id # c /\ got'[r][k].id # c
    BY <1>8, <2>1
  <2>4. /\ i \in DOMAIN got[s] /\ got'[s][i] = got[s][i]
        /\ j \in DOMAIN got[s] /\ got'[s][j] = got[s][j]
        /\ k \in DOMAIN got[r] /\ got'[r][k] = got[r][k]
        /\ m \in DOMAIN got[r] /\ got'[r][m] = got[r][m]
    BY <1>e, <2>2
  <2>5. Before(got[s][i].id, got[s][j].id, s) /\ Before(got[s][j].id, got[s][i].id, r)
    BY <2>4 DEF Before
  <2>6. {got[s][i].id, got[s][j].id} \subseteq Ids(s) \intersect Ids(r)
    BY <2>4 DEF Ids
  <2> QED
    BY <2>4, <2>5, <2>6 DEF LogInv, SameOrder
<1>18. SameTime'
  <2> SUFFICES ASSUME hasLock, NEW s \in Slots, NEW r \in Slots,
                      NEW i \in DOMAIN got'[s], NEW j \in DOMAIN got'[r],
                      got'[s][i].id = got'[r][j].id
               PROVE  got'[s][i].tm = got'[r][j].tm
    BY <1>1 DEF SameTime
  <2>1. CASE got'[s][i].id = c
    BY <1>8, <2>1
  <2>2. CASE got'[s][i].id # c
    <3>1. /\ i \in DOMAIN got[s] /\ got'[s][i] = got[s][i]
          /\ j \in DOMAIN got[r] /\ got'[r][j] = got[r][j]
      BY <1>e, <2>2
    <3> QED
      BY <3>1 DEF LogInv, SameTime
  <2> QED
    BY <2>1, <2>2
<1>19. Delivered'
  <2>1. Len(callbacks') <= MAX_CALLBACKS
    BY <1>1 DEF LogInv, Delivered
  <2>2. ASSUME NEW s \in Slots, NEW i \in DOMAIN got'[s], NEW j \in DOMAIN got'[s],
               got'[s][i].id = got'[s][j].id
        PROVE  i = j
    <3>1. CASE s = w /\ got'[s][i].id = c
      <4>1. i \notin DOMAIN got[w] /\ j \notin DOMAIN got[w]
        BY <1>2, <1>5, <2>2, <3>1 DEF Ids
      <4> QED
        BY <1>2, <3>1, <4>1
    <3>2. CASE s # w
      BY <1>2, <2>2, <3>2 DEF LogInv, Delivered
    <3>3. CASE got'[s][i].id # c
      <4>1. /\ i \in DOMAIN got[s] /\ got'[s][i] = got[s][i]
            /\ j \in DOMAIN got[s] /\ got'[s][j] = got[s][j]
        BY <1>e, <2>2, <3>3
      <4> QED
        BY <2>2, <4>1 DEF LogInv, Delivered
    <3> QED
      BY <3>1, <3>2, <3>3
  <2>3. ASSUME NEW e \in done, NEW s \in Slots
        PROVE  e.id \in Ids(s)' <=> Due(e.level, s)'
    <3>1. e.id # c
      BY <1>3 DEF LogInv, Numbered, c
    <3>2. Due(e.level, s)' <=> Due(e.level, s)
      BY <1>1 DEF Due
    <3> QED
      BY <1>6, <3>1, <3>2 DEF LogInv, Delivered
  <2> QED
    BY <1>1, <2>1, <2>2, <2>3 DEF Delivered
<1> QED
  BY <1>9, <1>10, <1>11, <1>14, <1>15, <1>16, <1>17, <1>18, <1>19 DEF LogInv

-----------------------------------------------------------------------------
(* The end of a call.                                                      *)

LEMMA UnlockStep ==
  ASSUME LogInv, NEW t \in Threads, Unlock(t)
  PROVE  LogInv'
<1> USE LogAssumption
<1> DEFINE e == [id |-> event[t].id, level |-> event[t].level]
<1>1. /\ UNCHANGED config /\ slot' = slot /\ got' = got /\ tm' = tm /\ now' = now
      /\ pc[t] = "slot" /\ slot[t] > Len(callbacks) /\ pc' = [pc EXCEPT ![t] = "idle"]
      /\ event' = [event EXCEPT ![t] = NoEvent] /\ done' = done \union {e}
      /\ owner' = IF hasLock THEN NoThread ELSE owner
      /\ hasLock' = hasLock /\ level' = level /\ quiet' = quiet
      /\ callbacks' = callbacks /\ started' = started
  BY DEF Unlock, config
<1>t. /\ pc \in [Threads -> {"idle", "lock", "slot", "write"}] /\ slot \in [Threads -> Nat]
      /\ event \in [Threads -> [id : Nat, level : Levels \union {0}, timed : BOOLEAN]]
      /\ Len(callbacks) \in Nat /\ callbacks \in Seq(Levels) /\ level \in Nat
  BY DEF LogInv, TypeOK
<1>2. /\ Active(t) /\ pc'[t] = "idle"
      /\ \A u \in Threads : u # t => pc'[u] = pc[u] /\ event'[u] = event[u]
      /\ \A u \in Threads : Active(u)' <=> Active(u) /\ u # t
  BY <1>1, <1>t DEF Active
<1>3. /\ event[t].level \in Levels /\ slot[t] = Len(callbacks) + 1
      /\ \A s \in Slots : event[t].id \in Ids(s) <=> s < slot[t] /\ Wanted(event[t].level, s)
  BY <1>1, <1>2, <1>t DEF LogInv, Reached
<1>4. e.id = event[t].id /\ e.level = event[t].level /\ e \in [id : Nat, level : Levels]
  BY <1>3, <1>t
<1> HIDE DEF e
<1>5. /\ \A s \in Slots : Ids(s)' = Ids(s)
      /\ \A l, s : (Wanted(l, s)' <=> Wanted(l, s)) /\ (Due(l, s)' <=> Due(l, s))
  BY <1>1 DEF Ids, Wanted, Due
<1>6. Begun' = Begun
  <2>1. Begun' \subseteq Begun
    BY <1>1, <1>2, <1>4 DEF Begun, Active
  <2>2. Begun \subseteq Begun'
    BY <1>1, <1>2, <1>4 DEF Begun, Active
  <2> QED
    BY <2>1, <2>2
<1>7. TypeOK'
  <2>1. pc' \in [Threads -> {"idle", "lock", "slot", "write"}]
    BY <1>1, <1>t
  <2>2. event' \in [Threads -> [id : Nat, level : Levels \union {0}, timed : BOOLEAN]]
    BY <1>1, <1>t DEF NoEvent
  <2>3. owner' \in Threads \union {NoThread} /\ done' \subseteq [id : Nat, level : Levels]
    BY <1>1, <1>4 DEF LogInv, TypeOK
  <2> QED
    BY <1>1, <2>1, <2>2, <2>3 DEF LogInv, TypeOK, config
<1>8. Held'
  BY <1>1, <1>2 DEF LogInv, Held
<1>9. Fresh'
  BY <1>1 DEF LogInv, Fresh
<1>10. Numbered'
  <2>1. \A u \in Threads, d \in done' : Active(u)' => d.id # event'[u].id
    BY <1>1, <1>2, <1>4 DEF LogInv, Numbered
  <2>2. \A u, v \in Threads : Active(u)' /\ Active(v)' /\ event'[u].id = event'[v].id => u = v
    BY <1>2 DEF LogInv, Numbered
  <2> QED
    BY <1>5, <1>6, <2>1, <2>2 DEF LogInv, Numbered
<1>11. Reached'
  BY <1>1, <1>2, <1>5 DEF LogInv, Reached
<1>12. Timed'
  BY <1>1, <1>2 DEF LogInv, Timed
<1>13. SameOrder' /\ SameTime'
  BY <1>1, <1>5 DEF LogInv, SameOrder, SameTime, Before
<1>14. Delivered'
  <2>1. \A s \in Slots : Due(e.level, s) <=> s < slot[t] /\ Wanted(e.level, s)
    <3> SUFFICES ASSUME NEW s \in Slots
                 PROVE  Due(e.level, s) <=> s < slot[t] /\ Wanted(e.level, s)
      OBVIOUS
    <3>1. s \in Nat /\ (s < slot[t] <=> s <= Len(callbacks))
      BY <1>3, <1>t DEF Slots
    <3>5. e.level \in Nat
      BY <1>4
    <3>2. CASE s = 0
      BY <1>t, <3>1, <3>5, <3>2 DEF Due, Wanted
    <3>3. CASE s # 0 /\ s <= Len(callbacks)
      <4>1. s \in 1 .. Len(callbacks)
        BY <1>t, <3>1, <3>3
      <4>2. callbacks[s] \in Levels
        BY <1>t, <4>1
      <4>3. callbacks[s] \in Nat
        BY <4>2
      <4> QED
        BY <3>1, <3>5, <3>3, <4>3 DEF Due, Wanted
    <3>4. CASE ~(s <= Len(callbacks))
      BY <1>t, <3>1, <3>4 DEF Due
    <3> QED
      BY <3>2, <3>3, <3>4
  <2>2. \A s \in Slots : e.id \in Ids(s) <=> Due(e.level, s)
    BY <1>3, <1>4, <2>1
  <2> QED
    BY <1>1, <1>5, <2>2 DEF LogInv, Delivered
<1> QED
  BY <1>7, <1>8, <1>9, <1>10, <1>11, <1>12, <1>13, <1>14 DEF LogInv

-----------------------------------------------------------------------------
LEMMA LogStep == LogInv /\ [Next]_vars => LogInv'
<1> SUFFICES ASSUME LogInv, [Next]_vars PROVE LogInv'
  OBVIOUS
<1>1. CASE Configure
  BY <1>1, ConfigureStep
<1>2. CASE Tick
  BY <1>2, TickStep
<1>3. ASSUME NEW t \in Threads, Step(t) PROVE LogInv'
  BY <1>3, LockStep, SkipStep, InitEventStep, WriteStep, UnlockStep DEF Step
<1>4. ASSUME NEW t \in Threads, NEW l \in Levels, Call(t, l) PROVE LogInv'
  BY <1>4, CallStep
<1>5. CASE UNCHANGED vars
  <2>1. /\ UNCHANGED config /\ owner' = owner /\ pc' = pc /\ slot' = slot /\ event' = event
        /\ got' = got /\ done' = done /\ tm' = tm /\ now' = now
        /\ hasLock' = hasLock /\ callbacks' = callbacks /\ started' = started
    BY <1>5 DEF vars, config
  <2>2. /\ \A s \in Slots : Ids(s)' = Ids(s)
        /\ \A l, s : Wanted(l, s)' <=> Wanted(l, s)
        /\ SameOrder' /\ SameTime' /\ Delivered'
    BY <2>1, SinksKept DEF LogInv
  <2>3. TypeOK'
    BY <2>1 DEF LogInv, TypeOK, config
  <2>4. Begun' = Begun
    BY <2>1 DEF Begun
  <2>5. Held' /\ Fresh' /\ Timed'
    BY <2>1 DEF LogInv, Held, Fresh, Timed, Active
  <2>6. Numbered'
    BY <2>1, <2>2, <2>4 DEF LogInv, Numbered, Active
  <2>7. Reached'
    BY <2>1, <2>2 DEF LogInv, Reached, Active
  <2> QED
    BY <2>2, <2>3, <2>5, <2>6, <2>7 DEF LogInv
<1> QED
  BY <1>1, <1>2, <1>3, <1>4, <1>5 DEF Next

THEOREM LogInvariant == Spec => []LogInv
  BY LogInit, LogStep, PTL DEF Spec

(* No sink has two events in another order than a second sink, whatever    *)
(* the number of threads that log (log.c:148, the lock around all sinks).  *)
THEOREM OneOrder == Spec => []SameOrder
<1>1. LogInv => SameOrder
  BY DEF LogInv
<1> QED
  BY <1>1, LogInvariant, PTL

(* An event has one time in all the sinks it goes to, although the time is *)
(* localtime's static structure (log.c:134).                               *)
THEOREM OneTime == Spec => []SameTime
<1>1. LogInv => SameTime
  BY DEF LogInv
<1> QED
  BY <1>1, LogInvariant, PTL

(* A call that has returned has reached the sinks it is due, and no other, *)
(* once each (log.c:150-165), and the table of callbacks is not overrun.   *)
THEOREM EveryEventDelivered == Spec => []Delivered
<1>1. LogInv => Delivered
  BY DEF LogInv
<1> QED
  BY <1>1, LogInvariant, PTL

(* No two threads are in the loop over the sinks (log.c:148 to :167).      *)
MutualExclusion ==
  hasLock => \A t, u \in Threads :
               pc[t] \in {"slot", "write"} /\ pc[u] \in {"slot", "write"} => t = u

THEOREM LockExcludes == Spec => []MutualExclusion
<1>1. LogInv => MutualExclusion
  BY DEF LogInv, Held, MutualExclusion
<1> QED
  BY <1>1, LogInvariant, PTL
=============================================================================
