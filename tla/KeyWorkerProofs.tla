--------------------------- MODULE KeyWorkerProofs ---------------------------
(***************************************************************************)
(* Theorems about KeyWorker, for every number of sessions, of detached     *)
(* threads and of calls.                                                   *)
(***************************************************************************)
EXTENDS KeyWorker, TLAPS

(* Every step of the system is a step of one of these kinds.               *)
LEMMA StepCases ==
  ASSUME Next
  PROVE  \/ \E c \in Callers : Calling(c) \/ TimerStop(c)
         \/ \E c \in Callers : Start(c)
         \/ \E c \in Callers : AddInfo(c)
         \/ \E c \in Callers : Stop(c)
         \/ Loop \/ WakeUp
  BY DEF Next, Body

(* The places a caller can be at, one by one.                              *)
LEMMA PlacesAre ==
  Places = {"stop", "request", "notify", "join", "joining", "clear", "unflag",
            "start", "flags", "spawn", "idle", "asleep", "post", "tell"}
  BY DEF Places, Inside, InStart, InStop

(* Every member keeps its type, whoever calls what at the same time.       *)
THEOREM TypeCorrect == Spec => []TypeOK
<1>1. Init => TypeOK
  <2> SUFFICES ASSUME Init
               PROVE  TypeOK
    OBVIOUS
  <2>1. at \in [Callers -> Places] /\ then \in [Callers -> {"return", "start"}]
    BY DEF Init, Places
  <2>2. mail \in Nat /\ cur \in 0 .. mail /\ calls \in Nat
    BY DEF Init
  <2>3. fresh \in BOOLEAN /\ stopping \in BOOLEAN /\ started \in BOOLEAN
    BY DEF Init
  <2>4. worker \in Threads /\ crashed \in {"no", "terminate", "joined twice"}
    BY DEF Init, Threads
  <2> QED
    BY <2>1, <2>2, <2>3, <2>4 DEF TypeOK
<1>2. TypeOK /\ [Next]_vars => TypeOK'
  <2> SUFFICES ASSUME TypeOK, [Next]_vars
               PROVE  TypeOK'
    OBVIOUS
  <2>1. CASE UNCHANGED vars
    BY <2>1 DEF vars, TypeOK
  <2>2. CASE \E c \in Callers : Calling(c) \/ TimerStop(c)
    <3>1. PICK c \in Callers : Calling(c) \/ TimerStop(c)
      BY <2>2
    <3>2. at' \in [Callers -> Places]
      <4>1. \E place \in {"start", "post", "stop"} : at' = [at EXCEPT ![c] = place]
        BY <3>1 DEF Calling, CallStart, CallAddInfo, CallStop, TimerStop, Go
      <4> QED
        BY <4>1, PlacesAre DEF TypeOK
    <3>5. then' \in [Callers -> {"return", "start"}]
      <4>1. then' = then \/ then' = [then EXCEPT ![c] = "return"]
        BY <3>1 DEF Calling, CallStart, CallAddInfo, CallStop, TimerStop
      <4> QED
        BY <4>1 DEF TypeOK
    <3>3. calls' \in Nat
      <4>1. calls' = calls \/ calls' = calls + 1
        BY <3>1 DEF Calling, CallStart, CallAddInfo, CallStop, TimerStop, Call
      <4>2. calls \in Nat
        BY DEF TypeOK
      <4> QED
        BY <4>1, <4>2
    <3>4. UNCHANGED <<worker, fresh, mail, stopping, started, cur, crashed>>
      BY <3>1 DEF Calling, CallStart, CallAddInfo, CallStop, TimerStop, Run, box,
                  flags
    <3> QED
      BY <3>2, <3>3, <3>4, <3>5 DEF TypeOK
  <2>3. CASE \E c \in Callers : Start(c)
    BY <2>3 DEF Start, TestStart, SetFlags, Spawn, Go, Run, Crash, box, flags,
                TypeOK, Places, Threads, Inside, InStart, InStop
  <2>4. CASE \E c \in Callers : AddInfo(c)
    <3>1. PICK c \in Callers : AddInfo(c)
      BY <2>4
    <3>2. at' \in [Callers -> Places]
      <4>1. at' = [at EXCEPT ![c] = "tell"] \/ at' = [at EXCEPT ![c] = "idle"]
        BY <3>1 DEF AddInfo, Post, Tell, Go
      <4> QED
        BY <4>1, PlacesAre DEF TypeOK
    <3>3. mail' \in Nat /\ cur' \in 0 .. mail'
      <4>1. cur' = cur /\ (mail' = mail \/ mail' = mail + 1)
        BY <3>1 DEF AddInfo, Post, Tell, box
      <4>2. mail \in Nat /\ cur \in 0 .. mail
        BY DEF TypeOK
      <4> QED
        BY <4>1, <4>2
    <3>4. worker' \in Threads
      BY <3>1 DEF AddInfo, Post, Tell, Wake, TypeOK, Threads
    <3>5. fresh' \in BOOLEAN
      BY <3>1 DEF AddInfo, Post, Tell, box, TypeOK
    <3>6. UNCHANGED <<stopping, started, then, calls, crashed>>
      BY <3>1 DEF AddInfo, Post, Tell, Run, flags
    <3> QED
      BY <3>2, <3>3, <3>4, <3>5, <3>6 DEF TypeOK
  <2>5. CASE \E c \in Callers : Stop(c)
    <3>1. CASE \E c \in Callers : TestStop(c) \/ Request(c) \/ Notify(c)
      BY <3>1 DEF TestStop, Request, Notify, Return, Wake, Go, Run, box, flags,
                  TypeOK, Places, Threads, Inside, InStart, InStop
    <3>2. CASE \E c \in Callers : TestJoin(c) \/ Joined(c) \/ Clear(c) \/ Unflag(c)
      BY <3>2 DEF TestJoin, Joined, Clear, Unflag, Return, Go, Run, Crash, box,
                  flags, TypeOK, Places, Threads, Inside, InStart, InStop
    <3> QED
      BY <2>5, <3>1, <3>2 DEF Stop
  <2>6. CASE Loop
    <3>1. at' \in [Callers -> Places]
      <4>1. at' = at \/ \E d \in Detached : at' = [at EXCEPT ![d] = "asleep"]
        BY <2>6 DEF Loop, Sleep, Leave, Take, Finish, Go, caller
      <4> QED
        BY <4>1, PlacesAre DEF TypeOK
    <3>2. mail' = mail /\ cur' \in {cur, mail}
      BY <2>6 DEF Loop, Sleep, Leave, Take, Finish, box
    <3>3. mail' \in Nat /\ cur' \in 0 .. mail'
      <4>1. mail \in Nat /\ cur \in 0 .. mail
        BY DEF TypeOK
      <4> QED
        BY <3>2, <4>1
    <3>4. worker' \in Threads /\ fresh' \in BOOLEAN
      BY <2>6 DEF Loop, Sleep, Leave, Take, Finish, box, TypeOK, Threads
    <3>5. UNCHANGED <<stopping, started, then, calls, crashed>>
      BY <2>6 DEF Loop, Sleep, Leave, Take, Finish, Run, flags, caller
    <3> QED
      BY <3>1, <3>3, <3>4, <3>5 DEF TypeOK
  <2>7. CASE WakeUp
    BY <2>7 DEF WakeUp, Run, box, flags, caller, TypeOK, Threads
  <2> QED
    BY <2>1, <2>2, <2>3, <2>4, <2>5, <2>6, <2>7, StepCases
<1> QED
  BY <1>1, <1>2, PTL DEF Spec

-----------------------------------------------------------------------------
(* The worker never sleeps with work to do unless a notification is on its
   way, even when start() and stop() are called at the same time.          *)
THEOREM WakeupsArrive == Spec => []NoMissedWakeup
<1>1. Init => NoMissedWakeup
  BY DEF Init, NoMissedWakeup
<1>2. TypeOK /\ NoMissedWakeup /\ [Next]_vars => NoMissedWakeup'
  <2> SUFFICES ASSUME TypeOK, NoMissedWakeup, [Next]_vars
               PROVE  NoMissedWakeup'
    OBVIOUS
  <2>1. CASE UNCHANGED vars
    BY <2>1 DEF vars, NoMissedWakeup
  <2>2. CASE \E c \in Callers : Calling(c) \/ TimerStop(c)
    BY <2>2 DEF Calling, CallStart, CallAddInfo, CallStop, TimerStop, Go, box,
                flags, TypeOK, NoMissedWakeup
  <2>3. CASE \E c \in Callers : Start(c)
    BY <2>3 DEF Start, TestStart, SetFlags, Spawn, Go, box, flags, TypeOK,
                NoMissedWakeup
  <2>4. CASE \E c \in Callers : AddInfo(c)
    BY <2>4 DEF AddInfo, Post, Tell, Wake, Go, box, flags, TypeOK, NoMissedWakeup
  <2>5. CASE \E c \in Callers : Stop(c)
    <3>1. CASE \E c \in Callers : TestStop(c) \/ Request(c) \/ Notify(c)
      BY <3>1 DEF TestStop, Request, Notify, Return, Wake, Go, box, flags,
                  TypeOK, NoMissedWakeup
    <3>2. CASE \E c \in Callers : TestJoin(c) \/ Joined(c) \/ Clear(c) \/ Unflag(c)
      BY <3>2 DEF TestJoin, Joined, Clear, Unflag, Return, Go, box, flags,
                  TypeOK, NoMissedWakeup
    <3> QED
      BY <2>5, <3>1, <3>2 DEF Stop
  <2>6. CASE Loop
    BY <2>6 DEF Loop, Sleep, Leave, Take, Finish, box, flags, caller, NoMissedWakeup
  <2>7. CASE WakeUp
    BY <2>7 DEF WakeUp, NoMissedWakeup
  <2> QED
    BY <2>1, <2>2, <2>3, <2>4, <2>5, <2>6, <2>7, StepCases
<1> QED
  BY <1>1, <1>2, TypeCorrect, PTL DEF Spec

-----------------------------------------------------------------------------
(* One caller at a time is inside start() or stop().                       *)
Alone == \A c, o \in Callers : at[c] \in Inside /\ at[o] \in Inside => c = o

(* Between its test and its use of `thread` a caller knows what it holds.  *)
KnowsThread == \A c \in Callers :
  /\ at[c] \in {"flags", "spawn", "clear", "unflag"} => worker = "none"
  /\ at[c] \in {"notify", "join", "joining"} => stopping

SerialInv == Alone /\ KnowsThread /\ NeverCrashes

(* Every step keeps the strengthened invariant of the serial case.         *)
LEMMA SerialStep ==
  ASSUME Serial, TypeOK, SerialInv, [Next]_vars
  PROVE  SerialInv'
<1> USE DEF Inside, InStart, InStop
<1>1. CASE UNCHANGED vars
  BY <1>1 DEF vars, SerialInv, Alone, KnowsThread, NeverCrashes
<1>2. CASE \E c \in Callers : Calling(c) \/ TimerStop(c)
  <2>1. PICK c \in Callers : Calling(c) \/ TimerStop(c)
    BY <1>2
  <2>2. at[c] \notin Inside
    BY <2>1 DEF Calling, CallStart, CallAddInfo, CallStop, TimerStop
  <2>3. \A o \in Callers : o # c => at'[o] = at[o]
    BY <2>1 DEF Calling, CallStart, CallAddInfo, CallStop, TimerStop, Go, TypeOK
  <2>4. at'[c] \in {"start", "stop", "post"}
    BY <2>1 DEF Calling, CallStart, CallAddInfo, CallStop, TimerStop, Go, TypeOK
  <2>5. at'[c] = "post" \/ Free
    BY <2>1 DEF Calling, CallStart, CallAddInfo, CallStop, TimerStop, Go, TypeOK
  <2>6. UNCHANGED <<worker, stopping, crashed>>
    BY <2>1 DEF Calling, CallStart, CallAddInfo, CallStop, TimerStop, Run, flags
  <2>7. Alone'
    BY <2>3, <2>4, <2>5 DEF Alone, SerialInv, Free
  <2> QED
    BY <2>3, <2>4, <2>6, <2>7 DEF SerialInv, KnowsThread, NeverCrashes
<1>3. CASE \E c \in Callers : Start(c)
  <2>1. PICK c \in Callers : Start(c)
    BY <1>3
  <2>2. \A o \in Callers : o # c => at'[o] = at[o] /\ at[o] \notin Inside
    BY <2>1 DEF Start, TestStart, SetFlags, Spawn, Go, TypeOK, SerialInv, Alone
  <2>3. Alone'
    BY <2>2 DEF Alone
  <2>4. at[c] = "spawn" => worker = "none"
    BY DEF SerialInv, KnowsThread
  <2>5. NeverCrashes' /\ KnowsThread'
    BY <2>1, <2>2, <2>4 DEF Start, TestStart, SetFlags, Spawn, Go, Run, flags,
       TypeOK, SerialInv, KnowsThread, NeverCrashes
  <2> QED
    BY <2>3, <2>5 DEF SerialInv
<1>4. CASE \E c \in Callers : AddInfo(c)
  <2>1. PICK c \in Callers : AddInfo(c)
    BY <1>4
  <2>2. \A o \in Callers : at'[o] = at[o] \/ at'[o] \in {"tell", "idle"}
    BY <2>1 DEF AddInfo, Post, Tell, Go, TypeOK
  <2>3. (worker' = "none" <=> worker = "none") /\ UNCHANGED <<stopping, crashed>>
    BY <2>1 DEF AddInfo, Post, Tell, Wake, Run, flags
  <2> QED
    BY <2>2, <2>3 DEF SerialInv, Alone, KnowsThread, NeverCrashes
<1>5. CASE \E c \in Callers : Stop(c)
  <2>1. PICK c \in Callers : Stop(c)
    BY <1>5
  <2>2. \A o \in Callers : o # c => at'[o] = at[o] /\ at[o] \notin Inside
    BY <2>1 DEF Stop, TestStop, Request, Notify, TestJoin, Joined, Clear, Unflag,
       Return, Go, TypeOK, SerialInv, Alone
  <2>3. Alone'
    BY <2>2 DEF Alone
  <2>4. CASE TestStop(c) \/ Request(c) \/ Notify(c)
    BY <2>2, <2>3, <2>4 DEF TestStop, Request, Notify, Return, Wake, Go, Run,
       flags, TypeOK, SerialInv, KnowsThread, NeverCrashes
  <2>5. CASE TestJoin(c) \/ Joined(c) \/ Clear(c) \/ Unflag(c)
    <3>1. CASE TestJoin(c)
      <4>1. ~ \E o \in Callers : at[o] = "joining"
        BY <2>2, <3>1 DEF TestJoin
      <4> QED
        BY <2>2, <2>3, <3>1, <4>1 DEF TestJoin, Go, Run, flags, TypeOK, SerialInv,
           KnowsThread, NeverCrashes
    <3>2. CASE Joined(c)
      BY <2>2, <2>3, <3>2 DEF Joined, Go, Run, flags, TypeOK, SerialInv,
         KnowsThread, NeverCrashes
    <3>3. CASE Clear(c)
      <4>1. worker = "none"
        BY <3>3 DEF Clear, SerialInv, KnowsThread
      <4> QED
        BY <2>2, <2>3, <3>3, <4>1 DEF Clear, Go, Run, flags, TypeOK, SerialInv,
           KnowsThread, NeverCrashes
    <3>4. CASE Unflag(c)
      <4>1. worker = "none" /\ worker' = worker /\ UNCHANGED <<stopping, crashed>>
        BY <3>4 DEF Unflag, Run, SerialInv, KnowsThread
      <4>2. at'[c] \in {"flags", "idle"}
        BY <3>4 DEF Unflag, Return, Go, TypeOK
      <4> QED
        BY <2>2, <2>3, <4>1, <4>2 DEF SerialInv, KnowsThread, NeverCrashes
    <3> QED
      BY <2>5, <3>1, <3>2, <3>3, <3>4
  <2> QED
    BY <2>1, <2>4, <2>5 DEF Stop
<1>6. CASE Loop
  <2>1. \A o \in Callers : at'[o] = at[o] \/ at'[o] = "asleep"
    BY <1>6 DEF Loop, Sleep, Leave, Take, Finish, Go, caller, TypeOK
  <2>2. worker # "none" /\ worker' # "none" /\ UNCHANGED <<stopping, crashed>>
    BY <1>6 DEF Loop, Sleep, Leave, Take, Finish, Run, flags
  <2> QED
    BY <2>1, <2>2 DEF SerialInv, Alone, KnowsThread, NeverCrashes
<1>7. CASE WakeUp
  BY <1>7 DEF WakeUp, Run, caller, flags, SerialInv, Alone, KnowsThread, NeverCrashes
<1> QED
  BY <1>1, <1>2, <1>3, <1>4, <1>5, <1>6, <1>7, StepCases

(* While start() and stop() never overlap, the strengthened invariant holds. *)
LEMMA SerialCorrect == ASSUME Serial PROVE Spec => []SerialInv
<1>1. Init => SerialInv
  BY DEF Init, SerialInv, Alone, KnowsThread, NeverCrashes, Inside, InStart, InStop
<1>2. TypeOK /\ SerialInv /\ [Next]_vars => SerialInv'
  BY SerialStep
<1> QED
  BY <1>1, <1>2, TypeCorrect, PTL DEF Spec

(* As long as start() and stop() are never called at the same time, no call
   assigns over a running thread and no thread is joined twice.            *)
THEOREM SerialCallsAreSafe == Serial => (Spec => []NeverCrashes)
<1>1. SerialInv => NeverCrashes
  BY DEF SerialInv
<1>2. ASSUME Serial PROVE Spec => []NeverCrashes
  BY <1>1, <1>2, SerialCorrect, PTL
<1> QED
  BY <1>2

(* And whoever joins the worker has told it to stop, and nobody takes it back. *)
THEOREM SerialJoinsAreHeard == Serial => (Spec => []JoinIsHeard)
<1>1. SerialInv => JoinIsHeard
  BY DEF SerialInv, KnowsThread, JoinIsHeard
<1>2. ASSUME Serial PROVE Spec => []JoinIsHeard
  BY <1>1, <1>2, SerialCorrect, PTL
<1> QED
  BY <1>2

-----------------------------------------------------------------------------
(* What is flagged as new has not been taken.                              *)
Unread == fresh => cur < mail

(* No message is taken twice and none after a later one, even when start()
   and stop() are called at the same time: continue_creation is set with the
   message and reset with its taking, both under the mutex; the reset without
   it, in start(), only forgets a message.                                 *)
THEOREM MessagesTakenInOrder == Spec => TakenOnce
<1>1. Init => Unread
  BY DEF Init, Unread
<1>2. ASSUME TypeOK, Unread, [Next]_vars
      PROVE  Unread' /\ (worker' = "busy" /\ worker # "busy" => cur' > cur)
  <2>0. mail \in Nat /\ cur \in Nat /\ cur <= mail
    <3>1. mail \in Nat /\ cur \in 0 .. mail
      BY <1>2 DEF TypeOK
    <3> QED
      BY ONLY <3>1
  <2>1. CASE UNCHANGED vars
    <3>1. UNCHANGED <<worker, fresh, mail, cur>>
      BY <2>1 DEF vars
    <3> QED
      BY <1>2, <3>1 DEF Unread
  <2>2. CASE \E c \in Callers : Calling(c) \/ TimerStop(c)
    <3>1. UNCHANGED <<worker, fresh, mail, cur>>
      BY <2>2 DEF Calling, CallStart, CallAddInfo, CallStop, TimerStop, box
    <3> QED
      BY <1>2, <3>1 DEF Unread
  <2>3. CASE \E c \in Callers : Start(c)
    <3>1. mail' = mail /\ cur' = cur /\ (fresh' => fresh) /\ (worker' = worker \/ worker' = "awake")
      BY <2>3 DEF Start, TestStart, SetFlags, Spawn, box
    <3> QED
      BY <1>2, <3>1 DEF Unread
  <2>4. CASE \E c \in Callers : AddInfo(c)
    <3>1. /\ cur' = cur /\ (mail' = mail + 1 \/ (mail' = mail /\ fresh' = fresh))
          /\ worker' = worker \/ worker' = "awake"
      BY <2>4 DEF AddInfo, Post, Tell, Wake, box
    <3> QED
      BY <1>2, <2>0, <3>1 DEF Unread
  <2>5. CASE \E c \in Callers : Stop(c)
    <3>1. mail' = mail /\ cur' = cur /\ fresh' = fresh
          /\ (worker' = worker \/ worker' \in {"awake", "none"})
      BY <2>5 DEF Stop, TestStop, Request, Notify, TestJoin, Joined, Clear, Unflag, Wake, box
    <3> QED
      BY <1>2, <3>1 DEF Unread
  <2>6. CASE Loop
    <3>1. CASE Take
      <4>1. fresh /\ ~fresh' /\ cur' = mail
        BY <3>1 DEF Take
      <4> QED
        BY <1>2, <2>0, <4>1 DEF Unread
    <3>2. CASE Sleep \/ Leave \/ Finish
      <4>1. UNCHANGED <<fresh, mail, cur>> /\ worker' # "busy"
        BY <3>2 DEF Sleep, Leave, Finish, box
      <4> QED
        BY <1>2, <4>1 DEF Unread
    <3> QED
      BY <2>6, <3>1, <3>2 DEF Loop
  <2>7. CASE WakeUp
    BY <1>2, <2>7 DEF WakeUp, box, Unread
  <2> QED
    BY <1>2, <2>1, <2>2, <2>3, <2>4, <2>5, <2>6, <2>7, StepCases
<1>3. Spec => []Unread
  <2>1. TypeOK /\ Unread /\ [Next]_vars => Unread'
    BY <1>2
  <2> QED
    BY <1>1, <2>1, TypeCorrect, PTL DEF Spec
<1>4. TypeOK /\ Unread /\ [Next]_vars => [worker' = "busy" /\ worker # "busy" => cur' > cur]_vars
  BY <1>2
<1> QED
  BY <1>3, <1>4, TypeCorrect, PTL DEF Spec, TakenOnce

=============================================================================
