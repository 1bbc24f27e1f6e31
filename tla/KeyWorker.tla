------------------------------ MODULE KeyWorker ------------------------------
(***************************************************************************)
(* The thread of ChatKeyCreation and the threads that start it, give it    *)
(* messages and stop it: the interface ("ui"), the MTProto sessions, and   *)
(* the detached threads the worker itself leaves behind.  KeyExchange takes *)
(* start(), add_info() and stop() as single steps; here a step is one      *)
(* critical section of mtx, or one access to the static members that no    *)
(* mutex protects (thread, is_started_flag, the flags set by start()).     *)
(***************************************************************************)
EXTENDS Integers, FiniteSets

CONSTANTS
  Sessions,  \* threads that dispatch received messages
  Detached,  \* bound: detached threads the worker can leave behind
  MaxCalls,  \* bound: clicks and received messages
  Serial     \* TRUE: start() and stop() are never called at the same time

ASSUME ThreadsAssumption == "ui" \notin Sessions \cup Detached /\ Sessions \cap Detached = {}
ASSUME CallsAssumption == MaxCalls \in Nat /\ Serial \in BOOLEAN

Callers == {"ui"} \cup Sessions \cup Detached

VARIABLES
  worker,    \* `thread`: "none" is not joinable, "gone" has ended, not joined
  fresh,     \* continue_creation
  stopping,  \* stop_creation
  started,   \* is_started_flag
  mail,      \* recieved_message: the messages are numbered
  cur,       \* rcv_msg
  at,        \* where each caller is
  then,      \* what a caller does when its stop() returns
  calls,     \* calls made so far
  crashed    \* the program has been terminated

box == <<fresh, mail>>
flags == <<stopping, started>>
caller == <<at, then>>
vars == <<worker, fresh, stopping, started, mail, cur, at, then, calls, crashed>>

(* The bodies of start() and stop().                                       *)
InStop == {"stop", "request", "notify", "join", "joining", "clear", "unflag"}
InStart == {"start", "flags", "spawn"}
Inside == InStop \cup InStart
Free == Serial => \A o \in Callers : at[o] \notin Inside

Init ==
  /\ worker = "none" /\ fresh = FALSE /\ stopping = FALSE /\ started = FALSE
  /\ mail = 0 /\ cur = 0 /\ calls = 0 /\ crashed = "no"
  /\ at = [c \in Callers |-> "idle"]
  /\ then = [c \in Callers |-> "return"]

Go(c, place) == at' = [at EXCEPT ![c] = place]
Crash(how) == crashed' = how
Run == crashed' = crashed
Call == calls < MaxCalls /\ calls' = calls + 1

-----------------------------------------------------------------------------
(* Who calls what.                                                         *)

(* start_encryption(), or a newer step of the exchange for a client that is
   not started: start(), then add_info().                                  *)
CallStart(c) ==
  /\ at[c] = "idle" /\ Free /\ Call /\ Run
  /\ c = "ui" \/ (c \in Sessions /\ ~started)
  /\ Go(c, "start")
  /\ UNCHANGED <<worker, box, flags, cur, then>>

(* The same step for a client that is started: add_info() alone.           *)
CallAddInfo(c) ==
  /\ at[c] = "idle" /\ Call /\ Run
  /\ c \in Sessions /\ started
  /\ Go(c, "post")
  /\ UNCHANGED <<worker, box, flags, cur, then>>

(* stop_encryption(), or the end of the exchange.                          *)
CallStop(c) ==
  /\ at[c] = "idle" /\ Free /\ Call /\ Run
  /\ c \in {"ui"} \cup Sessions
  /\ Go(c, "stop") /\ then' = [then EXCEPT ![c] = "return"]
  /\ UNCHANGED <<worker, box, flags, cur>>

(* A detached thread has slept 200 ms.                                     *)
TimerStop(c) ==
  /\ at[c] = "asleep" /\ Free /\ Run
  /\ Go(c, "stop") /\ then' = [then EXCEPT ![c] = "return"]
  /\ UNCHANGED <<worker, box, flags, cur, calls>>

-----------------------------------------------------------------------------
(* start().                                                                *)

TestStartBug(c) ==
  /\ at[c] = "start" /\ Run
  /\ Go(c, "flags")
  /\ UNCHANGED <<worker, box, flags, cur, then, calls>>

TestStart(c) ==
  /\ at[c] = "start" /\ Run
  /\ IF worker = "none" THEN Go(c, "flags") /\ UNCHANGED then
     ELSE Go(c, "stop") /\ then' = [then EXCEPT ![c] = "start"]
  /\ UNCHANGED <<worker, box, flags, cur, calls>>

SetFlags(c) ==
  /\ at[c] = "flags" /\ Run
  /\ stopping' = FALSE /\ fresh' = FALSE /\ started' = TRUE
  /\ Go(c, "spawn")
  /\ UNCHANGED <<worker, mail, cur, then, calls>>

(* thread = std::thread(...): over a joinable thread, std::terminate.      *)
Spawn(c) ==
  /\ at[c] = "spawn"
  /\ IF worker = "none" THEN worker' = "awake" /\ Run
     ELSE Crash("terminate") /\ UNCHANGED worker
  /\ Go(c, "post")
  /\ UNCHANGED <<box, flags, cur, then, calls>>

-----------------------------------------------------------------------------
(* add_info().                                                             *)

Wake == worker' = IF worker = "sleep" THEN "awake" ELSE worker

Post(c) ==
  /\ at[c] = "post" /\ Run
  /\ mail' = mail + 1 /\ fresh' = TRUE
  /\ Go(c, "tell")
  /\ UNCHANGED <<worker, flags, cur, then, calls>>

TellBug(c) ==
  /\ at[c] = "tell" /\ Run
  /\ Go(c, "idle")
  /\ UNCHANGED <<worker, box, flags, cur, then, calls>>

Tell(c) ==
  /\ at[c] = "tell" /\ Run
  /\ Wake /\ Go(c, "idle")
  /\ UNCHANGED <<box, flags, cur, then, calls>>

-----------------------------------------------------------------------------
(* stop().                                                                 *)

Return(c) == Go(c, IF then[c] = "start" THEN "flags" ELSE "idle")

TestStop(c) ==
  /\ at[c] = "stop" /\ Run
  /\ IF worker = "none" THEN Return(c) ELSE Go(c, "request")
  /\ UNCHANGED <<worker, box, flags, cur, then, calls>>

RequestBug(c) ==
  /\ at[c] = "request" /\ Run
  /\ Go(c, "notify")
  /\ UNCHANGED <<worker, box, flags, cur, then, calls>>

Request(c) ==
  /\ at[c] = "request" /\ Run
  /\ stopping' = TRUE
  /\ Go(c, "notify")
  /\ UNCHANGED <<worker, box, started, cur, then, calls>>

NotifyBug(c) ==
  /\ at[c] = "notify" /\ Run
  /\ Go(c, "join")
  /\ UNCHANGED <<worker, box, flags, cur, then, calls>>

Notify(c) ==
  /\ at[c] = "notify" /\ Run
  /\ Wake /\ Go(c, "join")
  /\ UNCHANGED <<box, flags, cur, then, calls>>

(* Two threads must not join the same thread.                              *)
TestJoin(c) ==
  /\ at[c] = "join"
  /\ IF worker = "none" THEN Go(c, "clear") ELSE Go(c, "joining")
  /\ IF worker # "none" /\ \E o \in Callers : at[o] = "joining"
     THEN Crash("joined twice") ELSE Run
  /\ UNCHANGED <<worker, box, flags, cur, then, calls>>

Joined(c) ==
  /\ at[c] = "joining" /\ worker = "gone" /\ Run
  /\ worker' = "none" /\ Go(c, "clear")
  /\ UNCHANGED <<box, flags, cur, then, calls>>

(* thread = std::thread(): over a joinable thread, std::terminate.         *)
Clear(c) ==
  /\ at[c] = "clear"
  /\ IF worker = "none" THEN Run ELSE Crash("terminate")
  /\ Go(c, "unflag")
  /\ UNCHANGED <<worker, box, flags, cur, then, calls>>

Unflag(c) ==
  /\ at[c] = "unflag" /\ Run
  /\ started' = FALSE /\ Return(c)
  /\ UNCHANGED <<worker, box, stopping, cur, then, calls>>

-----------------------------------------------------------------------------
(* chat_key_creation(), from one lock of mtx to the next unlock.           *)

Sleep ==
  /\ worker = "awake" /\ ~fresh /\ ~stopping /\ Run
  /\ worker' = "sleep"
  /\ UNCHANGED <<box, flags, cur, caller, calls>>

(* A condition variable may wake up without a notification.                *)
WakeUp ==
  /\ worker = "sleep" /\ Run
  /\ worker' = "awake"
  /\ UNCHANGED <<box, flags, cur, caller, calls>>

Leave ==
  /\ worker = "awake" /\ stopping /\ Run
  /\ worker' = "gone"
  /\ UNCHANGED <<box, flags, cur, caller, calls>>

TakeBug ==
  /\ worker = "awake" /\ fresh /\ ~stopping /\ Run
  /\ cur' = mail /\ worker' = "busy"
  /\ UNCHANGED <<mail, fresh, flags, caller, calls>>

Take ==
  /\ worker = "awake" /\ fresh /\ ~stopping /\ Run
  /\ cur' = mail /\ fresh' = FALSE /\ worker' = "busy"
  /\ UNCHANGED <<mail, flags, caller, calls>>

(* The stages; the last one leaves a detached thread that will call stop(). *)
Finish ==
  /\ worker = "busy" /\ Run
  /\ worker' = "awake"
  /\ \/ UNCHANGED at
     \/ \E d \in Detached : at[d] = "idle" /\ Go(d, "asleep")
  /\ UNCHANGED <<box, flags, cur, then, calls>>

-----------------------------------------------------------------------------
Calling(c) == CallStart(c) \/ CallAddInfo(c) \/ CallStop(c)
Start(c) == TestStart(c) \/ SetFlags(c) \/ Spawn(c)
AddInfo(c) == Post(c) \/ Tell(c)
Stop(c) == TestStop(c) \/ Request(c) \/ Notify(c) \/ TestJoin(c) \/ Joined(c)
           \/ Clear(c) \/ Unflag(c)
Body(c) == Start(c) \/ AddInfo(c) \/ Stop(c)
Loop == Sleep \/ Leave \/ Take \/ Finish

Next ==
  /\ crashed = "no"
  /\ \/ \E c \in Callers : Calling(c) \/ TimerStop(c) \/ Body(c)
     \/ Loop \/ WakeUp

Spec == Init /\ [][Next]_vars

(* Every thread is scheduled; nobody has to call, nothing wakes up by itself. *)
Fairness ==
  /\ \A c \in Callers : WF_vars(crashed = "no" /\ Body(c))
  /\ WF_vars(crashed = "no" /\ Loop)
FairSpec == Spec /\ Fairness

-----------------------------------------------------------------------------
Places == Inside \cup {"idle", "asleep", "post", "tell"}
Threads == {"none", "awake", "sleep", "busy", "gone"}

(* Every member keeps its type.                                            *)
TypeOK ==
  /\ worker \in Threads
  /\ fresh \in BOOLEAN /\ stopping \in BOOLEAN /\ started \in BOOLEAN
  /\ mail \in Nat /\ cur \in 0 .. mail
  /\ at \in [Callers -> Places]
  /\ then \in [Callers -> {"return", "start"}]
  /\ calls \in Nat
  /\ crashed \in {"no", "terminate", "joined twice"}

(* The calls of start(), add_info() and stop() never terminate the program:
   no assignment over a thread that runs, no thread joined twice.  The
   comments in add_info() and stop() count on the mutex for it.            *)
NeverCrashes == crashed = "no"

(* The worker never sleeps with work to do, unless a notify_one() is coming:
   start() resets the flags without the mutex, and two callers notify.     *)
NoMissedWakeup ==
  worker = "sleep" /\ (fresh \/ stopping) =>
    \E c \in Callers : at[c] \in {"tell", "notify"}

(* Nobody waits in join() for a worker that was not told to stop: a start()
   that resets stop_creation in the meantime would leave it there for ever. *)
JoinIsHeard == (\E c \in Callers : at[c] = "joining") => stopping \/ worker = "gone"

(* A message is taken at most once, and never after a later one.           *)
TakenOnce == [][worker' = "busy" /\ worker # "busy" => cur' > cur]_vars

(* A call returns.                                                         *)
CallsReturn == \A c \in Callers : at[c] \in Inside ~> at[c] \notin Inside

(* A message given to a worker is taken, unless the worker is stopped.     *)
MessagesTaken == fresh ~> (~fresh \/ stopping)

=============================================================================
