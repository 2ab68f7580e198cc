---------------------------- MODULE AudioCapture ----------------------------
(***************************************************************************)
(* The native capture pipeline of src-tauri/src/audio_capture.rs: the      *)
(* device callback pushes frames into a lock-free ring (dropping when      *)
(* full), one processing thread per capture session drains it, and the     *)
(* start_capture / stop_capture / get_sample_rate commands share the       *)
(* AUDIO_CAPTURE_STATE mutex.  Sample values, the DSP and the output       *)
(* channels are abstracted away: a frame is a unit in the ring.            *)
(***************************************************************************)
EXTENDS Naturals, FiniteSets

CONSTANTS
    Callers,        \* threads that invoke the Tauri commands
    MaxStarts,      \* bound on the number of start_capture calls
    RingCap,        \* RAW_RING_CAP
    NoOne           \* no session stored / mutex free

ASSUME MaxStarts \in Nat \ {0} /\ RingCap \in Nat \ {0}

Sessions == 1..MaxStarts

VARIABLES
    stored,     \* AUDIO_CAPTURE_STATE: the stored session or NoOne
    lock,       \* holder of the AUDIO_CAPTURE_STATE mutex or NoOne
    pc,         \* per caller: where it is in its command
    taken,      \* per caller: the session stop_capture took out (to join)
    building,   \* per caller: the session start_capture is setting up
    started,    \* number of sessions created so far
    producer,   \* sessions whose ring Producer is alive (owned by the stream)
    ring,       \* per session: frames in the raw ring
    thread      \* per session: "none", "running", "exited"

vars == <<stored, lock, pc, taken, building, started, producer, ring, thread>>

Init ==
    /\ stored = NoOne
    /\ lock = NoOne
    /\ pc = [c \in Callers |-> "idle"]
    /\ taken = [c \in Callers |-> NoOne]
    /\ building = [c \in Callers |-> NoOne]
    /\ started = 0
    /\ producer = {}
    /\ ring = [s \in Sessions |-> 0]
    /\ thread = [s \in Sessions |-> "none"]

(* A caller enters start_capture (whose first step is stop_capture) or    *)
(* stop_capture.                                                          *)
Call(c) ==
    /\ pc[c] = "idle"
    /\ \E next \in {"start_stop", "stop"} : pc' = [pc EXCEPT ![c] = next]
    /\ UNCHANGED <<stored, lock, taken, building, started, producer, ring, thread>>

(* stop_capture: lock the state and take() the stored session.           *)
StopLock(c) ==
    /\ pc[c] \in {"start_stop", "stop"}
    /\ lock = NoOne
    /\ lock' = c
    /\ stored' = NoOne
    /\ taken' = [taken EXCEPT ![c] = stored]
    /\ pc' = [pc EXCEPT ![c] = IF pc[c] = "stop" THEN "join" ELSE "start_join"]
    /\ UNCHANGED <<building, started, producer, ring, thread>>

(* Dropping the state's sender clones, then thread.join() with the lock   *)
(* held: blocks until the taken session's processing thread has exited.   *)
(* Then the guard is dropped.                                             *)
StopJoin(c) ==
    /\ pc[c] \in {"join", "start_join"}
    /\ IF taken[c] = NoOne THEN TRUE ELSE thread[taken[c]] = "exited"
    /\ lock' = NoOne
    /\ taken' = [taken EXCEPT ![c] = NoOne]
    /\ pc' = [pc EXCEPT ![c] = IF pc[c] = "join" THEN "idle" ELSE "build"]
    /\ UNCHANGED <<stored, building, started, producer, ring, thread>>

(* start_capture after stop_capture: find the device, build and play the  *)
(* stream (its callback owns the ring Producer) and spawn the processing  *)
(* thread; or return Err from one of the device/config/stream steps.      *)
StartBuild(c) ==
    /\ pc[c] = "build"
    /\ \/ /\ started < MaxStarts
          /\ started' = started + 1
          /\ producer' = producer \cup {started + 1}
          /\ thread' = [thread EXCEPT ![started + 1] = "running"]
          /\ building' = [building EXCEPT ![c] = started + 1]
          /\ pc' = [pc EXCEPT ![c] = "store"]
       \/ /\ pc' = [pc EXCEPT ![c] = "idle"]
          /\ UNCHANGED <<started, producer, thread, building>>
    /\ UNCHANGED <<stored, lock, taken, ring>>

(* Lock the state, leak the stream with mem::forget (the Producer is     *)
(* never dropped) and store the new session, overwriting what is there.  *)
StartStore(c) ==
    /\ pc[c] = "store"
    /\ lock = NoOne
    /\ stored' = building[c]
    /\ building' = [building EXCEPT ![c] = NoOne]
    /\ pc' = [pc EXCEPT ![c] = "idle"]
    /\ UNCHANGED <<lock, taken, started, producer, ring, thread>>

(* The device callback of session s: push a frame, or drop it when full. *)
Callback(s) ==
    /\ s \in producer
    /\ ring' = [ring EXCEPT ![s] = IF @ < RingCap THEN @ + 1 ELSE @]
    /\ UNCHANGED <<stored, lock, pc, taken, building, started, producer, thread>>

(* process_audio_frames: pop a frame and process it (try_send drops it   *)
(* when the channel is full; the loop goes on either way).               *)
ProcessFrame(s) ==
    /\ thread[s] = "running"
    /\ ring[s] > 0
    /\ ring' = [ring EXCEPT ![s] = @ - 1]
    /\ UNCHANGED <<stored, lock, pc, taken, building, started, producer, thread>>

(* On an empty ring the loop breaks only if the Producer is abandoned.   *)
ThreadExit(s) ==
    /\ thread[s] = "running"
    /\ ring[s] = 0
    /\ s \notin producer
    /\ thread' = [thread EXCEPT ![s] = "exited"]
    /\ UNCHANGED <<stored, lock, pc, taken, building, started, producer, ring>>

CallerStep(c) == StopLock(c) \/ StopJoin(c) \/ StartBuild(c) \/ StartStore(c)

Next ==
    \/ \E c \in Callers : Call(c) \/ CallerStep(c)
    \/ \E s \in Sessions : Callback(s) \/ ProcessFrame(s) \/ ThreadExit(s)

(* Threads that have work are scheduled; callers are not obliged to call. *)
Fairness ==
    /\ \A c \in Callers : WF_vars(CallerStep(c))
    /\ \A s \in Sessions : WF_vars(ProcessFrame(s)) /\ WF_vars(ThreadExit(s))

Spec == Init /\ [][Next]_vars /\ Fairness

-----------------------------------------------------------------------------
(* Properties *)

TypeOK ==
    /\ stored \in Sessions \cup {NoOne}
    /\ lock \in Callers \cup {NoOne}
    /\ pc \in [Callers -> {"idle", "start_stop", "stop", "start_join", "join", "build", "store"}]
    /\ taken \in [Callers -> Sessions \cup {NoOne}]
    /\ building \in [Callers -> Sessions \cup {NoOne}]
    /\ started \in 0..MaxStarts
    /\ producer \subseteq Sessions
    /\ ring \in [Sessions -> 0..RingCap]
    /\ thread \in [Sessions -> {"none", "running", "exited"}]

(* Single session: "Stop any existing capture" at the top of             *)
(* start_capture means every processing thread still running is reachable *)
(* from the command side -- it is the stored session, or one a caller is  *)
(* building or has taken out to join -- so a later stop_capture can end   *)
(* it.  Two overlapping start_capture calls both pass their stop_capture  *)
(* before either stores its session.                                      *)
NoOrphanThread ==
    \A s \in Sessions :
      thread[s] = "running" =>
        \/ s = stored
        \/ \E c \in Callers : building[c] = s \/ taken[c] = s

(* Every start_capture and stop_capture call returns: the comment in      *)
(* stop_capture says closing the channels makes the processing thread     *)
(* exit, so the join completes.                                           *)
CommandsReturn == \A c \in Callers : pc[c] # "idle" ~> pc[c] = "idle"

=============================================================================
