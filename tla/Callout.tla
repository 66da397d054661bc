------------------------------- MODULE Callout -------------------------------
(***************************************************************************)
(* The timer queue of src/vmm/vmm_callout.c, the single callout thread     *)
(* that serves it, and the clients that arm and stop timers.  A client is  *)
(* a timer device (vlapic, vhpet, vatpit): it calls callout_reset_sbt and  *)
(* callout_stop with its own timer lock held, and its handler runs on the  *)
(* callout thread and takes the same lock, as vlapic_callout_handler does. *)
(*                                                                         *)
(* A section under callout_mtx is one step.  A step that has to wait for   *)
(* callout_mtx or for a client lock after a wake-up is a step of its own,  *)
(* so the caller of callout_reset_sbt, whose signal comes after it dropped *)
(* callout_mtx, and a timeout of the thread can overtake each other.       *)
(***************************************************************************)
EXTENDS Naturals, Sequences, SequencesExt

CONSTANTS Callouts,  \* the struct callout of every timer
          MaxTime    \* bound: mach_absolute_time() stops here

ASSUME CalloutAssumption == MaxTime \in Nat

VARIABLES queue,     \* callout_queue: the queued callouts, first to last
          timeout,   \* c->timeout, in ticks of mach_absolute_time()
          flags,     \* c->flags: a set of "ACTIVE" and "PENDING"
          work,      \* the flag `work'
          now,       \* mach_absolute_time()
          tpc,       \* where the callout thread is
          cur,       \* the thread's local c
          deadline,  \* the end of the thread's timed wait
          tosignal   \* callers that still have to signal callout_cnd

vars == <<queue, timeout, flags, work, now, tpc, cur, deadline, tosignal>>

(***************************************************************************)
(* idle, woken_idle : in (resp. signalled out of) the wait for work;       *)
(* sleep, woken, expired : in the timed wait, out of it by a wake-up, out  *)
(* of it by its timeout; call : c->callout is called and wants the client  *)
(* lock; rearm : in the handler, timer fired; return : handler returned.   *)
(***************************************************************************)
ThreadPcs == {"idle", "woken_idle", "sleep", "woken", "expired", "call",
              "rearm", "return", "abort"}

Time == 0 .. MaxTime

TypeOK ==
  /\ queue \in Seq(Callouts)
  /\ timeout \in [Callouts -> Time]
  /\ flags \in [Callouts -> SUBSET {"ACTIVE", "PENDING"}]
  /\ work \in BOOLEAN
  /\ now \in Time
  /\ tpc \in ThreadPcs
  /\ cur \in Callouts
  /\ deadline \in Time
  /\ tosignal \in SUBSET Callouts

callout_pending(c) == "PENDING" \in flags[c]

callout_active(c) == "ACTIVE" \in flags[c]

queued(q, c) == c \in ToSet(q)

Init ==
  /\ queue = <<>>
  /\ timeout = [c \in Callouts |-> 0]
  /\ flags = [c \in Callouts |-> {}]
  /\ work = FALSE
  /\ now = 0
  /\ tpc = "idle"
  /\ cur \in Callouts
  /\ deadline = 0
  /\ tosignal = {}

-----------------------------------------------------------------------------
(* The list.                                                               *)

\* mutant: the new callout goes behind the first node that it should precede
callout_insert_late(q, tm, c) ==
  LET i == SelectInSeq(q, LAMBDA node : tm[c] < tm[node])
  IN  IF i = 0 THEN Append(q, c) ELSE InsertAt(q, i + 1, c)

\* before the first queued callout with a later timeout
callout_insert(q, tm, c) ==
  LET i == SelectInSeq(q, LAMBDA node : tm[c] < tm[node])
  IN  IF i = 0 THEN Append(q, c) ELSE InsertAt(q, i, c)

callout_remove(q, c) == RemoveFirst(q, c)

-----------------------------------------------------------------------------
(* The thread.  Dispatch and Loop hold callout_mtx and end where the       *)
(* thread releases it: in a wait, or to call a handler.                    *)

Dispatch(c) ==
  /\ flags' = [flags EXCEPT ![c] = @ \ {"PENDING"}]
  /\ tpc' = "call"
  /\ cur' = c
  /\ work' = FALSE
  /\ UNCHANGED deadline

\* The top of the loop, with the queue q and the flag w in `work'.  A set
\* flag only makes the loop start again, cleared and with the lock held.
Loop(q, w) ==
  IF q = <<>>
  THEN tpc' = "idle" /\ work' = w /\ UNCHANGED <<flags, cur, deadline>>
  ELSE LET c == Head(q)
       IN  IF flags[c] = {}
           THEN tpc' = "abort" /\ work' = w /\ UNCHANGED <<flags, cur, deadline>>
           ELSE IF now >= timeout[c]
                THEN Dispatch(c)
                ELSE /\ tpc' = "sleep"
                     /\ cur' = c
                     /\ deadline' = timeout[c]
                     /\ work' = FALSE
                     /\ UNCHANGED flags

\* The wait for cur timed out: cur is dispatched if it is still queued.
Expire ==
  IF queued(queue, cur) THEN Dispatch(cur) ELSE Loop(queue, FALSE)

\* pthread_cond_timedwait_relative_np reaches the end of its interval
TimedWaitEnds ==
  /\ tpc = "sleep"
  /\ now >= deadline
  /\ tpc' = "expired"
  /\ UNCHANGED <<queue, timeout, flags, work, now, cur, deadline, tosignal>>

\* where the thread is after a wake-up of callout_cnd
Awoken ==
  IF tpc = "sleep" THEN "woken" ELSE IF tpc = "idle" THEN "woken_idle" ELSE tpc

\* POSIX allows both waits to return without a signal
SpuriousWake ==
  /\ tpc \in {"sleep", "idle"}
  /\ tpc' = Awoken
  /\ UNCHANGED <<queue, timeout, flags, work, now, cur, deadline, tosignal>>

WokenIdle ==
  /\ tpc = "woken_idle"
  /\ Loop(queue, work)
  /\ UNCHANGED <<queue, timeout, now, tosignal>>

\* the timed wait returned 0: new work restarts the loop, otherwise the
\* thread waits again, for the same callout
Woken ==
  /\ tpc = "woken"
  /\ IF work
     THEN Loop(queue, FALSE)
     ELSE IF now >= timeout[cur]
          THEN Expire
          ELSE /\ tpc' = "sleep"
               /\ deadline' = timeout[cur]
               /\ UNCHANGED <<flags, work, cur>>
  /\ UNCHANGED <<queue, timeout, now, tosignal>>

\* the timed wait returned ETIMEDOUT, whatever happened since it ended
Expired ==
  /\ tpc = "expired"
  /\ Expire
  /\ UNCHANGED <<queue, timeout, now, tosignal>>

-----------------------------------------------------------------------------
(* callout_reset_sbt and callout_stop, with the client lock of c held.     *)

\* a caller of callout_reset_sbt holds its lock until it has signalled, and
\* the handler of cur from its tests to its return
client_lock_free(c) == c \notin tosignal /\ ~(tpc = "rearm" /\ cur = c)

\* mutant: the time of the call is added to an absolute timeout
callout_reset_sbt_relative(c, t) ==
  LET tm == [timeout EXCEPT ![c] = t + now]
      q == callout_insert(callout_remove(queue, c), tm, c)
  IN  /\ timeout' = tm
      /\ flags' = [flags EXCEPT ![c] = {"PENDING", "ACTIVE"}]
      /\ queue' = q
      /\ work' = (work \/ Head(q) = c)

\* c is to expire at the time t; up to where callout_mtx is released
callout_reset_sbt(c, t) ==
  LET tm == [timeout EXCEPT ![c] = t]
      q == callout_insert(callout_remove(queue, c), tm, c)
  IN  /\ timeout' = tm
      /\ flags' = [flags EXCEPT ![c] = {"PENDING", "ACTIVE"}]
      /\ queue' = q
      /\ work' = (work \/ Head(q) = c)

callout_stop(c) ==
  /\ queue' = callout_remove(queue, c)
  /\ flags' = [flags EXCEPT ![c] = {}]

\* mutant: only a caller that found the queue empty signals
timer_write_signal_on_empty(c, t) ==
  /\ client_lock_free(c)
  /\ callout_reset_sbt(c, t)
  /\ tosignal' = IF queue = <<>> THEN tosignal \cup {c} ELSE tosignal
  /\ UNCHANGED <<now, tpc, cur, deadline>>

\* mutant: the caller never signals
timer_write_silent(c, t) ==
  /\ client_lock_free(c)
  /\ callout_reset_sbt(c, t)
  /\ UNCHANGED <<now, tpc, cur, deadline, tosignal>>

\* a vcpu starts the timer, which is to fire after at least one tick
timer_write(c, t) ==
  /\ client_lock_free(c)
  /\ callout_reset_sbt(c, t)
  /\ tosignal' = IF Head(queue') = c THEN tosignal \cup {c} ELSE tosignal
  /\ UNCHANGED <<now, tpc, cur, deadline>>

\* the signal of callout_reset_sbt, after callout_mtx is released
Signal(c) ==
  /\ c \in tosignal
  /\ tosignal' = tosignal \ {c}
  /\ tpc' = Awoken
  /\ UNCHANGED <<queue, timeout, flags, work, now, cur, deadline>>

\* a vcpu stops the timer
timer_stop(c) ==
  /\ client_lock_free(c)
  /\ callout_stop(c)
  /\ UNCHANGED <<timeout, work, now, tpc, cur, deadline, tosignal>>

-----------------------------------------------------------------------------
(* The handler of cur, on the callout thread.                              *)

\* with the client lock: a callout that was reset or stopped since it was
\* dispatched is left alone, any other fires
callout_handler ==
  /\ tpc = "call"
  /\ cur \notin tosignal
  /\ IF callout_pending(cur) \/ ~callout_active(cur)
     THEN tpc' = "return" /\ UNCHANGED flags
     ELSE /\ flags' = [flags EXCEPT ![cur] = @ \ {"ACTIVE"}]
          /\ tpc' = "rearm"
  /\ UNCHANGED <<queue, timeout, work, now, cur, deadline, tosignal>>

\* a periodic timer is started again; the thread's signal to itself finds
\* nobody waiting
handler_rearm(t) ==
  /\ tpc = "rearm"
  /\ callout_reset_sbt(cur, t)
  /\ tpc' = "return"
  /\ UNCHANGED <<now, cur, deadline, tosignal>>

handler_done ==
  /\ tpc = "rearm"
  /\ tpc' = "return"
  /\ UNCHANGED <<queue, timeout, flags, work, now, cur, deadline, tosignal>>

\* mutant: a callout that was not rescheduled stays in the queue
HandlerReturned_keep ==
  /\ tpc = "return"
  /\ Loop(queue, work)
  /\ UNCHANGED <<queue, timeout, now, tosignal>>

\* after the handler: a callout that was not rescheduled leaves the queue
HandlerReturned ==
  /\ tpc = "return"
  /\ LET q == IF callout_pending(cur) THEN queue ELSE callout_remove(queue, cur)
     IN  queue' = q /\ Loop(q, work)
  /\ UNCHANGED <<timeout, now, tosignal>>

Tick ==
  /\ now < MaxTime
  /\ now' = now + 1
  /\ UNCHANGED <<queue, timeout, flags, work, tpc, cur, deadline, tosignal>>

-----------------------------------------------------------------------------

Thread == TimedWaitEnds \/ WokenIdle \/ Woken \/ Expired \/ callout_handler
          \/ handler_done \/ HandlerReturned

Next ==
  \/ Thread
  \/ SpuriousWake
  \/ \E t \in (now + 1) .. MaxTime : handler_rearm(t)
  \/ \E c \in Callouts :
       \/ \E t \in (now + 1) .. MaxTime : timer_write(c, t)
       \/ Signal(c)
       \/ timer_stop(c)
  \/ Tick

(***************************************************************************)
(* The callout thread and a caller between its unlock and its signal run   *)
(* when they can, and time passes.  Nothing makes a client use its timer.  *)
(***************************************************************************)
Fairness == WF_vars(Thread) /\ WF_vars(Tick) /\ \A c \in Callouts : WF_vars(Signal(c))

Spec == Init /\ [][Next]_vars /\ Fairness

-----------------------------------------------------------------------------
(***************************************************************************)
(* callout_insert and callout_remove keep the queue sorted and without     *)
(* duplicates, and it holds exactly the pending callouts and the one whose *)
(* handler is running, whatever clients do to that one meanwhile.  All     *)
(* variables have their types.                                             *)
(***************************************************************************)
QueueInv ==
  /\ TypeOK
  /\ \A i, j \in 1 .. Len(queue) : i < j =>
       queue[i] # queue[j] /\ timeout[queue[i]] <= timeout[queue[j]]
  /\ \A c \in Callouts : callout_pending(c) => queued(queue, c)
  /\ \A c \in ToSet(queue) : ~callout_pending(c) =>
       c = cur /\ tpc \in {"call", "rearm", "return"}

(***************************************************************************)
(* The abort() at the top of the loop of callout_thread_func (the first    *)
(* callout of the queue is neither active nor pending) is never reached.   *)
(***************************************************************************)
NoAbort == tpc # "abort"

(***************************************************************************)
(* No wake-up is lost: while the thread waits and there is something that  *)
(* it has not seen (work is set, or it waits for work and the queue is not *)
(* empty), some caller is still to signal it.                              *)
(***************************************************************************)
NoLostWakeup ==
  /\ tpc = "sleep" /\ work => tosignal # {}
  /\ tpc = "idle" /\ queue # <<>> => tosignal # {}

(***************************************************************************)
(* A timer that was started fires or is stopped, if it is not started      *)
(* again and again for ever.                                               *)
(***************************************************************************)
ArmedFires == \A c \in Callouts : callout_active(c) ~> ~callout_active(c)

(***************************************************************************)
(* What the warning of vlapic_callout_handler expects: a timer does not    *)
(* fire before the time it was last set to.                                *)
(***************************************************************************)
NotEarly == [][tpc = "call" /\ tpc' = "rearm" => now >= timeout[cur]]_vars
=============================================================================
