-------------------------------- MODULE Mevent --------------------------------
(***************************************************************************)
(* The event loop of src/mevent.c: the lists of events, the change list    *)
(* that other threads add to under mevent_lmutex, the pipe with which they *)
(* wake the loop, and the loop itself.  The kernel's queue is external:    *)
(* it takes the changes of a call in order and gives up at the first one   *)
(* that names an event it does not know.                                   *)
(*                                                                         *)
(* The operations are functions of the state mev, for the devices that use *)
(* them.  mevent_update tests the state of an event before it takes the    *)
(* lock; its callers hold the lock of their device and mevent_build does   *)
(* not change the state, so test and update are one step here.             *)
(***************************************************************************)
EXTENDS Naturals, Sequences, FiniteSets, SequencesExt

CONSTANTS Events,       \* descriptor and type of the events there can be
          MEVENT_MAX    \* events per call, and the read size of the pipe

VARIABLE mev            \* the lists, the pipe, the kernel's queue, the loop

None == "NONE"

Pipe == "PIPE"

\* me_state of an event that exists, None for one that does not; change: the
\* events on the change list, newest first; kq: the kernel's queue; batch:
\* the changes of mevent_build that are not yet applied; ready: what the
\* kernel reported and the loop has yet to handle
MevTypeOK ==
  /\ mev.state \in [Events -> {None, "ADD", "ENABLE", "DISABLE", "DEL_PENDING"}]
  /\ IsInjective(mev.change) /\ Range(mev.change) \subseteq Events
  /\ mev.pipe \in Nat
  /\ mev.kq \in [Events -> {None, "on", "off"}]
  /\ \A i \in DOMAIN mev.batch : mev.batch[i].ident \in Events
  /\ mev.ready \subseteq Events \cup {Pipe}
  /\ mev.loop \in {"build", "apply", "wait", "handle"}

MevZero ==
  [state |-> [e \in Events |-> None], change |-> <<>>, pipe |-> 0, ready |-> {},
   kq |-> [e \in Events |-> None], batch |-> <<>>, loop |-> "build"]

\* a thread other than the loop changes an event
mevent_notify(m) == [m EXCEPT !.pipe = @ + 1]

queued(m, e) == e \in Range(m.change)

\* onto the change list, unless it is there already
changed(m, e) ==
  IF queued(m, e) THEN m ELSE mevent_notify([m EXCEPT !.change = <<e>> \o @])

\* an event that is still on a list, if only to be deleted, is not added
mevent_added(m, e) == m.state[e] = None

mevent_add(m, e) ==
  IF mevent_added(m, e) THEN changed([m EXCEPT !.state[e] = "ADD"], e) ELSE m

mevent_update(m, e, newstate) ==
  IF m.state[e] \in {"DEL_PENDING", newstate} THEN m
  ELSE changed([m EXCEPT !.state[e] = newstate], e)

mevent_enable(m, e) == mevent_update(m, e, "ENABLE")

mevent_disable(m, e) == mevent_update(m, e, "DISABLE")

mevent_delete(m, e) == [changed(m, e) EXCEPT !.state[e] = "DEL_PENDING"]

-----------------------------------------------------------------------------
(* The loop.                                                               *)

\* the change list becomes the changes for the kernel; what is deleted is
\* freed at once
mevent_build ==
  /\ mev.loop = "build"
  /\ mev' = [mev EXCEPT
       !.batch = [i \in DOMAIN mev.change |->
                    [ident |-> mev.change[i], flags |-> mev.state[mev.change[i]]]],
       !.state = [e \in Events |->
                    IF queued(mev, e) /\ mev.state[e] = "DEL_PENDING" THEN None ELSE mev.state[e]],
       !.change = <<>>,
       !.loop = "apply"]

\* one change; an error ends the call, and the changes after it are lost
kevent_change(kq, c) ==
  CASE c.flags = "ADD" -> [kq EXCEPT ![c.ident] = "on"]
    [] c.flags = "ENABLE" -> [kq EXCEPT ![c.ident] = "on"]
    [] c.flags = "DISABLE" -> [kq EXCEPT ![c.ident] = "off"]
    [] c.flags = "DEL_PENDING" -> [kq EXCEPT ![c.ident] = None]

kevent_apply ==
  LET known(i) ==
        \/ mev.batch[i].flags = "ADD"
        \/ mev.kq[mev.batch[i].ident] # None
      good == SelectInSeq([i \in DOMAIN mev.batch |-> known(i)], LAMBDA k : ~k)
      taken == IF good = 0 THEN mev.batch ELSE SubSeq(mev.batch, 1, good - 1)
  IN  /\ mev.loop = "apply"
      /\ mev' = [mev EXCEPT !.kq = FoldLeft(kevent_change, @, taken),
                            !.batch = <<>>, !.loop = "wait"]

\* the kernel reports what is readable and on, all of it at once
kevent_wait(readable) ==
  LET R == {e \in readable : mev.kq[e] = "on"} \cup {p \in {Pipe} : mev.pipe > 0}
  IN  /\ mev.loop = "wait" /\ R # {}
      /\ mev' = [mev EXCEPT !.ready = R, !.loop = "handle"]

handled(m, e) == [m EXCEPT !.ready = @ \ {e},
                           !.loop = IF m.ready = {e} THEN "build" ELSE "handle"]

\* the read takes MEVENT_MAX bytes at a time until it gets less
mevent_pipe_read ==
  /\ Pipe \in mev.ready
  /\ mev.pipe % MEVENT_MAX > 0
  /\ mev' = [handled(mev, Pipe) EXCEPT !.pipe = 0]

\* the handler of an event, with its effect m on the lists: the loop does not
\* notify itself
mevent_handle(e, m) == e \in mev.ready /\ mev' = [handled(m, e) EXCEPT !.pipe = mev.pipe]

MevLoop == mevent_build \/ kevent_apply \/ mevent_pipe_read

-----------------------------------------------------------------------------
(***************************************************************************)
(* The loop never blocks in the read of the pipe.  The comment there takes *)
(* the pipe for non-blocking, which it is not; what keeps the read from    *)
(* blocking is that an event is notified once per round of the loop: fewer  *)
(* bytes than one read takes are ever in the pipe.                         *)
(***************************************************************************)
PipeNeverBlocks == mev.pipe < MEVENT_MAX

(***************************************************************************)
(* Once the loop has nothing left to apply, the kernel's queue has the     *)
(* events that exist, on or off as was asked last: no change is lost       *)
(* however the requests fall between the steps of the loop.                *)
(***************************************************************************)
Settled == mev.loop = "wait" /\ mev.change = <<>>

QueueMatches ==
  Settled =>
    \A e \in Events :
      mev.kq[e] = CASE mev.state[e] \in {"ADD", "ENABLE"} -> "on"
                    [] mev.state[e] = "DISABLE" -> "off"
                    [] OTHER -> None
=============================================================================
