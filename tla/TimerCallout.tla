---------------------------- MODULE TimerCallout ----------------------------
(***************************************************************************)
(* A struct callout as the timer devices see it: the flags they test, and  *)
(* the window between the dispatch of a handler by the callout thread and  *)
(* the lock the handler takes, in which the device can be reprogrammed.    *)
(* Module Callout models the queue and the thread behind it.               *)
(***************************************************************************)
EXTENDS Naturals

\* The flags of a callout, in a record that may have other fields as well.
\* called: the handler is dispatched and waits for the lock of its device.
CalloutFlags(co) == {co.pending, co.active, co.called}

callout_reset_sbt(co) == [co EXCEPT !.pending = TRUE, !.active = TRUE]

callout_stop(co) == [co EXCEPT !.pending = FALSE, !.active = FALSE]

callout_deactivate(co) == [co EXCEPT !.active = FALSE]

\* the callout thread takes the callout from its queue and calls the handler
Dispatchable(co) == co.pending /\ ~co.called

Dispatched(co) == [co EXCEPT !.pending = FALSE, !.called = TRUE]

\* the first tests of every handler: it was reset, or stopped, meanwhile
HandlerReturns(co) == co.pending \/ ~co.active

Returned(co) == [co EXCEPT !.called = FALSE]
=============================================================================
