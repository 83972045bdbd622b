----------------------------- MODULE EventQueue -----------------------------
(***************************************************************************)
(* The events::EventQueue the demos post their calls on (external: from    *)
(* mbed-os, modelled from how the demos use it).  A queue is the sequence  *)
(* of the posted calls in the order they were posted:                      *)
(*   cb     the member function or lambda, or the handler of a stack event *)
(*          whose processEvents call it stands for;                        *)
(*   arg    what the lambda captured or the event carries;                 *)
(*   delay  the call_in delay in seconds, 0 for call();                    *)
(*   held   the demo's _cancel_handle names this call.                     *)
(* Time is abstracted to the order it forces: a call runs before a later   *)
(* one of the same or a longer delay.  The queue never runs out of memory. *)
(***************************************************************************)
EXTENDS Naturals, Sequences, SequencesExt

Call(cb, arg, delay) == [cb |-> cb, arg |-> arg, delay |-> delay, held |-> FALSE]

(* call and call_in                                                        *)
post(q, c) == Append(q, c)

(* _cancel_handle = call_in(...): it names no call posted before.          *)
post_held(q, c) ==
    Append([i \in DOMAIN q |-> [q[i] EXCEPT !.held = FALSE]], [c EXCEPT !.held = TRUE])

(* cancel(_cancel_handle): nothing happens when that call already ran.     *)
cancel(q) ==
    LET held == {p \in DOMAIN q : q[p].held}
    IN  IF held = {} THEN q ELSE RemoveAt(q, CHOOSE p \in held : TRUE)

(* The call at p may be the next to run.                                   *)
Due(q, p) == \A i \in 1..(p - 1) : q[i].delay > q[p].delay

Pending(q, cbs) == {p \in DOMAIN q : q[p].cb \in cbs}
=============================================================================
