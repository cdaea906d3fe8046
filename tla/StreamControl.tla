---------------------------- MODULE StreamControl ----------------------------
(***************************************************************************)
(* What stream control promises, without threads, flags or timers: a       *)
(* session that is begun and ended, and within it a run of the video path  *)
(* that a stall may halt and a bounded number of retries may start again.  *)
(*                                                                         *)
(* A request to stop is kept until a session has ended for it.  A run is   *)
(* only ever started inside a session, and a session never begins over     *)
(* what an earlier one left running.  The session is given up only when    *)
(* MaxFailures retries in a row have delivered nothing.                    *)
(***************************************************************************)
EXTENDS Naturals

CONSTANT MaxFailures

VARIABLES
  session,   \* the host's stream is wanted
  running,   \* the video path is running
  retries,   \* retries since something was last delivered
  stop       \* somebody has asked for the end of the session

controlVars == <<session, running, retries, stop>>

Init == ~session /\ ~running /\ retries = 0 /\ ~stop

(* The host, or the bus, wants the stream to end.                           *)
AskStop == stop' = TRUE /\ UNCHANGED <<session, running, retries>>

Begin == /\ session \/ ~running
         /\ session' = TRUE
         /\ UNCHANGED <<running, retries, stop>>

End == /\ stop
       /\ session' = FALSE /\ stop' \in BOOLEAN
       /\ UNCHANGED <<running, retries>>

Run == session /\ running' = TRUE /\ UNCHANGED <<session, retries, stop>>

Halt == running' = FALSE /\ UNCHANGED <<session, retries, stop>>

Deliver == retries' = 0 /\ UNCHANGED <<session, running, stop>>

Retry == /\ session /\ ~running /\ retries < MaxFailures
         /\ retries' = retries + 1
         /\ UNCHANGED <<session, running, stop>>

GiveUp == /\ session /\ ~running /\ retries = MaxFailures
          /\ session' = FALSE /\ retries' = 0
          /\ UNCHANGED <<running, stop>>

Next == \/ AskStop \/ Begin \/ End \/ Run \/ Halt
        \/ Deliver \/ Retry \/ GiveUp

Spec == Init /\ [][Next]_controlVars
=============================================================================
