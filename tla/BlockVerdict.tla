--------------------------- MODULE BlockVerdict ---------------------------
(***************************************************************************)
(* What CCheckQueueControl promises to ConnectBlock: between construction  *)
(* and the return of Wait() the caller hands over checks, and Wait()       *)
(* answers whether all of them succeed.  No threads, no queue, no          *)
(* counters.                                                               *)
(***************************************************************************)
CONSTANTS Checks, BadChecks

VARIABLES phase,    \* "idle", "adding", "waiting" or "aborted"
          asked,    \* checks handed over to the control
          verdict   \* the last answer of Wait()

vars == <<phase, asked, verdict>>

Init == phase = "idle" /\ asked = {} /\ verdict = TRUE

(* CCheckQueueControl is constructed (or its assertions fail). *)
Begin ==
    /\ phase = "idle"
    /\ phase' \in {"adding", "aborted"}
    /\ asked' = {}
    /\ UNCHANGED verdict

(* control.Add(vChecks) *)
Add ==
    /\ phase = "adding"
    /\ \E vs \in SUBSET (Checks \ asked) : asked' = asked \cup vs
    /\ UNCHANGED <<phase, verdict>>

(* control.Wait() is called ... *)
Ask ==
    /\ phase = "adding"
    /\ phase' = "waiting"
    /\ UNCHANGED <<asked, verdict>>

(* ... and returns. *)
Answer ==
    /\ phase = "waiting"
    /\ phase' = "idle"
    /\ verdict' = (asked \cap BadChecks = {})
    /\ UNCHANGED asked

Next == Begin \/ Add \/ Ask \/ Answer

Spec == Init /\ [][Next]_vars
=============================================================================
