---------------------------- MODULE RequestReply ----------------------------
(***************************************************************************)
(* What a DNSCrypt exchange promises its client, with the encryption left  *)
(* out: a request is asked once; the resolver serves it; the client is     *)
(* answered only with the answer to a request that was served, and it may  *)
(* instead fail at any point before that: its send fails, or it times   *)
(* out waiting.                                                            *)
(***************************************************************************)
CONSTANTS Requests

VARIABLES status

Init == status = [r \in Requests |-> "idle"]

Ask(r) ==
    /\ status[r] = "idle"
    /\ status' = [status EXCEPT ![r] = "asked"]

\* The resolver has processed the request and produced its answer.
Serve(r) ==
    /\ status[r] = "asked"
    /\ status' = [status EXCEPT ![r] = "served"]

\* The client gets the answer to its own request.
Answer(r) ==
    /\ status[r] = "served"
    /\ status' = [status EXCEPT ![r] = "answered"]

Fail(r) ==
    /\ status[r] \in {"idle", "asked", "served"}
    /\ status' = [status EXCEPT ![r] = "failed"]

Next == \E r \in Requests : Ask(r) \/ Serve(r) \/ Answer(r) \/ Fail(r)

Spec == Init /\ [][Next]_status

=============================================================================
