------------------------------- MODULE RpcCalls -------------------------------
(***************************************************************************)
(* What a connection promises the callers of invoke() and close(), without *)
(* ids, timers, sockets or breaker: a call is answered at most once, the   *)
(* link goes down once, and when that is the doing of close() alone, every *)
(* call that was pending at the first close() has been answered before.    *)
(***************************************************************************)
CONSTANT Req

VARIABLES call,            \* idle, pending or answered
          link,            \* up, draining (close() was called) or down
          owed,            \* calls the first close() found pending
          broken           \* the link has failed or was cut

vars == <<call, link, owed, broken>>

Init ==
  /\ call = [r \in Req |-> "idle"]
  /\ link = "up"
  /\ owed = {}
  /\ broken = FALSE

Pending == {r \in Req : call[r] = "pending"}

Issue(r) ==
  /\ call[r] = "idle"
  /\ call' = [call EXCEPT ![r] = "pending"]
  /\ UNCHANGED <<link, owed, broken>>

\* invoke() throws.
Reject(r) ==
  /\ call[r] = "idle"
  /\ call' = [call EXCEPT ![r] = "answered"]
  /\ UNCHANGED <<link, owed, broken>>

Answer(r) ==
  /\ call[r] = "pending"
  /\ call' = [call EXCEPT ![r] = "answered"]
  /\ owed' = owed \ {r}
  /\ UNCHANGED <<link, broken>>

\* The caller goes on to its next call.
Renew(r) ==
  /\ call[r] = "answered"
  /\ call' = [call EXCEPT ![r] = "idle"]
  /\ UNCHANGED <<link, owed, broken>>

Drain ==
  /\ link = "up"
  /\ link' = "draining"
  /\ owed' = Pending
  /\ UNCHANGED <<call, broken>>

\* `ids` are answered with an error.
Cancel(ids) ==
  /\ call' = [r \in Req |-> IF r \in ids THEN "answered" ELSE call[r]]
  /\ owed' = owed \ ids

\* The link fails or is cut, which may cancel some of the pending calls at once.
Break(ids) ==
  /\ link # "down"
  /\ broken' = TRUE
  /\ Cancel(ids)
  /\ UNCHANGED link

\* close() owes nothing any more: the calls that came after it may be cancelled.
Dismiss(ids) ==
  /\ link = "draining"
  /\ owed = {}
  /\ Cancel(ids)
  /\ UNCHANGED <<link, broken>>

\* Whatever is pending now is answered with the link's end.
GoDown ==
  /\ link # "down"
  /\ broken \/ (link = "draining" /\ owed = {})
  /\ link' = "down"
  /\ call' = [r \in Req |-> IF r \in Pending THEN "answered" ELSE call[r]]
  /\ owed' = {}
  /\ UNCHANGED broken

Next ==
  \/ \E r \in Req : Issue(r) \/ Reject(r) \/ Answer(r) \/ Renew(r)
  \/ \E ids \in SUBSET Pending : Break(ids) \/ Dismiss(ids)
  \/ Drain \/ GoDown

Spec == Init /\ [][Next]_vars
=============================================================================
