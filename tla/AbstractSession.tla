-------------------------- MODULE AbstractSession --------------------------
(***************************************************************************)
(* What pkg/session promises to its callers (the Session interface in      *)
(* session.go): calls are serialised by an exclusive lease, the remote     *)
(* shell runs one command at a time and each command at most once, and a   *)
(* call succeeds only when its own command has run to its end.  A call     *)
(* that fails promises nothing: its command may not have run, may still be *)
(* running, or may even start later.                                       *)
(***************************************************************************)
CONSTANTS Calls, NoCall

VARIABLES
    lease,   \* the call that holds the session, or NoCall
    state,   \* each call: not made, waiting, holding the lease, answered
    ran      \* each call's command, as the remote shell sees it

avars == <<lease, state, ran>>

Init ==
    /\ lease = NoCall
    /\ state = [c \in Calls |-> "new"]
    /\ ran = [c \in Calls |-> "no"]

Invoke(c) ==
    /\ state[c] = "new"
    /\ state' = [state EXCEPT ![c] = "waiting"]
    /\ UNCHANGED <<lease, ran>>

Refuse(c) ==
    /\ state[c] = "new"
    /\ state' = [state EXCEPT ![c] = "failed"]
    /\ UNCHANGED <<lease, ran>>

Grant(c) ==
    /\ state[c] = "waiting" /\ lease = NoCall
    /\ state' = [state EXCEPT ![c] = "holding"]
    /\ lease' = c
    /\ UNCHANGED ran

\* The command starts once, alone, after its call got the lease.
Start(c) ==
    /\ state[c] \in {"holding", "failed"} /\ ran[c] = "no"
    /\ \A d \in Calls : ran[d] # "running"
    /\ ran' = [ran EXCEPT ![c] = "running"]
    /\ UNCHANGED <<lease, state>>

End(c) ==
    /\ ran[c] = "running"
    /\ \E r \in {"done", "aborted"} : ran' = [ran EXCEPT ![c] = r]
    /\ UNCHANGED <<lease, state>>

Succeed(c) ==
    /\ state[c] = "holding" /\ ran[c] = "done"
    /\ state' = [state EXCEPT ![c] = "succeeded"]
    /\ lease' = NoCall
    /\ UNCHANGED ran

Fail(c) ==
    /\ state[c] = "holding"
    /\ state' = [state EXCEPT ![c] = "failed"]
    /\ lease' = NoCall
    /\ UNCHANGED ran

Next ==
    \E c \in Calls :
        \/ Invoke(c) \/ Refuse(c) \/ Grant(c)
        \/ Start(c) \/ End(c)
        \/ Succeed(c) \/ Fail(c)

Spec == Init /\ [][Next]_avars
=============================================================================
