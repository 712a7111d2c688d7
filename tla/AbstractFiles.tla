--------------------------- MODULE AbstractFiles ---------------------------
(***************************************************************************)
(* What the RemoteFS interface of pkg/backend/backend.go promises of one   *)
(* directory of files: each operation takes effect at one instant between  *)
(* its call and its return, or not at all.  One that succeeds has taken    *)
(* effect; one that fails may have; one that is marked `again' may take    *)
(* effect more than once before it returns.  A file never holds anything but the   *)
(* complete data of one Write, or what it held at the beginning.           *)
(***************************************************************************)
CONSTANTS
    Calls,      \* the operations
    Paths,      \* names of files
    NoFile      \* what a path without a file holds

VARIABLES
    request,    \* of each call: its kind, its paths, the data of a Write, again
    files,      \* what each path holds
    state,      \* of each call: pending, ok or failed
    got         \* what each Read has returned

avars == <<request, files, state, got>>

Pending == [c \in Calls |-> "pending"]
Init == state = Pending

Answer(c, answers) ==
    /\ state[c] = "pending"
    /\ \E a \in answers : state' = [state EXCEPT ![c] = a]

\* The answers an operation may get once it has taken effect.
Effective(c) == {"ok", "failed"} \cup (IF request[c].again THEN {"pending"} ELSE {})

Write(c) ==
    /\ request[c].kind = "write"
    /\ files' = [files EXCEPT ![request[c].path] = request[c].data]
    /\ Answer(c, Effective(c))
    /\ UNCHANGED <<request, got>>

Rename(c) ==
    /\ request[c].kind = "rename" /\ files[request[c].path] # NoFile
    /\ files' = [files EXCEPT ![request[c].to] = files[request[c].path],
                              ![request[c].path] = NoFile]
    /\ Answer(c, Effective(c))
    /\ UNCHANGED <<request, got>>

Remove(c) ==
    /\ request[c].kind = "remove"
    /\ files' = [files EXCEPT ![request[c].path] = NoFile]
    /\ Answer(c, Effective(c))
    /\ UNCHANGED <<request, got>>

Read(c) ==
    /\ request[c].kind = "read" /\ files[request[c].path] # NoFile
    /\ got' = [got EXCEPT ![c] = files[request[c].path]]
    /\ Answer(c, {"ok"})
    /\ UNCHANGED <<request, files>>

\* Probe and List change nothing.
Other(c) ==
    /\ request[c].kind \in {"probe", "list"}
    /\ Answer(c, {"ok"})
    /\ UNCHANGED <<request, files, got>>

Fail(c) ==
    /\ Answer(c, {"failed"})
    /\ UNCHANGED <<request, files, got>>

Next ==
    \E c \in Calls :
        Write(c) \/ Rename(c) \/ Remove(c) \/ Read(c) \/ Other(c) \/ Fail(c)

Spec == Init /\ [][Next]_avars
=============================================================================
