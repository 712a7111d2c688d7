----------------------------- MODULE Bootstrap -----------------------------
(***************************************************************************)
(* pkg/bootstrap: the agent is put on the remote, either by a Write of     *)
(* ShellBackend or by a script that the remote runs to fetch it; used by   *)
(* `ptyrelay bootstrap' (cmd_agent.go) and by --install.                   *)
(*                                                                         *)
(* Each Bootstrap is a program with a session of its own; several install  *)
(* to the same path.  One framed command is one step, and a Write of       *)
(* ShellBackend is one by AbstractFiles; but the script is a process of    *)
(* the remote, step by step, that can be killed and can outlive the call.  *)
(***************************************************************************)
EXTENDS FiniteSets

CONSTANTS Boots, NoFile
ASSUME BootsAssumption == IsFiniteSet(Boots) /\ NoFile \notin Boots \X {"whole", "wrong", "part"}

VARIABLES
    opts,          \* of each: binary from a URL? compressed? is its sha256 known?
    pc, res,       \* each Bootstrap
    sh,            \* its script, once it runs
    script,        \* is the script staged on the remote?
    tmp, gz,       \* its temporary file, and the compressed one
    installed,     \* what the install path holds
    sameFs,        \* is the install path on the file system of $TMPDIR?
    put, broken    \* history: who has replaced the file at the path; whose
                   \* commands were cancelled or lost

local == <<opts, pc, res>>
remote == <<sh, script, tmp, gz, installed>>
vars == <<local, remote, sameFs, put, broken>>

Options == {o \in [url : BOOLEAN, gz : BOOLEAN, sha : BOOLEAN] :
                ~o.url => ~o.gz /\ ~o.sha}
Init ==
    /\ opts \in [Boots -> Options]
    /\ pc = [b \in Boots |-> "uname"] /\ res = [b \in Boots |-> "none"]
    /\ sh = [b \in Boots |-> "none"] /\ script = [b \in Boots |-> FALSE]
    /\ tmp = [b \in Boots |-> NoFile] /\ gz = [b \in Boots |-> NoFile]
    /\ installed = NoFile /\ sameFs \in BOOLEAN
    /\ put = {} /\ broken = {}

Goto(b, l) == pc' = [pc EXCEPT ![b] = l] /\ UNCHANGED <<opts, res>>
Return(b, r) ==
    /\ pc' = [pc EXCEPT ![b] = "done"] /\ res' = [res EXCEPT ![b] = r]
    /\ UNCHANGED opts
Script(b, l) == sh' = [sh EXCEPT ![b] = l]

-----------------------------------------------------------------------------
(* Bootstrap.  An error of any command is the end of it.                   *)

AfterCommand(b) ==
    CASE pc[b] = "uname" -> "home"
      [] pc[b] = "home"  -> "mkdir"
      [] pc[b] = "mkdir" -> IF opts[b].url THEN "stage" ELSE "write"
Command(b) ==
    /\ pc[b] \in {"uname", "home", "mkdir"}
    /\ Goto(b, AfterCommand(b)) \/ Return(b, "error")
    /\ UNCHANGED <<remote, sameFs, put, broken>>

Whole(b) == <<b, "whole">>
Write(b) ==
    /\ pc[b] = "write"
    /\ installed' = Whole(b) /\ put' = put \cup {b}
    /\ \/ Goto(b, "verify") /\ UNCHANGED broken
       \/ Return(b, "error") /\ broken' = broken \cup {b}
    /\ UNCHANGED <<sh, script, tmp, gz, sameFs>>

\* No binary for this target, or a Write that fails and leaves nothing.
WriteFails(b) ==
    /\ pc[b] = "write"
    /\ Return(b, "error")
    /\ UNCHANGED <<remote, sameFs, put, broken>>

Stage(b) ==
    /\ pc[b] = "stage"
    /\ script' = [script EXCEPT ![b] = TRUE]
    /\ \/ Goto(b, "run") /\ UNCHANGED broken
       \/ Return(b, "error") /\ broken' = broken \cup {b}
    /\ UNCHANGED <<sh, tmp, gz, installed, sameFs, put>>
StageFails(b) ==
    /\ pc[b] = "stage"
    /\ Return(b, "error")
    /\ UNCHANGED <<remote, sameFs, put, broken>>

Run(b) ==
    /\ pc[b] = "run"
    /\ Script(b, "mktemp") /\ Goto(b, "wait")
    /\ UNCHANGED <<script, tmp, gz, installed, sameFs, put, broken>>

\* `exit $__rc', after `rm -f' of the script.
CodeOfRm(b) == TRUE
CodeOfScript(b) == sh[b] = "exit 0"
ScriptEnds(b) ==
    /\ pc[b] = "wait" /\ sh[b] \in {"exit 0", "exit 1"}
    /\ script' = [script EXCEPT ![b] = FALSE]
    /\ IF CodeOfScript(b) THEN Goto(b, "verify") ELSE Return(b, "error")
    /\ UNCHANGED <<sh, tmp, gz, installed, sameFs, put, broken>>

\* Cancelled: ^C kills the script and the shell that would remove it.
Cancelled(b) ==
    /\ pc[b] = "wait" /\ sh[b] = "killed"
    /\ Return(b, "error")
    /\ UNCHANGED <<remote, sameFs, put, broken>>

\* The session is lost, and the script is left to itself.
Lost(b) ==
    /\ pc[b] = "wait"
    /\ Return(b, "error")
    /\ broken' = broken \cup {b}
    /\ UNCHANGED <<remote, sameFs, put>>

\* VerifyInstall, a ping of whatever is at the path, unless --verify=false.
Verify(b) ==
    /\ pc[b] = "verify"
    /\ \/ Return(b, "installed")
       \/ installed # NoFile /\ installed[2] = "whole" /\ Return(b, "verified")
       \/ Return(b, "error")
    /\ UNCHANGED <<remote, sameFs, put, broken>>

-----------------------------------------------------------------------------
(* The script of fetchOnRemote, with `set -e' and a trap on EXIT.          *)

ToTrap(b) == Script(b, "trap") /\ UNCHANGED <<tmp, gz>>
AfterFetch(b) ==
    IF opts[b].gz THEN "mv gz" ELSE IF opts[b].sha THEN "check" ELSE "chmod"
AfterGunzipUnchecked(b) == "chmod"
AfterGunzip(b) == IF opts[b].sha THEN "check" ELSE "chmod"
File(f, b, q) == [f EXCEPT ![b] = <<b, q>>]
None(f, b) == [f EXCEPT ![b] = NoFile]

Mktemp(b) ==
    /\ sh[b] = "mktemp"
    /\ \/ tmp' = File(tmp, b, "part") /\ Script(b, "fetch") /\ UNCHANGED gz
       \/ ToTrap(b)

\* Without a digest, nobody notices a wrong file.
Fetch(b) ==
    /\ sh[b] = "fetch"
    /\ \/ \E q \in {"whole", "wrong"} : tmp' = File(tmp, b, q)
          /\ Script(b, AfterFetch(b)) /\ UNCHANGED gz
       \/ ToTrap(b)

MoveGz(b) ==
    /\ sh[b] = "mv gz"
    /\ \/ gz' = [gz EXCEPT ![b] = tmp[b]] /\ tmp' = None(tmp, b) /\ Script(b, "gunzip")
       \/ ToTrap(b)

Gunzip(b) ==
    /\ sh[b] = "gunzip"
    /\ \/ tmp' = File(tmp, b, gz[b][2]) /\ Script(b, "rm gz")
       \/ tmp' = File(tmp, b, "part") /\ Script(b, "trap")
    /\ UNCHANGED gz

TmpForGz(b) == tmp' = None(tmp, b) /\ UNCHANGED gz
Unzipped(b) == gz' = None(gz, b) /\ UNCHANGED tmp
RemoveGz(b) ==
    /\ sh[b] = "rm gz"
    /\ \/ Unzipped(b) /\ Script(b, AfterGunzip(b))
       \/ ToTrap(b)

Check(b) ==
    /\ sh[b] = "check"
    /\ \/ tmp[b] = Whole(b) /\ Script(b, "chmod") /\ UNCHANGED <<tmp, gz>>
       \/ ToTrap(b)

Chmod(b) ==
    /\ sh[b] = "chmod"
    /\ \/ Script(b, "mv") /\ UNCHANGED <<tmp, gz>>
       \/ ToTrap(b)

TmpOnly(b) == UNCHANGED gz
TmpAndGz(b) == gz' = None(gz, b)
Trap(b) ==
    /\ sh[b] = "trap"
    /\ tmp' = None(tmp, b) /\ TmpAndGz(b)
    /\ Script(b, "exit 1")

ScriptStep(b) ==
    /\ Mktemp(b) \/ Fetch(b) \/ MoveGz(b) \/ Gunzip(b) \/ RemoveGz(b) \/ Check(b)
       \/ Chmod(b) \/ Trap(b)
    /\ UNCHANGED <<local, script, installed, sameFs, put, broken>>

\* A rename within one file system, a copy between two.
Move(b) ==
    /\ \/ sh[b] = "mv" /\ sameFs
       \/ sh[b] = "copy"
    /\ installed' = tmp[b] /\ tmp' = None(tmp, b)
    /\ Script(b, "exit 0")
    /\ put' = put \cup {b}
    /\ UNCHANGED <<local, script, gz, sameFs, broken>>

Copy(b) ==
    /\ sh[b] = "mv" /\ ~sameFs
    /\ installed' = <<b, "part">>
    /\ Script(b, "copy")
    /\ UNCHANGED <<local, script, tmp, gz, sameFs, put, broken>>

MoveFails(b) ==
    /\ sh[b] \in {"mv", "copy"}
    /\ ToTrap(b)
    /\ UNCHANGED <<local, script, installed, sameFs, put, broken>>

\* A signal, of the cancellation or of a terminal that goes away.  Not every
\* shell runs the trap then.
Running(b) == sh[b] \notin {"none", "exit 0", "exit 1", "killed"}
Killed(b) ==
    /\ Running(b)
    /\ Script(b, "killed")
    /\ \/ tmp' = None(tmp, b) /\ gz' = None(gz, b)
       \/ UNCHANGED <<tmp, gz>>
    /\ broken' = broken \cup {b}
    /\ UNCHANGED <<local, script, installed, sameFs, put>>

-----------------------------------------------------------------------------
Step(b) ==
    \/ Command(b) \/ Write(b) \/ WriteFails(b) \/ Stage(b) \/ StageFails(b) \/ Run(b)
    \/ ScriptEnds(b) \/ Cancelled(b) \/ Lost(b) \/ Verify(b)
    \/ ScriptStep(b) \/ Move(b) \/ Copy(b) \/ MoveFails(b) \/ Killed(b)
Next == \E b \in Boots : Step(b)

Spec == Init /\ [][Next]_vars

-----------------------------------------------------------------------------
(* Correctness.                                                            *)

Contents == (Boots \X {"whole", "wrong", "part"}) \cup {NoFile}

\* Every variable has its type, and a step of a script finds the file it works on.
TypeOK ==
    /\ opts \in [Boots -> Options]
    /\ pc \in [Boots -> {"uname", "home", "mkdir", "write", "stage", "run", "wait",
                         "verify", "done"}]
    /\ res \in [Boots -> {"none", "error", "installed", "verified"}]
    /\ sh \in [Boots -> {"none", "mktemp", "fetch", "mv gz", "gunzip", "rm gz", "check",
                         "chmod", "mv", "copy", "trap", "exit 0", "exit 1", "killed"}]
    /\ script \in [Boots -> BOOLEAN] /\ sameFs \in BOOLEAN
    /\ tmp \in [Boots -> Contents] /\ gz \in [Boots -> Contents] /\ installed \in Contents
    /\ put \subseteq Boots /\ broken \subseteq Boots
    /\ \A b \in Boots :
           /\ sh[b] \in {"fetch", "mv gz", "rm gz", "check", "chmod", "mv", "copy"} =>
                  tmp[b] # NoFile
           /\ sh[b] \in {"gunzip", "rm gz"} => gz[b] # NoFile

\* The install path never shows part of a binary, and nothing else than the binary
\* of somebody who did not give its sha256: although installations overlap, are
\* killed halfway, or go on after their caller has gone.  A script whose temporary
\* file is on another file system does not promise the first.
PathIsWhole ==
    installed # NoFile =>
        /\ installed[2] = "part" => ~sameFs
        /\ installed[2] = "wrong" => opts[installed[1]].url /\ ~opts[installed[1]].sha

\* A Bootstrap that reports success has put its binary at the path: no failure of
\* a step of the script is lost on the way through the shells around it.
SuccessIsInstalled ==
    \A b \in Boots : res[b] \in {"installed", "verified"} => b \in put

\* fetch.go: "on failure the tempfile is removed so a retry starts clean."  That
\* includes the compressed file and the script, unless a command was killed or lost;
\* the `rm -f' of the trap, and that of the script, are taken to work.
RetryStartsClean ==
    \A b \in Boots \ broken :
        pc[b] = "done" => tmp[b] = NoFile /\ gz[b] = NoFile /\ ~script[b]
=============================================================================
