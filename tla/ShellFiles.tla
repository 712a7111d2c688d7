----------------------------- MODULE ShellFiles -----------------------------
(***************************************************************************)
(* pkg/backend/shell: the file operations of ShellBackend, each a sequence *)
(* of framed commands on one remote directory, called by several           *)
(* goroutines and broken off at any command.                               *)
(*                                                                         *)
(* One framed command is one step: by AbstractSession the remote runs one  *)
(* command at a time and each at most once.  A command whose answer is     *)
(* lost has run, or has not, or has run in part.  Data is a sequence of    *)
(* pieces, one for each chunk of a Write.                                  *)
(***************************************************************************)
EXTENDS Naturals, Sequences, FiniteSets

CONSTANTS
    Calls, NoCall,  \* the operations
    Paths,          \* names in the directory
    Dirs,           \* the names that are directories themselves
    Kinds,          \* operations called: read, write, remove, rename, list, probe
    Limit,          \* maxShellFileSize, in chunks
    HasSha,         \* has the remote a sha256 tool?
    Gnu,            \* has the remote GNU stat and xargs?
    SeesStderr,     \* does stderr reach the channel, as it does with a PTY?
    Faults,         \* what can happen to a command: exit, cancel, corrupt, lost
    MayClose        \* may Backend.Close be called?

ASSUME CallsAssumption == NoCall \notin Calls /\ IsFiniteSet(Calls)
ASSUME PathsAssumption == Dirs \subseteq Paths /\ IsFiniteSet(Paths)
ASSUME OptionsAssumption ==
    /\ Kinds \subseteq {"read", "write", "remove", "rename", "list", "probe"}
    /\ Faults \subseteq {"exit", "cancel", "corrupt", "lost"}
    /\ Limit \in Nat \ {0}
    /\ HasSha \in BOOLEAN /\ Gnu \in BOOLEAN
    /\ SeesStderr \in BOOLEAN /\ MayClose \in BOOLEAN

\* A piece that did not survive the trip has number 0.
Pieces == (Calls \cup {NoCall}) \X (0..(Limit + 1))
File(data) == [there |-> TRUE, data |-> data]
NoFile == [there |-> FALSE, data |-> <<>>]
Sized(c, n) == [i \in 1..n |-> <<c, i>>]

Requests ==
    {r \in [kind : Kinds, path : Paths, to : Paths, size : 0..(Limit + 1)] :
        /\ r.kind = "rename" <=> r.path # r.to
        /\ r.kind # "write" => r.size = 0}

VARIABLES
    mu, probed, closed,   \* the Backend: its mutex, b.probed, b.closedFlag
    request, pc, res,     \* each operation: its arguments, where it is, result
    staged, got,          \* chunks a Write has staged; what a Read has returned
    fs, temp,             \* the directory; the temporary file of each Write
    dead                  \* has the session been lost?

bk   == <<mu, probed, closed>>
op   == <<request, pc, res, staged, got>>
disk == <<fs, temp>>
vars == <<bk, op, disk, dead>>

Init ==
    /\ mu = NoCall /\ probed = FALSE /\ closed = FALSE /\ dead = FALSE
    /\ request \in [Calls -> Requests]
    /\ pc = [c \in Calls |-> "new"]
    /\ res = [c \in Calls |-> "none"]
    /\ staged = [c \in Calls |-> 0]
    /\ got = [c \in Calls |-> NoFile]
    /\ temp = [c \in Calls |-> NoFile]
    /\ \E n \in {1, Limit + 1}, S \in SUBSET Paths :
           /\ Dirs \subseteq S
           /\ fs = [p \in Paths |-> IF p \notin S THEN NoFile
                                    ELSE IF p \in Dirs THEN File(<<>>)
                                    ELSE File(Sized(NoCall, n))]

Kind(c) == request[c].kind
Path(c) == request[c].path
Whole(c) == Sized(c, request[c].size)
Goto(c, l) == pc' = [pc EXCEPT ![c] = l]
Return(c, r) == Goto(c, "done") /\ res' = [res EXCEPT ![c] = r]

-----------------------------------------------------------------------------
(* ensureProbed and Probe, which holds b.mu while it runs its command.     *)

FirstCommand(c) ==
    CASE Kind(c) = "write" -> "stage"
      [] Kind(c) = "read"  -> "stat"
      [] OTHER             -> "command"

\* A Write that is too large is refused before anything else.
Begin(c) ==
    /\ pc[c] = "new"
    /\ IF Kind(c) = "write" /\ request[c].size > Limit
       THEN Return(c, "too_large")
       ELSE Goto(c, IF Kind(c) = "probe" THEN "probe" ELSE "ensure") /\ UNCHANGED res
    /\ UNCHANGED <<bk, request, staged, got, disk, dead>>

Ensure(c) ==
    /\ pc[c] = "ensure" /\ mu = NoCall
    /\ IF closed THEN Return(c, "error")
       ELSE Goto(c, IF probed THEN FirstCommand(c) ELSE "probe") /\ UNCHANGED res
    /\ UNCHANGED <<bk, request, staged, got, disk, dead>>

ProbeLocks(c) ==
    /\ pc[c] = "probe" /\ mu = NoCall
    /\ IF closed THEN Return(c, "error") /\ UNCHANGED mu
       ELSE mu' = c /\ Goto(c, "detect") /\ UNCHANGED res
    /\ UNCHANGED <<probed, closed, request, staged, got, disk, dead>>

\* detect, one framed command.
Detect(c) ==
    /\ pc[c] = "detect"
    /\ mu' = NoCall
    /\ \/ /\ ~dead
          /\ probed' = TRUE
          /\ IF Kind(c) = "probe" THEN Return(c, "ok") ELSE Goto(c, "probed") /\ UNCHANGED res
          /\ UNCHANGED dead
       \/ /\ dead \/ Faults # {}
          /\ dead' \in {dead, dead \/ "lost" \in Faults}
          /\ Return(c, "error")
          /\ UNCHANGED probed
    /\ UNCHANGED <<closed, request, staged, got, disk>>

\* Back in ensureProbed, which does not look at closedFlag again.
Probed(c) ==
    /\ pc[c] = "probed" /\ mu = NoCall
    /\ Goto(c, FirstCommand(c))
    /\ UNCHANGED <<bk, request, res, staged, got, disk, dead>>

Close ==
    /\ MayClose /\ mu = NoCall /\ ~closed
    /\ closed' = TRUE
    /\ UNCHANGED <<mu, probed, op, disk, dead>>

-----------------------------------------------------------------------------
(* runMustSucceed and runShell.                                            *)

\* A Write that fails after it has named its temporary file cleans up.
Fail(c) ==
    IF Kind(c) = "write"
    THEN Goto(c, "cleanup") /\ UNCHANGED res
    ELSE Return(c, "error")

\* The command does nothing and exits non-zero, or the call is refused; or it
\* was cut off, cancelled or lost, with the directory as one of `after' has it.
Refused(c) ==
    /\ dead \/ "exit" \in Faults
    /\ Fail(c)
    /\ UNCHANGED <<disk, dead>>
CutOff(c, after) ==
    /\ ~dead
    /\ \E d \in after \cup {<<fs, temp>>} : fs' = d[1] /\ temp' = d[2]
    /\ \/ "cancel" \in Faults /\ UNCHANGED dead
       \/ "lost" \in Faults /\ dead' = TRUE
    /\ Fail(c)

-----------------------------------------------------------------------------
(* Write.                                                                  *)

\* tempPathFor: a random name of its own for each Write.
OneTempPerPath(c) == CHOOSE d \in Calls : Kind(d) = "write" /\ Path(d) = Path(c)
TempOf(c) == c

\* Chunk i overwrites the temporary file or is appended to it; empty data has
\* one command too, which only creates the file.
WithPiece(f, piece) == File(f.data \o piece)
Staged(c, piece) ==
    LET before == IF staged[c] = 0 THEN NoFile ELSE temp[TempOf(c)]
    IN [temp EXCEPT ![TempOf(c)] = WithPiece(before, piece)]
Piece(c) == IF request[c].size = 0 THEN <<>> ELSE <<<<c, staged[c] + 1>>>>
Damaged(c) == IF request[c].size = 0 THEN <<>> ELSE <<<<c, 0>>>>
LastChunkOffByOne(c) == staged[c] >= request[c].size
LastChunk(c) == staged[c] + 1 >= request[c].size

Stage(c) ==
    /\ pc[c] = "stage" /\ ~dead
    /\ \/ temp' = Staged(c, Piece(c))
       \/ "corrupt" \in Faults /\ temp' = Staged(c, Damaged(c))
    /\ staged' = [staged EXCEPT ![c] = @ + 1]
    /\ Goto(c, IF ~LastChunk(c) THEN "stage" ELSE IF HasSha THEN "verify" ELSE "finalize")
    /\ UNCHANGED <<bk, request, res, got, fs, dead>>

StageFails(c) ==
    /\ pc[c] = "stage"
    /\ \/ Refused(c)
       \/ CutOff(c, {<<fs, Staged(c, Piece(c))>>, <<fs, Staged(c, Damaged(c))>>})
    /\ UNCHANGED <<bk, request, staged, got>>

\* The digest of the temporary file against that of the data.
MatchesLength(c) == Len(temp[TempOf(c)].data) = request[c].size
Matches(c) == temp[TempOf(c)] = File(Whole(c))
Verify(c) ==
    /\ pc[c] = "verify" /\ ~dead
    /\ IF Matches(c) THEN Goto(c, "finalize") /\ UNCHANGED res ELSE Fail(c)
    /\ UNCHANGED <<bk, request, staged, got, disk, dead>>

VerifyFails(c) ==
    /\ pc[c] = "verify"
    /\ Refused(c) \/ CutOff(c, {})
    /\ UNCHANGED <<bk, request, staged, got>>

\* chmod and mv.  A directory that has the name of the file receives it.
Renamed(c) == [temp EXCEPT ![TempOf(c)] = NoFile]
Moved(c) ==
    IF Path(c) \in Dirs THEN fs ELSE [fs EXCEPT ![Path(c)] = temp[TempOf(c)]]
Finalize(c) ==
    /\ pc[c] = "finalize" /\ ~dead
    /\ IF temp[TempOf(c)].there
       THEN fs' = Moved(c) /\ temp' = Renamed(c) /\ Return(c, "ok")
       ELSE Fail(c) /\ UNCHANGED disk
    /\ UNCHANGED <<bk, request, staged, got, dead>>

FinalizeFails(c) ==
    /\ pc[c] = "finalize" /\ temp[TempOf(c)].there
    /\ Refused(c) \/ CutOff(c, {<<Moved(c), Renamed(c)>>})
    /\ UNCHANGED <<bk, request, staged, got>>

\* removeBestEffort, under a context of its own that nobody cancels.
CleanupUnderCtx(c) == {temp} \cup {Renamed(c)}
CleanedUp(c) == {Renamed(c)}
Cleanup(c) ==
    /\ pc[c] = "cleanup"
    /\ \/ ~dead /\ temp' \in CleanedUp(c) /\ UNCHANGED dead
       \/ ~dead /\ "lost" \in Faults /\ temp' \in {temp, Renamed(c)} /\ dead' = TRUE
       \/ dead /\ UNCHANGED <<temp, dead>>
    /\ Return(c, "error")
    /\ UNCHANGED <<bk, request, staged, got, fs>>

-----------------------------------------------------------------------------
(* Read, and the operations that are one command.                          *)

\* An error of Stat is not an error of Read.
Stat(c) ==
    /\ pc[c] = "stat"
    /\ \/ /\ ~dead /\ fs[Path(c)].there /\ Len(fs[Path(c)].data) > Limit
          /\ Return(c, "too_large")
       \/ /\ ~dead /\ ~(fs[Path(c)].there /\ Len(fs[Path(c)].data) > Limit)
          /\ Goto(c, "cat") /\ UNCHANGED res
       \/ /\ dead \/ Faults # {}
          /\ Goto(c, "cat") /\ UNCHANGED res
    /\ dead' \in {dead, dead \/ "lost" \in Faults}
    /\ UNCHANGED <<bk, request, staged, got, disk>>

\* cat | base64: the exit code is that of base64.  When there is nothing to
\* read, only the message of cat can tell, which does not decode.
Cat(c) ==
    /\ pc[c] = "cat" /\ ~dead
    /\ IF fs[Path(c)].there \/ ~SeesStderr
       THEN got' = [got EXCEPT ![c] = fs[Path(c)]] /\ Return(c, "ok")
       ELSE UNCHANGED got /\ Return(c, "error")
    /\ UNCHANGED <<bk, request, staged, disk, dead>>

CatFails(c) ==
    /\ pc[c] = "cat"
    /\ Refused(c) \/ CutOff(c, {})
    /\ UNCHANGED <<bk, request, staged, got>>

\* find | xargs stat: GNU xargs runs stat although it has no name to give it.
Listed == {p \in Paths : fs[p].there} \cup {c \in Calls : temp[c].there}
\* Of the single commands: can it do its work, and what is its work?
CanDo(c) ==
    CASE Kind(c) = "rename" -> fs[Path(c)].there
      [] Kind(c) = "remove" -> Path(c) \notin Dirs
      [] Kind(c) = "list"   -> Listed # {} \/ ~Gnu
Done(c) ==
    CASE Kind(c) = "rename" -> [fs EXCEPT ![request[c].to] = fs[Path(c)], ![Path(c)] = NoFile]
      [] Kind(c) = "remove" -> [fs EXCEPT ![Path(c)] = NoFile]
      [] Kind(c) = "list"   -> fs
Command(c) ==
    /\ pc[c] = "command" /\ ~dead
    /\ IF CanDo(c) THEN fs' = Done(c) /\ Return(c, "ok")
       ELSE Return(c, "error") /\ UNCHANGED fs
    /\ UNCHANGED <<bk, request, staged, got, temp, dead>>

CommandFails(c) ==
    /\ pc[c] = "command"
    /\ Refused(c) \/ CutOff(c, IF CanDo(c) THEN {<<Done(c), temp>>} ELSE {})
    /\ UNCHANGED <<bk, request, staged, got>>

-----------------------------------------------------------------------------
Step(c) ==
    \/ Begin(c) \/ Ensure(c) \/ ProbeLocks(c) \/ Detect(c) \/ Probed(c)
    \/ Stage(c) \/ StageFails(c) \/ Verify(c) \/ VerifyFails(c)
    \/ Finalize(c) \/ FinalizeFails(c) \/ Cleanup(c)
    \/ Stat(c) \/ Cat(c) \/ CatFails(c) \/ Command(c) \/ CommandFails(c)
Next == (\E c \in Calls : Step(c)) \/ Close

Spec == Init /\ [][Next]_vars

-----------------------------------------------------------------------------
(* Correctness.                                                            *)

Contents == [there : BOOLEAN, data : Seq(Pieces)]

\* Every variable has its type.
TypeOK ==
    /\ mu \in Calls \cup {NoCall}
    /\ probed \in BOOLEAN /\ closed \in BOOLEAN /\ dead \in BOOLEAN
    /\ request \in [Calls -> Requests]
    /\ pc \in [Calls -> {"new", "ensure", "probe", "detect", "probed", "stage", "verify",
                         "finalize", "cleanup", "stat", "cat", "command", "done"}]
    /\ res \in [Calls -> {"none", "ok", "error", "too_large"}]
    /\ staged \in [Calls -> 0..Limit]
    /\ got \in [Calls -> Contents]
    /\ fs \in [Paths -> Contents] /\ temp \in [Calls -> Contents]

\* While the session lives, a Write that has failed leaves no temporary file
\* behind: not when a chunk was cancelled halfway, and not when its last
\* command took effect although an error was reported.
NoTempLeft ==
    ~dead => \A c \in Calls : pc[c] = "done" => ~temp[c].there

\* How far an operation is for AbstractFiles.
AbsState(c) ==
    IF res[c] = "ok" THEN "ok"
    ELSE IF res[c] # "none" \/ pc[c] = "cleanup" THEN "failed"
    ELSE "pending"
=============================================================================
