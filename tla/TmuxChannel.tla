---------------------------- MODULE TmuxChannel ----------------------------
(***************************************************************************)
(* pkg/channel/tmux: a Channel on a tmux pane.  What the pane writes is    *)
(* appended to a log file by the one pipe a pane can have (pipe-pane), and *)
(* read from there; what is written goes to the pane by send-keys.         *)
(*                                                                         *)
(* The operators are the steps of New, Read, Write and Close and of what   *)
(* is around them: the pane, and other users of its pipe.  Output of the   *)
(* pane is numbered.                                                       *)
(***************************************************************************)
EXTENDS Naturals, Sequences

CONSTANT MaxPane   \* bound: pieces of output of the pane

VARIABLES
    pane, pipe,     \* the pane; whose pipe it has
    toggles,        \* does pipe-pane -o only close a pipe that is open?
    out, from,      \* pieces the pane has written; before the pipe was opened
    log, there,     \* the log file: its content, and does it exist?
    attach,         \* progress of New and Close
    pos,            \* how far the open log file has been read
    undone          \* history: which of the steps of Close have failed

\* The pipe may be that of another process, one that crashed included.
TmuxInit ==
    /\ pane = "up" /\ pipe \in {"none", "other"} /\ toggles \in BOOLEAN
    /\ out = 0 /\ from = 0 /\ log = <<>> /\ there = FALSE
    /\ attach = "none" /\ pos = 0 /\ undone = {}

Attaching == {"none", "found", "created", "empty", "piped"}
TmuxTypeOK ==
    /\ pane \in {"up", "gone"} /\ pipe \in {"none", "ours", "other"}
    /\ toggles \in BOOLEAN /\ there \in BOOLEAN
    /\ out \in 0..MaxPane /\ from \in 0..MaxPane /\ pos \in 0..Len(log)
    /\ log \in Seq(1..MaxPane)
    /\ attach \in Attaching \cup
           {"undo", "failed", "open", "marked", "stopped", "shut", "closed"}
    /\ undone \subseteq {"pipe", "log"}

\* A Channel on the same pane after one that has failed or was closed: the log
\* file has a name of its own.
Forget ==
    /\ attach' = "none" /\ log' = <<>> /\ there' = FALSE /\ pos' = 0 /\ undone' = {}
    /\ pipe' = IF pipe = "ours" THEN "other" ELSE pipe
    /\ UNCHANGED <<pane, toggles, out, from>>

-----------------------------------------------------------------------------
(* New.  Only when the log cannot be opened does it undo what it has done. *)

NewFails(next) ==
    /\ attach' = next
    /\ UNCHANGED <<pane, pipe, toggles, out, from, log, there, pos, undone>>

FindPane ==
    /\ attach = "none"
    /\ \/ /\ pane = "up" /\ attach' = "found"
          /\ UNCHANGED <<pane, pipe, toggles, out, from, log, there, pos, undone>>
       \/ NewFails("failed")

ResolveLogPath ==
    /\ attach = "found"
    /\ \/ /\ attach' = "created" /\ there' = TRUE
          /\ UNCHANGED <<pane, pipe, toggles, out, from, log, pos, undone>>
       \/ NewFails("failed")

Truncate ==
    /\ attach = "created"
    /\ \/ /\ attach' = "empty" /\ log' = <<>>
          /\ UNCHANGED <<pane, pipe, toggles, out, from, there, pos, undone>>
       \/ NewFails("failed")

\* A tmux that is killed by the context may have done its work.
Piped == IF pipe = "none" \/ ~toggles THEN "ours" ELSE "none"
PipePane ==
    /\ attach = "empty"
    /\ \/ /\ pane = "up" /\ pipe' = Piped /\ from' = out
          /\ attach' \in {"piped", "failed"}
          /\ UNCHANGED <<pane, toggles, out, log, there, pos, undone>>
       \/ NewFails("failed")

OpenedAfresh == <<>>
Opened == log
OpenLog ==
    /\ attach = "piped"
    /\ \/ /\ attach' = "open" /\ log' = Opened
          /\ UNCHANGED <<pane, pipe, toggles, out, from, there, pos, undone>>
       \/ NewFails("undo")

\* As in Close, an error of either step is ignored.
Undo ==
    /\ attach = "undo"
    /\ attach' = "failed" /\ pipe' \in {"none", pipe} /\ there' \in BOOLEAN
    /\ UNCHANGED <<pane, toggles, out, from, log, pos, undone>>

TmuxNew == FindPane \/ ResolveLogPath \/ Truncate \/ PipePane \/ OpenLog \/ Undo

-----------------------------------------------------------------------------
(* tmux and the pane (not part of the repository).                         *)

PaneWrites ==
    /\ pane = "up" /\ out < MaxPane
    /\ out' = out + 1
    /\ log' = IF pipe = "ours" THEN Append(log, out + 1) ELSE log
    /\ UNCHANGED <<pane, pipe, toggles, from, there, attach, pos, undone>>

PaneDies ==
    /\ pane = "up" /\ pane' = "gone" /\ pipe' = "none"
    /\ UNCHANGED <<toggles, out, from, log, there, attach, pos, undone>>

\* Somebody else uses pipe-pane on the pane.
OtherPipes ==
    /\ pane = "up" /\ pipe' \in {"none", "other"} \ {pipe}
    /\ UNCHANGED <<pane, toggles, out, from, log, there, attach, pos, undone>>

-----------------------------------------------------------------------------
(* Read, one look at the log; and Write, one send-keys: the session hands  *)
(* over no more than ChunkSize at a time.                                  *)

LogCanBeRead == pos <= Len(log)
LogHasMore == pos < Len(log)
ReadLog ==
    /\ attach = "open" /\ LogHasMore
    /\ pos' = pos + 1
    /\ UNCHANGED <<pane, pipe, toggles, out, from, log, there, attach, undone>>

\* Read returns ErrChannelClosed.
ReadChannelClosed == attach \in {"marked", "stopped", "shut", "closed"}
KeysAccepted == attach = "open" /\ pane = "up"

\* Can bytes reach the pane, and an answer come back?
TmuxConnected == KeysAccepted /\ pipe = "ours"

-----------------------------------------------------------------------------
(* Close.  An error of tmux or of the removal is ignored: it leaves the    *)
(* pipe or the log where it is.                                            *)

MarkClosed ==
    /\ attach = "open"
    /\ attach' = "marked"
    /\ UNCHANGED <<pane, pipe, toggles, out, from, log, there, pos, undone>>

\* pipe-pane without a command closes the pipe, whosesoever it is.
PipeStopped == "none"
StopPipe ==
    /\ attach = "marked"
    /\ \/ pipe' = PipeStopped /\ UNCHANGED undone
       \/ pipe' = pipe /\ undone' = undone \cup {"pipe"}
    /\ attach' = "stopped"
    /\ UNCHANGED <<pane, toggles, out, from, log, there, pos>>

CloseLog ==
    /\ attach = "stopped"
    /\ attach' = "shut"
    /\ UNCHANGED <<pane, pipe, toggles, out, from, log, there, pos, undone>>

RemoveLog ==
    /\ attach = "shut"
    /\ \/ there' = FALSE /\ UNCHANGED undone
       \/ there' = there /\ undone' = undone \cup {"log"}
    /\ attach' = "closed"
    /\ UNCHANGED <<pane, pipe, toggles, out, from, log, pos>>

TmuxClose == MarkClosed \/ StopPipe \/ CloseLog \/ RemoveLog
TmuxAround == PaneWrites \/ PaneDies \/ OtherPipes

\* Nothing of it is left, but for what its own step in Close failed to undo.
TmuxGone ==
    /\ pipe = "ours" => "pipe" \in undone
    /\ there => "log" \in undone

\* Read returns what the pane has written since the pipe was opened, all of it
\* and in order, for as long as the pipe is there.
ReadsFromAttach ==
    attach = "open" => \A i \in 1..Len(log) : log[i] = from + i
=============================================================================
