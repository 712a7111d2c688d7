--------------------------- MODULE RemoteFilesProofs ---------------------------
(***************************************************************************)
(* Theorems about RemoteFiles, for any number of concurrent operations,    *)
(* through the agent or not, on any directory.                             *)
(***************************************************************************)
EXTENDS RemoteFiles, TLAPS

-----------------------------------------------------------------------------
(* The inductive invariant, of each operation.                             *)

\* What kind of operation can be where, and which have a result.
Unstarted == {"new", "ensure", "probe", "detect", "probed"}
PlaceAt(c) ==
    /\ pc[c] \in {"stage", "verify", "finalize", "cleanup"} => Kind(c) = "write"
    /\ pc[c] \in {"stat", "cat"} => Kind(c) = "read"
    /\ pc[c] = "command" => Kind(c) \in {"rename", "remove", "list"}
    /\ pc[c] \in {"ensure", "probed"} => Kind(c) # "probe"
    /\ pc[c] = "done" <=> res[c] # "none"
    /\ c \in turn => Kind(c) # "probe"

\* How many chunks a Write has staged, when it is not too large to begin with.
StagedAt(c) ==
    /\ pc[c] \in Unstarted => staged[c] = 0
    /\ pc[c] \in Unstarted \ {"new"} /\ Kind(c) = "write" => request[c].size <= Limit
    /\ pc[c] = "stage" => request[c].size <= Limit
                          /\ (staged[c] < request[c].size \/ (request[c].size = 0 /\ staged[c] = 0))
    /\ pc[c] \in {"verify", "finalize"} =>
           staged[c] >= 1 /\ (request[c].size = 0 \/ staged[c] = request[c].size)

\* The temporary file is there only while the Write may use it; nobody removes it
\* when the session is lost.  If the channel damages nothing it holds what was
\* staged, and if there is a digest, all of the data when it is moved.
TempAt(c) ==
    /\ temp[c].there => \/ pc[c] \in {"stage", "verify", "finalize", "cleanup"}
                        \/ pc[c] = "done" /\ dead
    /\ pc[c] \in {"verify", "finalize"} \/ (pc[c] = "stage" /\ staged[c] > 0) =>
           /\ temp[c].there
           /\ "corrupt" \notin Faults =>
                  temp[c] = File(IF request[c].size = 0 THEN <<>> ELSE Sized(c, staged[c]))
    /\ pc[c] = "finalize" /\ HasSha => temp[c] = File(Whole(c))

CallInv(c) == PlaceAt(c) /\ StagedAt(c) /\ TempAt(c)
IInv == RemoteTypeOK /\ \A c \in Calls : CallInv(c)

\* A step of an operation: of ShellBackend, or of the agent it begins at.
AgentStep(c) == AgentAnswers(c) \/ AgentRefuses(c) \/ AgentCutOff(c)
CallStep(c) == AgentStep(c) \/ (c \notin turn /\ Step(c) /\ UNCHANGED agent)

-----------------------------------------------------------------------------
(* What the files hold.                                                    *)

\* The chunks of a Write, none of them damaged.
LEMMA SizedType ==
    ASSUME NEW c \in Calls \cup {NoCall}, NEW n \in 0..(Limit + 1)
    PROVE  Sized(c, n) \in Seq(Pieces) /\ Len(Sized(c, n)) = n
  <1>1. \A i \in 1..n : <<c, i>> \in Pieces
    BY OptionsAssumption DEF Pieces
  <1> QED BY <1>1 DEF Sized

\* One more chunk.
LEMMA OneMore ==
    ASSUME NEW c \in Calls, NEW n \in 0..Limit
    PROVE  Sized(c, n) \o <<<<c, n + 1>>>> = Sized(c, n + 1)
  <1> DEFINE s == Sized(c, n)
             t == s \o <<<<c, n + 1>>>>
  <1>1. s \in Seq(Pieces) /\ Len(s) = n /\ <<c, n + 1>> \in Pieces
    <2>1. n \in 0..(Limit + 1) /\ n + 1 \in 0..(Limit + 1) /\ n \in Nat
      BY OptionsAssumption
    <2> QED BY <2>1, SizedType DEF Pieces
  <1>2. t \in Seq(Pieces) /\ Len(t) = n + 1
    BY <1>1
  <1>3. \A i \in 1..(n + 1) : t[i] = <<c, i>>
    <2> SUFFICES ASSUME NEW i \in 1..(n + 1) PROVE t[i] = <<c, i>>
      OBVIOUS
    <2>1. CASE i \in 1..n
      <3>1. t[i] = s[i]
        BY <1>1, <2>1
      <3> QED BY <2>1, <3>1 DEF Sized
    <2>2. CASE i = n + 1
      BY <1>1, <2>2
    <2>3. i \in 1..n \/ i = n + 1
      BY OptionsAssumption
    <2> QED BY <2>1, <2>2, <2>3
  <1>4. t = [i \in 1..(n + 1) |-> t[i]]
    BY <1>2
  <1> QED BY <1>3, <1>4 DEF Sized

\* What a file holds is there, and is typed.
LEMMA ContentsTypes ==
    /\ NoFile \in Contents /\ ~NoFile.there
    /\ \A d \in Seq(Pieces) : /\ File(d) \in Contents /\ File(d).there /\ File(d) # NoFile
                              /\ File(d).data = d
    /\ \A q \in Contents : q.there \in BOOLEAN /\ q.data \in Seq(Pieces)
    /\ \A c \in Calls : TypeOK => /\ request[c] \in Requests /\ File(Whole(c)) \in Contents
                                  /\ request[c].size \in 0..(Limit + 1) /\ Path(c) \in Paths
                                  /\ request[c].to \in Paths /\ Kind(c) \in Kinds
  <1>1. NoFile \in Contents /\ ~NoFile.there
    BY DEF NoFile, Contents
  <1>2. \A d \in Seq(Pieces) : /\ File(d) \in Contents /\ File(d).there /\ File(d) # NoFile
                               /\ File(d).data = d
    BY DEF File, NoFile, Contents
  <1>3. \A q \in Contents : q.there \in BOOLEAN /\ q.data \in Seq(Pieces)
    BY DEF Contents
  <1>4. ASSUME NEW c \in Calls, TypeOK
        PROVE  /\ request[c] \in Requests /\ request[c].size \in 0..(Limit + 1)
               /\ Path(c) \in Paths /\ request[c].to \in Paths /\ Kind(c) \in Kinds
    BY <1>4 DEF TypeOK, Requests, Path, Kind
  <1>5. ASSUME NEW c \in Calls, TypeOK PROVE File(Whole(c)) \in Contents
    BY <1>2, <1>4, <1>5, SizedType DEF Whole
  <1> QED BY <1>1, <1>2, <1>3, <1>4, <1>5

\* What the temporary file of a Write becomes when one chunk arrives.
LEMMA StagedType ==
    ASSUME NEW c \in Calls, TypeOK, NEW piece, piece \in {Piece(c), Damaged(c)},
           staged[c] <= Limit
    PROVE  \E q \in Contents : Staged(c, piece) = [temp EXCEPT ![c] = q] /\ q.there
  <1>1. piece \in Seq(Pieces)
    <2>1. staged[c] \in 0..Limit
      BY DEF TypeOK
    <2>2. <<c, staged[c] + 1>> \in Pieces /\ <<c, 0>> \in Pieces
      BY <2>1, OptionsAssumption DEF Pieces
    <2>3. <<>> \in Seq(Pieces) /\ <<<<c, staged[c] + 1>>>> \in Seq(Pieces)
          /\ <<<<c, 0>>>> \in Seq(Pieces)
      BY <2>2
    <2> QED BY <2>3 DEF Piece, Damaged
  <1> DEFINE before == IF staged[c] = 0 THEN NoFile ELSE temp[c]
             q == File(before.data \o piece)
  <1>2. before \in Contents
    BY ContentsTypes DEF TypeOK
  <1>3. before.data \in Seq(Pieces)
    BY <1>2, ContentsTypes
  <1>4. before.data \o piece \in Seq(Pieces)
    BY <1>1, <1>3
  <1>5. q \in Contents /\ q.there
    BY <1>4, ContentsTypes
  <1>6. Staged(c, piece) = [temp EXCEPT ![c] = q]
    BY DEF Staged, TempOf, WithPiece
  <1> QED BY <1>5, <1>6

-----------------------------------------------------------------------------
(* Types and locality.                                                     *)

Places == {"new", "ensure", "probe", "detect", "probed", "stage", "verify",
           "finalize", "cleanup", "stat", "cat", "command", "done"}
Outcomes == {"none", "ok", "error", "too_large"}

\* How many chunks there are when one more is staged.
LEMMA StagedBound ==
    ASSUME NEW c \in Calls, TypeOK, StagedAt(c), pc[c] = "stage"
    PROVE  /\ staged[c] \in 0..Limit /\ staged[c] + 1 \in 1..Limit
           /\ request[c].size \in 0..Limit
           /\ ~LastChunk(c) => staged[c] + 1 < request[c].size
           /\ LastChunk(c) => request[c].size = 0 \/ staged[c] + 1 = request[c].size
  <1>1. staged[c] \in 0..Limit /\ request[c].size \in 0..(Limit + 1) /\ Limit \in Nat \ {0}
    BY ContentsTypes, OptionsAssumption DEF TypeOK
  <1> QED BY <1>1 DEF StagedAt, LastChunk

\* What an operation changes of itself, on this side.
LEMMA CallerTypes ==
    ASSUME TypeOK, NEW c \in Calls, PlaceAt(c), StagedAt(c), CallStep(c)
    PROVE  /\ request' = request /\ routed' = routed /\ turn' \subseteq turn
           /\ turn' \in {turn, turn \ {c}}
           /\ pc' \in [Calls -> Places] /\ res' \in [Calls -> Outcomes]
           /\ staged' \in [Calls -> 0..Limit]
           /\ mu' \in Calls \cup {NoCall} /\ probed' \in BOOLEAN /\ closed' \in BOOLEAN
           /\ dead' \in BOOLEAN /\ (dead => dead')
  <1> USE DEF CallStep, AgentStep, AgentAnswers, AgentRefuses, AgentCutOff, AgentFailed, Step,
        Begin, Ensure, ProbeLocks, Detect, Probed, Stage, StageFails, Verify, VerifyFails,
        Finalize, FinalizeFails, Cleanup, Stat, Cat, CatFails, Command, CommandFails, Refused,
        CutOff, bk, agent, disk
  <1>1. request' = request /\ routed' = routed /\ turn' \in {turn, turn \ {c}}
    OBVIOUS
  <1>2. pc' = pc \/ \E l \in Places : pc' = [pc EXCEPT ![c] = l]
    BY DEF Return, Goto, Fail, FirstCommand, Places
  <1>3. res' = res \/ \E r \in Outcomes : res' = [res EXCEPT ![c] = r]
    BY DEF Return, Fail, Outcomes
  <1>4. staged' = staged \/ (pc[c] = "stage" /\ staged' = [staged EXCEPT ![c] = staged[c] + 1])
    OBVIOUS
  <1>5. mu' \in {mu, c, NoCall}
    OBVIOUS
  <1>6. (probed' = probed \/ probed' = TRUE) /\ closed' = closed
    OBVIOUS
  <1>7. dead' = dead \/ dead' = TRUE \/ dead' = (dead \/ "lost" \in Faults)
    OBVIOUS
  <1> HIDE DEF CallStep
  <1>8. pc' \in [Calls -> Places]
    BY <1>2 DEF TypeOK, Places
  <1>9. res' \in [Calls -> Outcomes]
    BY <1>3 DEF TypeOK, Outcomes
  <1>10. staged' \in [Calls -> 0..Limit]
    BY <1>4, StagedBound, OptionsAssumption DEF TypeOK
  <1> QED BY <1>1, <1>5, <1>6, <1>7, <1>8, <1>9, <1>10 DEF TypeOK

\* An operation touches nothing of another one but the directory.
LEMMA StepIsLocal ==
    ASSUME TypeOK, NEW c \in Calls, CallStep(c)
    PROVE  \A y \in Calls \ {c} :
              /\ pc'[y] = pc[y] /\ res'[y] = res[y] /\ staged'[y] = staged[y]
              /\ got'[y] = got[y] /\ temp'[y] = temp[y] /\ (y \in turn' => y \in turn)
  <1> USE DEF CallStep, AgentStep, AgentAnswers, AgentRefuses, AgentCutOff, AgentFailed, Step,
        Begin, Ensure, ProbeLocks, Detect, Probed, Stage, StageFails, Verify, VerifyFails,
        Finalize, FinalizeFails, Cleanup, Stat, Cat, CatFails, Command, CommandFails, Refused,
        CutOff, Return, Goto, Fail, Staged, Renamed, TempOf, CleanedUp, bk, agent, disk, TypeOK
  <1> TAKE y \in Calls \ {c}
  <1>1. pc'[y] = pc[y] /\ res'[y] = res[y]
    OBVIOUS
  <1>2. staged'[y] = staged[y] /\ got'[y] = got[y]
    OBVIOUS
  <1>3. temp'[y] = temp[y]
    OBVIOUS
  <1>4. y \in turn' => y \in turn
    OBVIOUS
  <1> QED BY <1>1, <1>2, <1>3, <1>4

\* What is done to the directory by a single command, or by the agent.
LEMMA DoneType ==
    ASSUME TypeOK, NEW c \in Calls
    PROVE  /\ Kind(c) \in {"rename", "remove", "list"} => Done(c) \in [Paths -> Contents]
           /\ Kind(c) # "probe" => Served(c) \in [Paths -> Contents]
           /\ Moved(c) \in [Paths -> Contents]
  <1>1. /\ fs \in [Paths -> Contents] /\ temp[c] \in Contents /\ Path(c) \in Paths
        /\ NoFile \in Contents /\ fs[Path(c)] \in Contents /\ File(Whole(c)) \in Contents
        /\ Kind(c) \in {"read", "write", "remove", "rename", "list", "probe"}
    BY ContentsTypes, OptionsAssumption DEF TypeOK
  <1>2. \A f \in [Paths -> Contents], p \in Paths, q \in Contents :
           [f EXCEPT ![p] = q] \in [Paths -> Contents]
    OBVIOUS
  <1>3. Moved(c) \in [Paths -> Contents]
    BY <1>1, <1>2 DEF Moved, TempOf
  <1>4. Kind(c) \in {"rename", "remove", "list"} => Done(c) \in [Paths -> Contents]
    <2>1. CASE Kind(c) = "rename"
      <3>1. Done(c) = [[fs EXCEPT ![request[c].to] = fs[Path(c)]] EXCEPT ![Path(c)] = NoFile]
        BY <2>1 DEF Done
      <3> QED BY <1>1, <1>2, <3>1, ContentsTypes
    <2>2. CASE Kind(c) = "remove"
      BY <1>1, <1>2, <2>2 DEF Done
    <2>3. CASE Kind(c) = "list"
      BY <1>1, <2>3 DEF Done
    <2> QED BY <2>1, <2>2, <2>3
  <1>5. Kind(c) # "probe" => Served(c) \in [Paths -> Contents]
    BY <1>1, <1>2, <1>4 DEF Served
  <1> QED BY <1>3, <1>4, <1>5

\* What an operation changes on the remote.
LEMMA DiskTypes ==
    ASSUME TypeOK, NEW c \in Calls, PlaceAt(c), StagedAt(c), CallStep(c)
    PROVE  /\ temp' = temp \/ \E q \in Contents : temp' = [temp EXCEPT ![c] = q]
           /\ fs' \in [Paths -> Contents] /\ got' \in [Calls -> Contents]
  <1>1. NoFile \in Contents /\ fs \in [Paths -> Contents] /\ got \in [Calls -> Contents]
        /\ Path(c) \in Paths
    BY ContentsTypes DEF TypeOK
  <1>2. temp' = temp \/ temp' = Renamed(c)
        \/ (pc[c] = "stage" /\ temp' \in {Staged(c, Piece(c)), Staged(c, Damaged(c))})
    BY DEF CallStep, AgentStep, AgentAnswers, AgentRefuses, AgentCutOff, AgentFailed, Step,
        Begin, Ensure, ProbeLocks, Detect, Probed, Stage, StageFails, Verify, VerifyFails,
        Finalize, FinalizeFails, Cleanup, Stat, Cat, CatFails, Command, CommandFails, Refused,
        CutOff, CleanedUp, disk
  <1>3. \/ fs' = fs \/ fs' = Moved(c)
        \/ (pc[c] = "command" /\ fs' = Done(c)) \/ (c \in turn /\ fs' = Served(c))
    BY DEF CallStep, AgentStep, AgentAnswers, AgentRefuses, AgentCutOff, KilledAt, AtAgent,
        Step, Begin, Ensure, ProbeLocks, Detect, Probed, Stage, StageFails, Verify,
        VerifyFails, Finalize, FinalizeFails, Cleanup, Stat, Cat, CatFails, Command,
        CommandFails, Refused, CutOff, disk
  <1>4. got' = got \/ got' = [got EXCEPT ![c] = fs[Path(c)]]
    BY DEF CallStep, AgentStep, AgentAnswers, AgentRefuses, AgentCutOff, AgentFailed, Step,
        Begin, Ensure, ProbeLocks, Detect, Probed, Stage, StageFails, Verify, VerifyFails,
        Finalize, FinalizeFails, Cleanup, Stat, Cat, CatFails, Command, CommandFails
  <1>5. temp' = temp \/ \E q \in Contents : temp' = [temp EXCEPT ![c] = q]
    <2>1. Renamed(c) = [temp EXCEPT ![c] = NoFile]
      BY DEF Renamed, TempOf
    <2>2. CASE pc[c] = "stage" /\ temp' \in {Staged(c, Piece(c)), Staged(c, Damaged(c))}
      <3>1. staged[c] <= Limit
        BY <2>2, StagedBound, OptionsAssumption
      <3> QED BY <2>2, <3>1, StagedType
    <2> QED BY <1>1, <1>2, <2>1, <2>2
  <1>6. fs' \in [Paths -> Contents]
    <2>1. c \in turn => Kind(c) # "probe"
      BY DEF PlaceAt
    <2>2. pc[c] = "command" => Kind(c) \in {"rename", "remove", "list"}
      BY DEF PlaceAt
    <2> QED BY <1>1, <1>3, <2>1, <2>2, DoneType
  <1> QED BY <1>1, <1>4, <1>5, <1>6

-----------------------------------------------------------------------------
(* Every step keeps the invariant of the operation that takes it.          *)

\* Where an operation is, and what it can be.
LEMMA PlaceKeeps ==
    ASSUME TypeOK, NEW c \in Calls, PlaceAt(c), CallStep(c)
    PROVE  PlaceAt(c)'
  <1> USE DEF Return, Goto, Fail, PlaceAt, Kind
  <1>1. /\ pc \in [Calls -> Places] /\ res \in [Calls -> Outcomes] /\ request' = request
        /\ Kind(c) \in {"read", "write", "remove", "rename", "list", "probe"}
        /\ (c \in turn' => c \in turn)
    <2>1. request' = request /\ (c \in turn' => c \in turn)
      BY DEF CallStep, AgentStep, AgentAnswers, AgentRefuses, AgentCutOff, AgentFailed, Step,
        Begin, Ensure, ProbeLocks, Detect, Probed, Stage, StageFails, Verify, VerifyFails,
        Finalize, FinalizeFails, Cleanup, Stat, Cat, CatFails, Command, CommandFails, agent
    <2> QED BY <2>1, ContentsTypes, OptionsAssumption DEF TypeOK, Places, Outcomes
  <1>2. CASE AgentStep(c)
    BY <1>1, <1>2 DEF AgentStep, AgentAnswers, AgentRefuses, AgentCutOff, AgentFailed, AtAgent
  <1>3. CASE Begin(c) \/ Ensure(c) \/ ProbeLocks(c) \/ Detect(c) \/ Probed(c)
    <2>1. CASE Begin(c) \/ ProbeLocks(c)
      BY <1>1, <2>1 DEF Begin, ProbeLocks
    <2>2. CASE Ensure(c)
      BY <1>1, <2>2 DEF Ensure, FirstCommand
    <2>3. CASE Detect(c)
      BY <1>1, <2>3 DEF Detect
    <2>4. CASE Probed(c)
      BY <1>1, <2>4 DEF Probed, FirstCommand
    <2> QED BY <1>3, <2>1, <2>2, <2>3, <2>4
  <1>4. CASE Stage(c) \/ StageFails(c) \/ Verify(c) \/ VerifyFails(c)
    BY <1>1, <1>4 DEF Stage, StageFails, Verify, VerifyFails, Refused, CutOff
  <1>5. CASE Finalize(c) \/ FinalizeFails(c) \/ Cleanup(c)
    BY <1>1, <1>5 DEF Finalize, FinalizeFails, Cleanup, Refused, CutOff
  <1>6. CASE Stat(c) \/ Cat(c) \/ CatFails(c) \/ Command(c) \/ CommandFails(c)
    BY <1>1, <1>6 DEF Stat, Cat, CatFails, Command, CommandFails, Refused, CutOff
  <1> QED BY <1>2, <1>3, <1>4, <1>5, <1>6 DEF CallStep, Step

\* How many chunks it has staged.
LEMMA StagedKeeps ==
    ASSUME TypeOK, NEW c \in Calls, PlaceAt(c), StagedAt(c), CallStep(c)
    PROVE  StagedAt(c)'
  <1> USE DEF Return, Goto, Fail, StagedAt, Kind, Unstarted
  <1>1. /\ pc \in [Calls -> Places] /\ staged \in [Calls -> 0..Limit] /\ request' = request
        /\ request[c].size \in 0..(Limit + 1) /\ Limit \in Nat \ {0}
        /\ Kind(c) \in {"read", "write", "remove", "rename", "list", "probe"}
    BY CallerTypes, ContentsTypes, OptionsAssumption DEF TypeOK, Places
  <1>2. CASE AgentStep(c)
    BY <1>1, <1>2 DEF AgentStep, AgentAnswers, AgentRefuses, AgentCutOff, AgentFailed, AtAgent
  <1>3. CASE Begin(c) \/ Ensure(c) \/ ProbeLocks(c) \/ Detect(c) \/ Probed(c)
    <2>1. CASE Begin(c)
      BY <1>1, <2>1 DEF Begin
    <2>2. CASE Ensure(c) \/ Probed(c)
      <3>1. staged' = staged /\ pc'[c] \in {"probe", "done", FirstCommand(c)}
            /\ pc[c] \in {"ensure", "probed"}
        BY <1>1, <2>2 DEF Ensure, Probed
      <3>2. FirstCommand(c) \in {"stat", "command"}
            \/ (FirstCommand(c) = "stage" /\ Kind(c) = "write")
        BY DEF FirstCommand
      <3> QED BY <1>1, <3>1, <3>2
    <2>3. CASE ProbeLocks(c) \/ Detect(c)
      BY <1>1, <2>3 DEF ProbeLocks, Detect
    <2> QED BY <1>3, <2>1, <2>2, <2>3
  <1>4. CASE Stage(c)
    BY <1>1, <1>4, StagedBound DEF Stage
  <1>5. CASE StageFails(c) \/ Verify(c) \/ VerifyFails(c)
    BY <1>1, <1>5 DEF StageFails, Verify, VerifyFails, Refused, CutOff
  <1>6. CASE Finalize(c) \/ FinalizeFails(c) \/ Cleanup(c)
    BY <1>1, <1>6 DEF Finalize, FinalizeFails, Cleanup, Refused, CutOff
  <1>7. CASE Stat(c) \/ Cat(c) \/ CatFails(c) \/ Command(c) \/ CommandFails(c)
    BY <1>1, <1>7 DEF Stat, Cat, CatFails, Command, CommandFails, Refused, CutOff
  <1> QED BY <1>2, <1>3, <1>4, <1>5, <1>6, <1>7 DEF CallStep, Step

\* What a chunk that is not damaged makes of what was staged before.
LEMMA UndamagedPiece ==
    ASSUME TypeOK, NEW c \in Calls, StagedAt(c), TempAt(c), pc[c] = "stage",
           "corrupt" \notin Faults
    PROVE  Staged(c, Piece(c))[c] =
               File(IF request[c].size = 0 THEN <<>> ELSE Sized(c, staged[c] + 1))
  <1>1. /\ staged[c] \in 0..Limit /\ request[c].size \in 0..Limit
        /\ request[c].size = 0 => staged[c] = 0
    BY StagedBound, OptionsAssumption DEF StagedAt
  <1> DEFINE before == IF staged[c] = 0 THEN NoFile ELSE temp[c]
  <1>2. before.data = IF request[c].size = 0 THEN <<>> ELSE Sized(c, staged[c])
    <2>1. CASE staged[c] = 0
      <3>1. before.data = <<>>
        BY <2>1 DEF NoFile
      <3>2. Sized(c, 0) = <<>>
        BY DEF Sized
      <3> QED BY <2>1, <3>1, <3>2
    <2>2. CASE staged[c] # 0
      <3>1. staged[c] > 0 /\ request[c].size # 0
        BY <1>1, <2>2
      <3>2. before = File(Sized(c, staged[c]))
        BY <2>2, <3>1 DEF TempAt
      <3> QED BY <3>1, <3>2 DEF File
    <2> QED BY <2>1, <2>2
  <1>3. Staged(c, Piece(c))[c] = File(before.data \o Piece(c))
    BY DEF Staged, TempOf, WithPiece, TypeOK
  <1>4. CASE request[c].size = 0
    <2>1. before.data \o Piece(c) = <<>>
      BY <1>2, <1>4 DEF Piece
    <2> QED BY <1>3, <1>4, <2>1
  <1>5. CASE request[c].size # 0
    <2>1. before.data \o Piece(c) = Sized(c, staged[c]) \o <<<<c, staged[c] + 1>>>>
      BY <1>2, <1>5 DEF Piece
    <2> QED BY <1>1, <1>3, <1>5, <2>1, OneMore
  <1> QED BY <1>4, <1>5

\* The temporary file.
LEMMA TempKeeps ==
    ASSUME TypeOK, NEW c \in Calls, PlaceAt(c), StagedAt(c), TempAt(c), CallStep(c)
    PROVE  TempAt(c)'
  <1> USE DEF Return, Goto, Fail, TempAt, Kind
  <1>1. /\ pc \in [Calls -> Places] /\ staged \in [Calls -> 0..Limit] /\ request' = request
        /\ temp \in [Calls -> Contents] /\ (dead => dead')
        /\ ~NoFile.there
    BY CallerTypes, ContentsTypes DEF TypeOK, Places
  <1>2. Renamed(c)[c] = NoFile
    BY <1>1 DEF Renamed, TempOf
  <1>3. ASSUME pc[c] \notin {"stage", "verify", "finalize", "cleanup", "done"}, temp' = temp,
               staged' = staged,
               pc'[c] \in {"verify", "finalize", "stage"} => pc'[c] = "stage" /\ staged[c] = 0
        PROVE  TempAt(c)'
    BY <1>1, <1>3
  <1>4. CASE AgentStep(c)
    BY <1>1, <1>3, <1>4
    DEF AgentStep, AgentAnswers, AgentRefuses, AgentCutOff, AgentFailed, AtAgent
  <1>5. CASE Begin(c) \/ Ensure(c) \/ ProbeLocks(c) \/ Detect(c) \/ Probed(c)
    <2>1. temp' = temp /\ staged' = staged /\ pc[c] \in Unstarted
      BY <1>5 DEF Begin, Ensure, ProbeLocks, Detect, Probed, disk, Unstarted
    <2>2. staged[c] = 0
      BY <2>1 DEF StagedAt
    <2>3. pc'[c] \notin {"verify", "finalize"}
      BY <1>1, <1>5 DEF Begin, Ensure, ProbeLocks, Detect, Probed, FirstCommand
    <2> QED BY <1>3, <2>1, <2>2, <2>3 DEF Unstarted
  <1>6. CASE Stage(c)
    <2>1. /\ staged' = [staged EXCEPT ![c] = staged[c] + 1] /\ staged[c] \in 0..Limit
          /\ \/ temp' = Staged(c, Piece(c))
             \/ "corrupt" \in Faults /\ temp' = Staged(c, Damaged(c))
          /\ pc'[c] \in {"stage", "verify", "finalize"} /\ pc[c] = "stage"
          /\ (HasSha => pc'[c] # "finalize")
      BY <1>1, <1>6, StagedBound DEF Stage
    <2>2. temp'[c].there
      BY <1>1, <2>1, StagedType, StagedBound, OptionsAssumption
    <2>3. "corrupt" \notin Faults =>
             temp'[c] = File(IF request[c].size = 0 THEN <<>> ELSE Sized(c, staged'[c]))
      BY <1>1, <2>1, UndamagedPiece
    <2> QED BY <1>1, <2>1, <2>2, <2>3
  <1>7. CASE StageFails(c) \/ VerifyFails(c) \/ FinalizeFails(c)
    <2>1. pc'[c] = "cleanup"
      BY <1>1, <1>7 DEF StageFails, VerifyFails, FinalizeFails, Refused, CutOff, PlaceAt
    <2> QED BY <2>1
  <1>8. CASE Verify(c)
    BY <1>1, <1>8 DEF Verify, Matches, TempOf, PlaceAt, disk, Whole
  <1>9. CASE Finalize(c)
    BY <1>1, <1>2, <1>9 DEF Finalize, PlaceAt, disk
  <1>10. CASE Cleanup(c)
    BY <1>1, <1>2, <1>10 DEF Cleanup, CleanedUp
  <1>11. CASE Stat(c) \/ Cat(c) \/ CatFails(c) \/ Command(c) \/ CommandFails(c)
    <2>1. /\ pc[c] \in {"stat", "cat", "command"} /\ temp' = temp /\ staged' = staged
      BY <1>11 DEF Stat, Cat, CatFails, Command, CommandFails, Refused, CutOff, disk
    <2>2. pc'[c] \in {"cat", "done"}
      BY <1>1, <1>11 DEF Stat, Cat, CatFails, Command, CommandFails, Refused, CutOff, PlaceAt
    <2> QED BY <1>3, <2>1, <2>2
  <1> QED BY <1>4, <1>5, <1>6, <1>7, <1>8, <1>9, <1>10, <1>11 DEF CallStep, Step

\* An operation keeps the invariants of all of them.
LEMMA CallStepKeeps ==
    ASSUME IInv, NEW c \in Calls, CallStep(c)
    PROVE  IInv'
  <1>1. TypeOK /\ PlaceAt(c) /\ StagedAt(c) /\ TempAt(c)
    BY DEF IInv, RemoteTypeOK, CallInv
  <1>2. CallInv(c)'
    BY <1>1, PlaceKeeps, StagedKeeps, TempKeeps DEF CallInv
  <1>3. \A y \in Calls \ {c} : CallInv(y)'
    <2> SUFFICES ASSUME NEW y \in Calls \ {c} PROVE CallInv(y)'
      OBVIOUS
    <2>1. CallInv(y)
      BY DEF IInv
    <2>2. /\ pc'[y] = pc[y] /\ res'[y] = res[y] /\ staged'[y] = staged[y]
          /\ temp'[y] = temp[y] /\ (y \in turn' => y \in turn)
      BY <1>1, StepIsLocal
    <2>3. request' = request /\ (dead => dead')
      BY <1>1, CallerTypes
    <2> QED BY <2>1, <2>2, <2>3 DEF CallInv, PlaceAt, StagedAt, TempAt, Kind, Whole
  <1>4. RemoteTypeOK'
    <2>1. temp \in [Calls -> Contents] /\ routed \subseteq Calls /\ turn \subseteq routed
          /\ request \in [Calls -> Requests]
      BY DEF IInv, RemoteTypeOK, TypeOK
    <2>2. temp' \in [Calls -> Contents]
      BY <1>1, <2>1, DiskTypes
    <2> QED BY <1>1, <2>1, <2>2, DiskTypes, CallerTypes
        DEF RemoteTypeOK, TypeOK, Places, Outcomes
  <1> QED BY <1>2, <1>3, <1>4 DEF IInv

-----------------------------------------------------------------------------
(* The safety theorems.                                                    *)

\* Nothing is staged to begin with; the directory holds whole files.
LEMMA InitIInv == RemoteInit => IInv
  <1> SUFFICES ASSUME RemoteInit PROVE IInv
    OBVIOUS
  <1>1. /\ request \in [Calls -> Requests] /\ pc = [c \in Calls |-> "new"]
        /\ res = [c \in Calls |-> "none"] /\ staged = [c \in Calls |-> 0]
        /\ got = [c \in Calls |-> NoFile] /\ temp = [c \in Calls |-> NoFile]
        /\ mu = NoCall /\ probed = FALSE /\ closed = FALSE /\ dead = FALSE
        /\ routed \subseteq {c \in Calls : Kind(c) # "probe"} /\ turn = routed
    BY DEF RemoteInit, Init
  <1>2. fs \in [Paths -> Contents]
    <2>1. PICK n \in {1, Limit + 1}, S \in SUBSET Paths :
              fs = [p \in Paths |-> IF p \notin S THEN NoFile
                                    ELSE IF p \in Dirs THEN File(<<>>)
                                    ELSE File(Sized(NoCall, n))]
      BY DEF RemoteInit, Init
    <2>2. n \in 0..(Limit + 1)
      BY OptionsAssumption
    <2>3. Sized(NoCall, n) \in Seq(Pieces) /\ <<>> \in Seq(Pieces)
      BY <2>2, SizedType
    <2>4. NoFile \in Contents /\ File(<<>>) \in Contents /\ File(Sized(NoCall, n)) \in Contents
      BY <2>3, ContentsTypes
    <2> QED BY <2>1, <2>4
  <1>3. RemoteTypeOK
    <2>1. /\ staged \in [Calls -> 0..Limit] /\ got \in [Calls -> Contents]
          /\ temp \in [Calls -> Contents]
      BY <1>1, ContentsTypes, OptionsAssumption
    <2>2. /\ pc \in [Calls -> Places] /\ res \in [Calls -> Outcomes]
      BY <1>1 DEF Places, Outcomes
    <2> QED BY <1>1, <1>2, <2>1, <2>2 DEF RemoteTypeOK, TypeOK, Places, Outcomes
  <1>4. \A c \in Calls : CallInv(c)
    BY <1>1, ContentsTypes DEF CallInv, PlaceAt, StagedAt, TempAt, Unstarted
  <1> QED BY <1>3, <1>4 DEF IInv

\* Every step is one of an operation, or Close.
LEMMA StepsAre ==
    ASSUME RemoteNext
    PROVE  (\E c \in Calls : CallStep(c)) \/ (Close /\ UNCHANGED agent)
  BY DEF RemoteNext, CallStep, AgentStep

\* The invariant is inductive.
LEMMA NextIInv == IInv /\ [RemoteNext]_remoteVars => IInv'
  <1> SUFFICES ASSUME IInv, [RemoteNext]_remoteVars PROVE IInv'
    OBVIOUS
  <1>1. CASE \E c \in Calls : CallStep(c)
    BY <1>1, CallStepKeeps
  <1>2. CASE Close /\ UNCHANGED agent
    BY <1>2 DEF Close, agent, op, disk, IInv, RemoteTypeOK, TypeOK, CallInv, PlaceAt, StagedAt,
        TempAt, Kind, Whole
  <1>3. CASE UNCHANGED remoteVars
    BY <1>3 DEF remoteVars, vars, agent, bk, op, disk, IInv, RemoteTypeOK, TypeOK, CallInv,
        PlaceAt, StagedAt, TempAt, Kind, Whole
  <1> QED BY <1>1, <1>2, <1>3, StepsAre

\* The types of every variable, the contents of the files included.
THEOREM TypeCorrect == RemoteSpec => []RemoteTypeOK
  <1>1. IInv => RemoteTypeOK
    BY DEF IInv
  <1> QED BY <1>1, InitIInv, NextIInv, PTL DEF RemoteSpec

\* Only the loss of the session leaves the temporary file of a Write behind; not
\* a command that fails, is cancelled, or has worked although it was reported to
\* have failed, whether there is a digest or not.
THEOREM TempRemoved == RemoteSpec => []NoTempLeft
  <1>1. IInv => NoTempLeft
    BY DEF IInv, CallInv, TempAt, NoTempLeft
  <1> QED BY <1>1, InitIInv, NextIInv, PTL DEF RemoteSpec

-----------------------------------------------------------------------------
(* The operations implement AbstractFiles.                                 *)

\* The remote has a digest, or the channel damages nothing; a message of cat is
\* seen; and no name is that of a directory.
Dependable == (HasSha \/ "corrupt" \notin Faults) /\ SeesStderr /\ Dirs = {}

AbsRequest(c) == [kind |-> Kind(c), path |-> Path(c), to |-> request[c].to,
                  data |-> File(Whole(c)), again |-> c \in routed /\ Kind(c) # "remove"]
AbsRequests == [c \in Calls |-> AbsRequest(c)]
AbsStates == [c \in Calls |-> AbsState(c)]

\* What a step of an operation is to all others: nothing but its answer.
AnswersAs(c, a) ==
    /\ UNCHANGED <<request, routed>>
    /\ AbsState(c) = "pending" /\ AbsState(c)' = a
    /\ \A y \in Calls \ {c} : AbsState(y)' = AbsState(y)
Unanswered(c) ==
    /\ UNCHANGED <<request, routed>>
    /\ \A y \in Calls : AbsState(y)' = AbsState(y)

\* The answers of the mapped states.
LEMMA MappedAnswer ==
    ASSUME NEW c \in Calls, NEW a, AnswersAs(c, a)
    PROVE  /\ AbsRequests' = AbsRequests /\ AbsStates[c] = "pending"
           /\ AbsStates' = [AbsStates EXCEPT ![c] = a]
  BY DEF AnswersAs, AbsStates, AbsRequests, AbsRequest, Kind, Path, Whole

\* An operation that fails, with no effect.
LEMMA MapsToFail ==
    ASSUME NEW c \in Calls, AnswersAs(c, "failed"), fs' = fs, got' = got
    PROVE  Abs!Next
  <1>1. Abs!Fail(c)
    BY MappedAnswer DEF Abs!Fail, Abs!Answer, AbsStates, AbsRequests, AbsRequest
  <1> QED BY <1>1 DEF Abs!Next

\* A Write that takes effect.
LEMMA MapsToWrite ==
    ASSUME NEW c \in Calls, NEW a, AnswersAs(c, a), Kind(c) = "write",
           a \in {"ok", "failed"} \/ (a = "pending" /\ c \in routed),
           fs' = [fs EXCEPT ![Path(c)] = File(Whole(c))], got' = got
    PROVE  Abs!Next
  <1>1. Abs!Write(c)
    BY MappedAnswer
    DEF Abs!Write, Abs!Answer, Abs!Effective, AbsStates, AbsRequests, AbsRequest
  <1> QED BY <1>1 DEF Abs!Next

\* A Rename that takes effect, and a Remove, which does so once.
LEMMA MapsToRename ==
    ASSUME NEW c \in Calls, NEW a, AnswersAs(c, a), Kind(c) = "rename",
           a \in {"ok", "failed"} \/ (a = "pending" /\ c \in routed),
           fs[Path(c)] # NoFile, fs' = Done(c), got' = got
    PROVE  Abs!Next
  <1>1. fs' = [fs EXCEPT ![request[c].to] = fs[Path(c)], ![Path(c)] = NoFile]
    BY DEF Done
  <1>2. /\ AbsRequests[c].kind = "rename" /\ AbsRequests[c].path = Path(c)
        /\ AbsRequests[c].to = request[c].to /\ (a = "pending" => AbsRequests[c].again)
    BY DEF AbsRequests, AbsRequest
  <1>3. /\ AbsRequests' = AbsRequests /\ AbsStates[c] = "pending"
        /\ AbsStates' = [AbsStates EXCEPT ![c] = a]
    BY MappedAnswer
  <1>4. Abs!Answer(c, Abs!Effective(c))
    BY <1>2, <1>3 DEF Abs!Answer, Abs!Effective, AbsStates, AbsRequests, AbsRequest
  <1>5. Abs!Rename(c)
    BY <1>1, <1>2, <1>3, <1>4 DEF Abs!Rename, AbsRequests, AbsRequest
  <1> QED BY <1>5 DEF Abs!Next

\* A Remove that takes effect, by rm -f or in the agent, is AbstractFiles' Remove.
LEMMA MapsToRemove ==
    ASSUME NEW c \in Calls, NEW a \in {"ok", "failed"}, AnswersAs(c, a), Kind(c) = "remove",
           fs' = Done(c), got' = got
    PROVE  Abs!Next
  <1>1. fs' = [fs EXCEPT ![Path(c)] = NoFile]
    BY DEF Done
  <1>2. Abs!Remove(c)
    BY <1>1, MappedAnswer
    DEF Abs!Remove, Abs!Answer, Abs!Effective, AbsStates, AbsRequests, AbsRequest
  <1> QED BY <1>2 DEF Abs!Next

\* A Read, and an operation that only looks.
LEMMA MapsToRead ==
    ASSUME NEW c \in Calls, AnswersAs(c, "ok"), Kind(c) = "read",
           fs[Path(c)] # NoFile, fs' = fs, got' = [got EXCEPT ![c] = fs[Path(c)]]
    PROVE  Abs!Next
  <1>1. Abs!Read(c)
    BY MappedAnswer DEF Abs!Read, Abs!Answer, AbsStates, AbsRequests, AbsRequest
  <1> QED BY <1>1 DEF Abs!Next

\* A Probe or a List that answers changes nothing.
LEMMA MapsToOther ==
    ASSUME NEW c \in Calls, AnswersAs(c, "ok"), Kind(c) \in {"probe", "list"},
           fs' = fs, got' = got
    PROVE  Abs!Next
  <1>1. Abs!Other(c)
    BY MappedAnswer DEF Abs!Other, Abs!Answer, AbsStates, AbsRequests, AbsRequest
  <1> QED BY <1>1 DEF Abs!Next

\* A step that is not seen.
LEMMA MapsToStutter ==
    ASSUME NEW c \in Calls, Unanswered(c), fs' = fs, got' = got
    PROVE  UNCHANGED Abs!avars
  BY DEF Unanswered, Abs!avars, Kind, Path, Whole

\* When an operation answers, and when it does not.
LEMMA Others ==
    ASSUME IInv, NEW c \in Calls, CallStep(c)
    PROVE  /\ UNCHANGED <<request, routed>>
           /\ \A y \in Calls \ {c} : AbsState(y)' = AbsState(y)
  <1>1. TypeOK /\ PlaceAt(c) /\ StagedAt(c)
    BY DEF IInv, RemoteTypeOK, CallInv
  <1> QED BY <1>1, StepIsLocal, CallerTypes DEF AbsState

\* A step that returns answers the operation.
LEMMA ReturnAnswers ==
    ASSUME IInv, NEW c \in Calls, CallStep(c), pc[c] \notin {"cleanup", "done"},
           NEW r \in {"ok", "error", "too_large"}, Return(c, r)
    PROVE  AnswersAs(c, IF r = "ok" THEN "ok" ELSE "failed")
  <1>1. /\ pc \in [Calls -> Places] /\ res \in [Calls -> Outcomes] /\ res[c] = "none"
    BY DEF IInv, RemoteTypeOK, TypeOK, Places, Outcomes, CallInv, PlaceAt
  <1>2. res'[c] = r
    BY <1>1 DEF Return
  <1> QED BY <1>1, <1>2, Others DEF AnswersAs, AbsState

\* A step that fails answers it too, at once or after its cleanup.
LEMMA FailAnswers ==
    ASSUME IInv, NEW c \in Calls, CallStep(c), pc[c] \notin {"cleanup", "done"}, Fail(c)
    PROVE  AnswersAs(c, "failed")
  <1>1. /\ pc \in [Calls -> Places] /\ res \in [Calls -> Outcomes] /\ res[c] = "none"
    BY DEF IInv, RemoteTypeOK, TypeOK, Places, Outcomes, CallInv, PlaceAt
  <1>2. res'[c] = "error" \/ (res'[c] = "none" /\ pc'[c] = "cleanup")
    BY <1>1 DEF Fail, Return, Goto
  <1> QED BY <1>1, <1>2, Others DEF AnswersAs, AbsState

\* Any other step leaves the operation without an answer.
LEMMA GoesOn ==
    ASSUME IInv, NEW c \in Calls, CallStep(c), pc[c] \notin {"cleanup", "done"}, res' = res,
           pc' = pc \/ \E l \in Places \ {"cleanup", "done"} : Goto(c, l)
    PROVE  Unanswered(c) /\ AnswersAs(c, "pending")
  <1>1. /\ pc \in [Calls -> Places] /\ res[c] = "none"
    BY DEF IInv, RemoteTypeOK, TypeOK, Places, CallInv, PlaceAt
  <1>2. pc'[c] # "cleanup" /\ res'[c] = "none"
    BY <1>1 DEF Goto
  <1>3. AbsState(c) = "pending" /\ AbsState(c)' = "pending"
    BY <1>1, <1>2 DEF AbsState
  <1> QED BY <1>3, Others DEF Unanswered, AnswersAs

\* Of an operation that has failed already, the result is only told.
LEMMA CleanupGoesOn ==
    ASSUME IInv, NEW c \in Calls, CallStep(c), Cleanup(c)
    PROVE  Unanswered(c)
  <1>1. /\ pc[c] = "cleanup" /\ res[c] = "none" /\ res \in [Calls -> Outcomes]
    BY DEF Cleanup, IInv, RemoteTypeOK, TypeOK, Outcomes, CallInv, PlaceAt
  <1>2. res'[c] = "error"
    BY <1>1 DEF Cleanup, Return
  <1> QED BY <1>1, <1>2, Others DEF Unanswered, AbsState

\* What a Write moves to the path is all of its data.
LEMMA MovesWhole ==
    ASSUME IInv, Dependable, NEW c \in Calls, pc[c] = "finalize"
    PROVE  Moved(c) = [fs EXCEPT ![Path(c)] = File(Whole(c))]
  <1>1. temp[c] = File(Whole(c))
    <2>1. CallInv(c)
      BY DEF IInv
    <2>2. CASE HasSha
      BY <2>1, <2>2 DEF CallInv, TempAt
    <2>3. CASE ~HasSha
      <3>1. temp[c] = File(IF request[c].size = 0 THEN <<>> ELSE Sized(c, staged[c]))
        BY <2>1, <2>3 DEF CallInv, TempAt, Dependable
      <3>2. request[c].size # 0 => staged[c] = request[c].size
        BY <2>1 DEF CallInv, StagedAt
      <3>3. Sized(c, 0) = <<>>
        BY DEF Sized
      <3> QED BY <3>1, <3>2, <3>3 DEF Whole
    <2> QED BY <2>2, <2>3
  <1> QED BY <1>1 DEF Moved, TempOf, Dependable

\* A step of ShellBackend.
LEMMA ShellMaps ==
    ASSUME IInv, Dependable, NEW c \in Calls, CallStep(c), Step(c)
    PROVE  Abs!Next \/ UNCHANGED Abs!avars
  <1>1. /\ PlaceAt(c) /\ StagedAt(c) /\ TypeOK
        /\ pc[c] # "done"
    BY DEF IInv, CallInv, RemoteTypeOK, Step, Begin, Ensure, ProbeLocks, Detect, Probed, Stage,
        StageFails, Verify, VerifyFails, Finalize, FinalizeFails, Cleanup, Stat, Cat, CatFails,
        Command, CommandFails
  <1>2. ASSUME pc[c] # "cleanup", Fail(c) \/ Return(c, "error") \/ Return(c, "too_large"),
               fs' = fs, got' = got
        PROVE  Abs!Next
    <2>1. AnswersAs(c, "failed")
      BY <1>1, <1>2, FailAnswers, ReturnAnswers
    <2> QED BY <1>2, <2>1, MapsToFail
  <1>3. ASSUME pc[c] # "cleanup", res' = res, fs' = fs, got' = got,
               \E l \in Places \ {"cleanup", "done"} : Goto(c, l)
        PROVE  UNCHANGED Abs!avars
    BY <1>1, <1>3, GoesOn, MapsToStutter
  <1>4. FirstCommand(c) \in Places \ {"cleanup", "done"}
    BY DEF FirstCommand, Places
  <1>5. CASE Begin(c) \/ Ensure(c) \/ ProbeLocks(c) \/ Probed(c)
    <2>1. fs' = fs /\ got' = got /\ pc[c] # "cleanup"
      BY <1>5 DEF Begin, Ensure, ProbeLocks, Probed, disk
    <2>2. \/ Return(c, "error") \/ Return(c, "too_large")
          \/ res' = res /\ \E l \in Places \ {"cleanup", "done"} : Goto(c, l)
      BY <1>4, <1>5 DEF Begin, Ensure, ProbeLocks, Probed, Places
    <2> QED BY <1>2, <1>3, <2>1, <2>2
  <1>6. CASE Detect(c)
    <2>1. fs' = fs /\ got' = got /\ pc[c] = "detect"
      BY <1>6 DEF Detect, disk
    <2>2. \/ Return(c, "error")
          \/ res' = res /\ Goto(c, "probed")
          \/ Kind(c) = "probe" /\ Return(c, "ok")
      BY <1>6 DEF Detect
    <2>3. CASE Kind(c) = "probe" /\ Return(c, "ok")
      BY <2>1, <2>3, ReturnAnswers, MapsToOther
    <2> QED BY <1>2, <1>3, <2>1, <2>2, <2>3 DEF Places
  <1>7. CASE Stage(c) \/ StageFails(c) \/ Verify(c) \/ VerifyFails(c)
    <2>1. fs' = fs /\ got' = got /\ pc[c] \in {"stage", "verify"}
      BY <1>7 DEF Stage, StageFails, Verify, VerifyFails, Refused, CutOff, disk
    <2>2. Fail(c) \/ (res' = res /\ \E l \in Places \ {"cleanup", "done"} : Goto(c, l))
      BY <1>7 DEF Stage, StageFails, Verify, VerifyFails, Refused, CutOff, Places
    <2> QED BY <1>2, <1>3, <2>1, <2>2
  <1>8. CASE Finalize(c) \/ FinalizeFails(c)
    <2>1. pc[c] = "finalize" /\ got' = got /\ Kind(c) = "write"
      BY <1>1, <1>8 DEF Finalize, FinalizeFails, PlaceAt
    <2>2. \/ fs' = fs /\ Fail(c)
          \/ fs' = Moved(c) /\ (Fail(c) \/ Return(c, "ok"))
      BY <1>8 DEF Finalize, FinalizeFails, Refused, CutOff, disk
    <2>3. CASE fs' = Moved(c) /\ (Fail(c) \/ Return(c, "ok"))
      <3>1. fs' = [fs EXCEPT ![Path(c)] = File(Whole(c))]
        BY <2>1, <2>3, MovesWhole
      <3>2. AnswersAs(c, "ok") \/ AnswersAs(c, "failed")
        BY <2>1, <2>3, ReturnAnswers, FailAnswers
      <3> QED BY <2>1, <3>1, <3>2, MapsToWrite
    <2> QED BY <1>2, <2>1, <2>2, <2>3
  <1>9. CASE Cleanup(c)
    BY <1>9, CleanupGoesOn, MapsToStutter DEF Cleanup
  <1>10. CASE Stat(c)
    <2>1. fs' = fs /\ got' = got /\ pc[c] = "stat"
      BY <1>10 DEF Stat, disk
    <2>2. Return(c, "too_large") \/ (res' = res /\ Goto(c, "cat"))
      BY <1>10 DEF Stat
    <2> QED BY <1>2, <1>3, <2>1, <2>2 DEF Places
  <1>11. CASE Cat(c)
    <2>1. fs' = fs /\ pc[c] = "cat" /\ Kind(c) = "read"
      BY <1>1, <1>11 DEF Cat, disk, PlaceAt
    <2>2. CASE fs[Path(c)].there
      <3>1. got' = [got EXCEPT ![c] = fs[Path(c)]] /\ Return(c, "ok")
        BY <1>11, <2>2 DEF Cat
      <3>2. fs[Path(c)] # NoFile
        BY <2>2, ContentsTypes
      <3> QED BY <2>1, <3>1, <3>2, ReturnAnswers, MapsToRead
    <2>3. CASE ~fs[Path(c)].there
      BY <1>2, <1>11, <2>1, <2>3 DEF Cat, Dependable
    <2> QED BY <2>2, <2>3
  <1>12. CASE CatFails(c)
    BY <1>2, <1>12 DEF CatFails, Refused, CutOff, disk
  <1>13. CASE Command(c) \/ CommandFails(c)
    <2>1. pc[c] = "command" /\ got' = got /\ Kind(c) \in {"rename", "remove", "list"}
      BY <1>1, <1>13 DEF Command, CommandFails, PlaceAt
    <2>2. \/ fs' = fs /\ (Fail(c) \/ Return(c, "error"))
          \/ CanDo(c) /\ fs' = Done(c) /\ (Fail(c) \/ Return(c, "ok"))
      BY <1>13 DEF Command, CommandFails, Refused, CutOff, disk
    <2>3. CASE CanDo(c) /\ fs' = Done(c) /\ (Fail(c) \/ Return(c, "ok"))
      <3>1. AnswersAs(c, "failed") \/ AnswersAs(c, "ok")
        BY <2>1, <2>3, ReturnAnswers, FailAnswers
      <3>2. CASE Kind(c) = "rename"
        <4>1. fs[Path(c)] # NoFile
          BY <2>3, <3>2, ContentsTypes DEF CanDo
        <4> QED BY <2>1, <2>3, <3>1, <3>2, <4>1, MapsToRename
      <3>3. CASE Kind(c) = "remove"
        BY <2>1, <2>3, <3>1, <3>3, MapsToRemove
      <3>4. CASE Kind(c) = "list"
        <4>1. fs' = fs
          BY <2>3, <3>4 DEF Done
        <4> QED BY <2>1, <3>1, <3>4, <4>1, MapsToOther, MapsToFail
      <3> QED BY <2>1, <3>2, <3>3, <3>4
    <2> QED BY <1>2, <2>1, <2>2, <2>3
  <1> QED BY <1>5, <1>6, <1>7, <1>8, <1>9, <1>10, <1>11, <1>12, <1>13 DEF Step

\* A run of the agent: heard, refused, or cut off; and ShellBackend may do the
\* same again.
LEMMA AgentMaps ==
    ASSUME IInv, Dependable, NEW c \in Calls, CallStep(c), AgentStep(c)
    PROVE  Abs!Next \/ UNCHANGED Abs!avars
  <1>1. /\ c \in turn /\ pc[c] = "new" /\ c \in routed
        /\ Kind(c) \in {"read", "write", "remove", "rename", "list"}
    <2>1. c \in turn /\ pc[c] = "new"
      BY DEF AgentStep, AgentAnswers, AgentRefuses, AgentCutOff, AtAgent
    <2>2. Kind(c) # "probe" /\ c \in routed
      BY <2>1 DEF IInv, CallInv, PlaceAt, RemoteTypeOK
    <2> QED BY <2>1, <2>2, ContentsTypes, OptionsAssumption DEF IInv, RemoteTypeOK
  <1>2. \/ got' = got
        \/ Kind(c) = "read" /\ got' = [got EXCEPT ![c] = fs[Path(c)]] /\ AgentAnswers(c)
    BY DEF AgentStep, AgentAnswers, AgentRefuses, AgentCutOff, AgentFailed
  <1>3. CASE AgentAnswers(c)
    <2>1. AnswersAs(c, "ok") /\ fs' = Served(c) /\ CanServe(c)
      BY <1>1, <1>3, ReturnAnswers DEF AgentAnswers
    <2>2. CASE Kind(c) = "read"
      <3>1. fs' = fs /\ got' = [got EXCEPT ![c] = fs[Path(c)]]
        BY <1>3, <2>1, <2>2 DEF AgentAnswers, Served
      <3>2. fs[Path(c)] # NoFile
        BY <2>1, <2>2, ContentsTypes DEF CanServe
      <3> QED BY <2>1, <2>2, <3>1, <3>2, MapsToRead
    <2>3. CASE Kind(c) = "write"
      BY <1>2, <2>1, <2>3, MapsToWrite DEF Served
    <2>4. CASE Kind(c) = "rename"
      <3>1. fs[Path(c)] # NoFile
        BY <2>1, <2>4, ContentsTypes DEF CanServe
      <3> QED BY <1>2, <2>1, <2>4, <3>1, MapsToRename DEF Served
    <2>5. CASE Kind(c) = "remove"
      BY <1>2, <2>1, <2>5, MapsToRemove DEF Served
    <2>6. CASE Kind(c) = "list"
      BY <1>2, <2>1, <2>6, MapsToOther DEF Served
    <2> QED BY <1>1, <2>2, <2>3, <2>4, <2>5, <2>6
  <1>4. CASE AgentRefuses(c) \/ AgentCutOff(c)
    <2>1. /\ got' = got
          /\ IF Kind(c) = "remove" THEN Return(c, "error") ELSE UNCHANGED <<pc, res>>
          /\ fs' = fs \/ (CanServe(c) /\ fs' = Served(c))
      BY <1>4 DEF AgentRefuses, AgentCutOff, AgentFailed, NoFallback, KilledAt
    <2>2. Kind(c) = "remove" => AnswersAs(c, "failed")
      BY <1>1, <2>1, ReturnAnswers
    <2>3. Kind(c) # "remove" => Unanswered(c) /\ AnswersAs(c, "pending")
      BY <1>1, <2>1, GoesOn
    <2>4. CASE fs' = fs
      BY <2>1, <2>2, <2>3, <2>4, MapsToFail, MapsToStutter
    <2>5. CASE CanServe(c) /\ fs' = Served(c)
      <3>1. CASE Kind(c) = "write"
        BY <1>1, <2>1, <2>3, <2>5, <3>1, MapsToWrite DEF Served
      <3>2. CASE Kind(c) = "rename"
        <4>1. fs[Path(c)] # NoFile
          BY <2>5, <3>2, ContentsTypes DEF CanServe
        <4> QED BY <1>1, <2>1, <2>3, <2>5, <3>2, <4>1, MapsToRename DEF Served
      <3>3. CASE Kind(c) = "remove"
        BY <2>1, <2>2, <2>5, <3>3, MapsToRemove DEF Served
      <3>4. CASE Kind(c) \in {"read", "list"}
        <4>1. fs' = fs
          BY <2>5, <3>4 DEF Served
        <4> QED BY <2>4, <4>1
      <3> QED BY <1>1, <3>1, <3>2, <3>3, <3>4
    <2> QED BY <2>1, <2>4, <2>5
  <1> QED BY <1>3, <1>4 DEF AgentStep

\* On a remote with a digest, or a channel that damages nothing, where errors are
\* seen and no name is a directory's: whatever is cancelled or lost, an operation
\* takes effect at one instant or not at all, a Read returns the complete data of
\* one Write, and only what may be repeated is.
THEOREM Implements == Dependable => (RemoteSpec => ImplementsFiles)
  <1> SUFFICES ASSUME Dependable PROVE RemoteSpec => ImplementsFiles
    OBVIOUS
  <1>1. RemoteInit => Abs!Init
    <2> SUFFICES ASSUME RemoteInit PROVE Abs!Init
      OBVIOUS
    <2>1. \A c \in Calls : AbsState(c) = "pending"
      BY DEF RemoteInit, Init, AbsState
    <2> QED BY <2>1 DEF Abs!Init, Abs!Pending
  <1>2. IInv /\ [RemoteNext]_remoteVars => [Abs!Next]_(Abs!avars)
    <2> SUFFICES ASSUME IInv, [RemoteNext]_remoteVars PROVE [Abs!Next]_(Abs!avars)
      OBVIOUS
    <2>1. ASSUME NEW c \in Calls, CallStep(c) PROVE Abs!Next \/ UNCHANGED Abs!avars
      BY <2>1, ShellMaps, AgentMaps DEF CallStep
    <2>2. CASE Close /\ UNCHANGED agent
      BY <2>2 DEF Close, agent, op, disk, Abs!avars, AbsState, Kind, Path, Whole
    <2>3. CASE UNCHANGED remoteVars
      BY <2>3 DEF remoteVars, vars, agent, op, disk, Abs!avars, AbsState, Kind, Path, Whole
    <2> QED BY <2>1, <2>2, <2>3, StepsAre
  <1> QED BY <1>1, <1>2, InitIInv, NextIInv, PTL DEF RemoteSpec, ImplementsFiles, Abs!Spec
=============================================================================
