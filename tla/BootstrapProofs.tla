--------------------------- MODULE BootstrapProofs ---------------------------
(***************************************************************************)
(* Theorems about Bootstrap, for any installations to one path.            *)
(***************************************************************************)
EXTENDS Bootstrap, TLAPS

-----------------------------------------------------------------------------
(* The inductive invariant, of each Bootstrap.                             *)

\* How far a Bootstrap is, how far its script, and what has happened by then.
\* A script runs on without its caller only if the session was lost.
Before == {"uname", "home", "mkdir", "write", "stage", "run"}
PhaseAt(b) ==
    /\ pc[b] \in Before => sh[b] = "none"
    /\ pc[b] \in Before \ {"run"} => ~script[b]
    /\ pc[b] \in {"stage", "run"} \/ sh[b] # "none" => opts[b].url
    /\ pc[b] = "verify" => sh[b] \in {"none", "exit 0"} /\ ~script[b] /\ b \in put
    /\ pc[b] = "done" /\ b \notin broken =>
           sh[b] \in {"none", "exit 0", "exit 1"} /\ ~script[b]
    /\ sh[b] = "exit 0" => b \in put
    /\ sh[b] = "killed" => b \in broken
    /\ res[b] \in {"installed", "verified"} => b \in put

\* The two temporary files of a script: where they are absent, and where they
\* hold all that was fetched, which is the binary once its digest was checked.
Fetched(b) == {<<b, "whole">>, <<b, "wrong">>}
FilesAt(b) ==
    /\ sh[b] \in {"none", "mktemp", "gunzip", "exit 0", "exit 1"} => tmp[b] = NoFile
    /\ sh[b] \notin {"gunzip", "rm gz", "trap", "killed"} => gz[b] = NoFile
    /\ sh[b] \in {"mv gz", "rm gz", "check", "chmod", "mv", "copy"} => tmp[b] \in Fetched(b)
    /\ sh[b] = "fetch" => tmp[b] = <<b, "part">>
    /\ sh[b] \in {"gunzip", "rm gz"} => gz[b] \in Fetched(b)
    /\ sh[b] \in {"chmod", "mv", "copy"} /\ opts[b].sha => tmp[b] = Whole(b)

IInv ==
    /\ TypeOK /\ PathIsWhole
    /\ \A b \in Boots : PhaseAt(b) /\ FilesAt(b)

Places == {"uname", "home", "mkdir", "write", "stage", "run", "wait", "verify", "done"}
Outcomes == {"none", "error", "installed", "verified"}
ScriptPlaces == {"none", "mktemp", "fetch", "mv gz", "gunzip", "rm gz", "check", "chmod",
                 "mv", "copy", "trap", "exit 0", "exit 1", "killed"}

-----------------------------------------------------------------------------
(* Types and locality.                                                     *)

\* What a file of a Bootstrap holds is never mistaken for its absence.
LEMMA FilesExist ==
    ASSUME NEW b \in Boots, NEW q \in {"whole", "wrong", "part"}
    PROVE  <<b, q>> \in Contents /\ <<b, q>> # NoFile
  BY BootsAssumption DEF Contents

\* A command of Bootstrap leads to one of its places.
LEMMA AfterCommandGoes ==
    ASSUME NEW b \in Boots, TypeOK, pc[b] \in {"uname", "home", "mkdir"}
    PROVE  AfterCommand(b) \in {"home", "mkdir", "stage", "write"}
           /\ (AfterCommand(b) = "stage" => opts[b].url)
  BY DEF AfterCommand, TypeOK

\* The types of what a Bootstrap keeps on this side.
LEMMA CallerTypes ==
    ASSUME TypeOK, NEW b \in Boots, Step(b)
    PROVE  /\ opts' = opts /\ sameFs' = sameFs
           /\ pc' \in [Boots -> Places] /\ res' \in [Boots -> Outcomes]
           /\ put' \subseteq Boots /\ broken' \subseteq Boots
  <1> USE DEF Step, Command, Write, WriteFails, Stage, StageFails, Run, ScriptEnds, Cancelled,
        Lost, Verify, ScriptStep, Move, Copy, MoveFails, Killed, Goto, Return, local, remote
  <1>1. opts' = opts /\ sameFs' = sameFs
    OBVIOUS
  <1>2. pc' \in [Boots -> Places]
    BY AfterCommandGoes DEF TypeOK, Places
  <1>3. res' \in [Boots -> Outcomes]
    BY DEF TypeOK, Outcomes
  <1>4. put' \subseteq Boots /\ broken' \subseteq Boots
    BY DEF TypeOK
  <1> QED BY <1>1, <1>2, <1>3, <1>4

\* The types of what is on the remote.
LEMMA RemoteTypes ==
    ASSUME TypeOK, NEW b \in Boots, FilesAt(b), Step(b)
    PROVE  /\ sh' \in [Boots -> ScriptPlaces] /\ script' \in [Boots -> BOOLEAN]
           /\ tmp' \in [Boots -> Contents] /\ gz' \in [Boots -> Contents]
           /\ installed' \in Contents
  <1> USE DEF Step, Command, Write, WriteFails, Stage, StageFails, Run, ScriptEnds, Cancelled,
        Lost, Verify, ScriptStep, Mktemp, Fetch, MoveGz, Gunzip, RemoveGz, Check, Chmod, Trap,
        Move, Copy, MoveFails, Killed, ToTrap, Script, AfterFetch, AfterGunzip,
        Unzipped, TmpAndGz, local, remote
  <1>1. sh' \in [Boots -> ScriptPlaces]
    BY DEF TypeOK, ScriptPlaces
  <1>2. script' \in [Boots -> BOOLEAN]
    BY DEF TypeOK
  <1>3. tmp' = tmp \/ \E q \in Contents : tmp' = [tmp EXCEPT ![b] = q]
    BY FilesExist DEF File, None, FilesAt, Fetched, Contents
  <1>4. gz' = gz \/ \E q \in Contents : gz' = [gz EXCEPT ![b] = q]
    BY DEF TypeOK, None, Contents
  <1>5. installed' \in {installed, tmp[b], <<b, "part">>, <<b, "whole">>}
    BY DEF Whole
  <1>6. tmp' \in [Boots -> Contents] /\ gz' \in [Boots -> Contents]
    <2>1. tmp \in [Boots -> Contents] /\ gz \in [Boots -> Contents]
      BY DEF TypeOK
    <2>2. \A f \in [Boots -> Contents], q \in Contents : [f EXCEPT ![b] = q] \in [Boots -> Contents]
      OBVIOUS
    <2> QED BY <1>3, <1>4, <2>1, <2>2
  <1>7. installed' \in Contents
    BY <1>5, FilesExist DEF TypeOK
  <1> QED BY <1>1, <1>2, <1>6, <1>7

\* A Bootstrap and its script touch nothing of another one but the install path.
LEMMA StepIsLocal ==
    ASSUME TypeOK, NEW b \in Boots, Step(b)
    PROVE  \A y \in Boots \ {b} :
              /\ pc'[y] = pc[y] /\ res'[y] = res[y] /\ sh'[y] = sh[y]
              /\ script'[y] = script[y] /\ tmp'[y] = tmp[y] /\ gz'[y] = gz[y]
              /\ (y \in put' <=> y \in put) /\ (y \in broken' <=> y \in broken)
  <1> USE DEF Step, Command, Write, WriteFails, Stage, StageFails, Run, ScriptEnds, Cancelled,
        Lost, Verify, ScriptStep, Mktemp, Fetch, MoveGz, Gunzip, RemoveGz, Check, Chmod, Trap,
        Move, Copy, MoveFails, Killed, ToTrap, Script, Unzipped, TmpAndGz, File, None,
        Goto, Return, local, remote, TypeOK
  <1> TAKE y \in Boots \ {b}
  <1>1. pc'[y] = pc[y] /\ res'[y] = res[y]
    OBVIOUS
  <1>2. sh'[y] = sh[y] /\ script'[y] = script[y]
    OBVIOUS
  <1>3. tmp'[y] = tmp[y] /\ gz'[y] = gz[y]
    OBVIOUS
  <1>4. (y \in put' <=> y \in put) /\ (y \in broken' <=> y \in broken)
    OBVIOUS
  <1> QED BY <1>1, <1>2, <1>3, <1>4

-----------------------------------------------------------------------------
(* Every step keeps the invariant of the Bootstrap that takes it.          *)

\* A step of the script: the files pass from place to place, and to the trap
\* whatever fails, with the script's caller waiting or gone.
LEMMA ScriptKeeps ==
    ASSUME TypeOK, NEW b \in Boots, PhaseAt(b), FilesAt(b), ScriptStep(b)
    PROVE  PhaseAt(b)' /\ FilesAt(b)'
  <1>1. /\ sh \in [Boots -> ScriptPlaces] /\ tmp \in [Boots -> Contents]
        /\ gz \in [Boots -> Contents] /\ pc[b] \in Places
        /\ UNCHANGED <<opts, pc, res, script, put, broken>>
        /\ sh[b] \notin {"none", "exit 0", "exit 1", "killed"}
    BY DEF TypeOK, ScriptPlaces, Places, ScriptStep, local, Mktemp, Fetch, MoveGz, Gunzip,
        RemoveGz, Check, Chmod, Trap
  <1>2. /\ sh'[b] \notin {"none", "exit 0", "killed"}
        /\ sh'[b] = "exit 1" => sh[b] = "trap"
    BY <1>1
    DEF ScriptStep, Mktemp, Fetch, MoveGz, Gunzip, RemoveGz, Check, Chmod, Trap, ToTrap,
        Script, AfterFetch, AfterGunzip
  <1>3. PhaseAt(b)'
    BY <1>1, <1>2 DEF PhaseAt, Before, Places
  <1>4. FilesAt(b)'
    <2> USE <1>1 DEF FilesAt, Fetched, Script, ToTrap, File, None, Whole
    <2>1. CASE Mktemp(b)
      BY <2>1 DEF Mktemp
    <2>2. CASE Fetch(b)
      BY <2>2 DEF Fetch, AfterFetch
    <2>3. CASE MoveGz(b)
      BY <2>3 DEF MoveGz
    <2>4. CASE Gunzip(b)
      <3>1. gz[b] \in Fetched(b) /\ gz' = gz
        BY <2>4 DEF Gunzip
      <3>2. <<b, gz[b][2]>> \in Fetched(b)
        <4>1. <<b, "whole">>[2] = "whole" /\ <<b, "wrong">>[2] = "wrong"
          OBVIOUS
        <4>2. gz[b] = <<b, "whole">> \/ gz[b] = <<b, "wrong">>
          BY <3>1 DEF Fetched
        <4>3. gz[b] = <<b, gz[b][2]>>
          BY <4>1, <4>2
        <4> QED BY <3>1, <4>3
      <3>3. \/ sh'[b] = "rm gz" /\ tmp'[b] = <<b, gz[b][2]>>
            \/ sh'[b] = "trap"
        BY <2>4 DEF Gunzip
      <3> QED BY <3>1, <3>2, <3>3
    <2>5. CASE RemoveGz(b)
      BY <2>5 DEF RemoveGz, Unzipped, AfterGunzip
    <2>6. CASE Check(b)
      BY <2>6 DEF Check
    <2>7. CASE Chmod(b)
      BY <2>7 DEF Chmod
    <2>8. CASE Trap(b)
      BY <2>8 DEF Trap, TmpAndGz
    <2> QED BY <2>1, <2>2, <2>3, <2>4, <2>5, <2>6, <2>7, <2>8 DEF ScriptStep
  <1> QED BY <1>3, <1>4

\* The other steps: the commands of Bootstrap, the last `mv' of the script, and
\* the signal that kills it.
LEMMA OwnStep ==
    ASSUME TypeOK, NEW b \in Boots, PhaseAt(b), FilesAt(b), Step(b)
    PROVE  PhaseAt(b)' /\ FilesAt(b)'
  <1>1. /\ sh \in [Boots -> ScriptPlaces] /\ tmp \in [Boots -> Contents]
        /\ gz \in [Boots -> Contents] /\ script \in [Boots -> BOOLEAN]
        /\ pc \in [Boots -> Places] /\ res \in [Boots -> Outcomes] /\ opts' = opts
    BY CallerTypes DEF TypeOK, ScriptPlaces, Places, Outcomes
  <1> USE <1>1 DEF Goto, Return, Script, local, remote, PhaseAt, FilesAt, Before
  <1>2. CASE Command(b)
    BY <1>2, AfterCommandGoes DEF Command
  <1>3. CASE Write(b) \/ WriteFails(b)
    BY <1>3 DEF Write, WriteFails
  <1>4. CASE Stage(b) \/ StageFails(b)
    BY <1>4 DEF Stage, StageFails
  <1>5. CASE Run(b)
    BY <1>5 DEF Run
  <1>6. CASE ScriptEnds(b)
    BY <1>6 DEF ScriptEnds, CodeOfScript
  <1>7. CASE Cancelled(b) \/ Lost(b)
    BY <1>7 DEF Cancelled, Lost
  <1>8. CASE Verify(b)
    BY <1>8 DEF Verify
  <1>9. CASE ScriptStep(b)
    BY <1>9, ScriptKeeps
  <1>10. CASE Move(b)
    BY <1>10 DEF Move, None
  <1>11. CASE Copy(b) \/ MoveFails(b)
    BY <1>11 DEF Copy, MoveFails, ToTrap
  <1>12. CASE Killed(b)
    BY <1>12 DEF Killed, Running
  <1> QED BY <1>2, <1>3, <1>4, <1>5, <1>6, <1>7, <1>8, <1>9, <1>10, <1>11, <1>12 DEF Step

\* What is moved to the path is what was fetched whole, and checked.
LEMMA PathStep ==
    ASSUME TypeOK, PathIsWhole, NEW b \in Boots, PhaseAt(b), FilesAt(b), Step(b)
    PROVE  PathIsWhole'
  <1>1. opts' = opts /\ sameFs' = sameFs
    BY CallerTypes
  <1>2. CASE Write(b)
    BY <1>2 DEF Write, Whole, PathIsWhole
  <1>3. CASE Move(b)
    <2>1. installed' = tmp[b] /\ tmp[b] \in Fetched(b)
      BY <1>3 DEF Move, FilesAt
    <2>2. opts[b].url /\ (opts[b].sha => tmp[b] = Whole(b))
      BY <1>3 DEF Move, FilesAt, PhaseAt
    <2> QED BY <1>1, <2>1, <2>2 DEF Fetched, Whole, PathIsWhole
  <1>4. CASE Copy(b)
    BY <1>1, <1>4 DEF Copy, PathIsWhole
  <1>5. CASE UNCHANGED installed
    BY <1>1, <1>5 DEF PathIsWhole
  <1> QED BY <1>2, <1>3, <1>4, <1>5
      DEF Step, Command, WriteFails, Stage, StageFails, Run, ScriptEnds, Cancelled, Lost,
          Verify, ScriptStep, MoveFails, Killed, remote

-----------------------------------------------------------------------------
(* The theorems.                                                           *)

\* Nothing is staged, fetched or installed to begin with.
LEMMA InitIInv == Init => IInv
  <1> SUFFICES ASSUME Init PROVE IInv
    OBVIOUS
  <1>1. TypeOK
    BY DEF Init, TypeOK, Contents
  <1>2. PathIsWhole
    BY DEF Init, PathIsWhole
  <1>3. \A b \in Boots : PhaseAt(b) /\ FilesAt(b)
    BY DEF Init, PhaseAt, FilesAt, Before
  <1> QED BY <1>1, <1>2, <1>3 DEF IInv

\* The invariant is inductive.
LEMMA NextIInv == IInv /\ [Next]_vars => IInv'
  <1> SUFFICES ASSUME IInv, [Next]_vars PROVE IInv'
    OBVIOUS
  <1>1. ASSUME NEW b \in Boots, Step(b)
        PROVE  IInv'
    <2>1. PhaseAt(b)' /\ FilesAt(b)' /\ PathIsWhole'
      BY <1>1, OwnStep, PathStep DEF IInv
    <2>2. \A y \in Boots \ {b} : PhaseAt(y)' /\ FilesAt(y)'
      <3> SUFFICES ASSUME NEW y \in Boots \ {b} PROVE PhaseAt(y)' /\ FilesAt(y)'
        OBVIOUS
      <3>1. PhaseAt(y) /\ FilesAt(y) /\ opts' = opts
        BY <1>1, CallerTypes DEF IInv
      <3>2. /\ pc'[y] = pc[y] /\ res'[y] = res[y] /\ sh'[y] = sh[y]
            /\ script'[y] = script[y] /\ tmp'[y] = tmp[y] /\ gz'[y] = gz[y]
            /\ (y \in put' <=> y \in put) /\ (y \in broken' <=> y \in broken)
        BY <1>1, StepIsLocal DEF IInv
      <3> QED BY <3>1, <3>2 DEF PhaseAt, FilesAt
    <2>3. \A y \in Boots :
             /\ sh'[y] \in {"fetch", "mv gz", "rm gz", "check", "chmod", "mv", "copy"} =>
                    tmp'[y] # NoFile
             /\ sh'[y] \in {"gunzip", "rm gz"} => gz'[y] # NoFile
      BY <2>1, <2>2, FilesExist DEF FilesAt, Fetched
    <2>4. TypeOK'
      BY <1>1, <2>3, CallerTypes, RemoteTypes
      DEF IInv, TypeOK, Places, Outcomes, ScriptPlaces
    <2> QED BY <2>1, <2>2, <2>4 DEF IInv
  <1>2. CASE UNCHANGED vars
    BY <1>2 DEF IInv, TypeOK, PathIsWhole, PhaseAt, FilesAt, vars, local, remote
  <1> QED BY <1>1, <1>2 DEF Next

\* The types of every variable; each step of the script finds the file that it
\* works on, whatever has failed or been killed around it.
THEOREM TypeCorrect == Spec => []TypeOK
  <1>1. IInv => TypeOK
    BY DEF IInv
  <1> QED BY <1>1, InitIInv, NextIInv, PTL DEF Spec

\* However many installations to one path overlap, the path never shows part of
\* a binary that was moved within a file system, nor one that failed its digest.
THEOREM PathWhole == Spec => []PathIsWhole
  <1>1. IInv => PathIsWhole
    BY DEF IInv
  <1> QED BY <1>1, InitIInv, NextIInv, PTL DEF Spec

\* Bootstrap returns success only after its own binary replaced the file.
THEOREM SuccessInstalled == Spec => []SuccessIsInstalled
  <1>1. IInv => SuccessIsInstalled
    BY DEF IInv, PhaseAt, SuccessIsInstalled
  <1> QED BY <1>1, InitIInv, NextIInv, PTL DEF Spec

\* A Bootstrap that ends, in whatever way but by a command cancelled or lost,
\* leaves neither script nor temporary files.
THEOREM RetryClean == Spec => []RetryStartsClean
  <1>1. IInv => RetryStartsClean
    BY DEF IInv, PhaseAt, FilesAt, RetryStartsClean
  <1> QED BY <1>1, InitIInv, NextIInv, PTL DEF Spec
=============================================================================
