-------------------------- MODULE ProcessorNetwork --------------------------
(***************************************************************************)
(* Processing a network: src/control/lib/processing/ProcessorNetwork.cpp,  *)
(* ProcessingStep.cpp, ProcessingThread.cpp and the classes of steps that  *)
(* decide about their own status, in runs of the astroprocess program.     *)
(*                                                                         *)
(* A run reads the description (NetworkParser), then process() looks for a *)
(* step that needs work, lets a thread work on it, joins the thread, and   *)
(* looks again.  Files outlive the program: it may be killed at any time,  *)
(* and sources may be replaced before the next run.                        *)
(*                                                                         *)
(* Four classes stand for all: "file" (FileImageStep), "write"             *)
(* (WritableFileImageStep), "calib" (ImageCalibrationStep), and "plain"    *)
(* for the classes that inherit status() from ProcessingStep.              *)
(***************************************************************************)
EXTENDS NetworkParser, FiniteSets, FiniteSetsExt

CONSTANTS
  MaxRuns,    \* bound on the runs of the program
  MaxTouch    \* bound on the replacements of source files

ASSUME NetworkAssumption == MaxRuns \in Nat \ {0} /\ MaxTouch \in Nat

VARIABLES
  run,      \* the number of this run
  clock,    \* the time of the youngest file
  touched,  \* replacements of source files so far
  ctime,    \* the time of each file step's file, 0 if there is none
  status,   \* _status of each step
  memo,     \* _previousstate of the "write" steps, where it is final
  image,    \* the steps with an _image
  active,   \* the step the thread works on, 0 if there is none
  sound,    \* history: steps whose _image was made from sound images of
            \* precursors that were complete
  whole,    \* history: files that hold a sound image
  torn      \* history: steps whose work broke off half way, and files that
            \* depend on one

fileVars == <<clock, touched, ctime, whole, torn>>
memoryVars == <<status, memo, image, active, sound>>
vars == <<parserVars, run, fileVars, memoryVars>>

State == {"idle", "needswork", "working", "complete", "failed"}

Init ==
  /\ ParserInit
  /\ run = 1 /\ clock = 1 /\ touched = 0
  /\ ctime = [s \in Step |-> 0]
  /\ whole = {} /\ torn = {}
  /\ status = [s \in Step |-> "idle"] /\ memo = [s \in Step |-> "idle"]
  /\ image = {} /\ sound = {}
  /\ active = 0

---------------------------------------------------------------------------
\* The steps of a search

terminals == {s \in known : successors[s] = {}}

\* The steps below s, through one link or more: what every set has in common
\* that holds the precursors of s and those of its own members.
Closed(C) == \A c \in C : precursors[c] \subseteq C
Below(s) ==
  {b \in known : \A C \in SUBSET known :
     precursors[s] \subseteq C /\ Closed(C) => b \in C}

\* The steps process() can come to.
Searched == terminals \cup UNION {Below(t) : t \in terminals}
Cyclic == \E s \in Searched : s \in Below(s)

---------------------------------------------------------------------------
\* The status of a step

TheOnly(S) == CHOOSE x \in S : TRUE

\* when(): files have a time of their own, other steps that of their youngest
\* precursor.
When[s \in Searched] ==
  IF kind[s] \in {"file", "write"} THEN ctime[s]
  ELSE IF precursors[s] = {} THEN 0
  ELSE Max({When[p] : p \in precursors[s]})

\* A written file is up to date if it is younger than its precursor.
UpToDateSlip(s) == ctime[s] > 0
UpToDate(s) == When[TheOnly(precursors[s])] < ctime[s]

\* status() of the four classes, st being the status of the precursors.
FileStatus(s) == IF ctime[s] > 0 THEN "complete" ELSE "failed"

WriteStatus(st, s) ==
  IF Cardinality(precursors[s]) # 1 THEN "failed"
  ELSE IF memo[s] # "idle" THEN memo[s]
  ELSE IF UpToDate(s) THEN "complete"
  ELSE CASE st[TheOnly(precursors[s])] = "complete" -> "needswork"
         [] st[TheOnly(precursors[s])] = "failed"   -> "failed"
         [] OTHER                                   -> "idle"

CalibStatus(st, s) ==
  IF s \in image THEN "complete"
  ELSE IF \A p \in precursors[s] : st[p] = "complete" THEN "needswork"
  ELSE "idle"

PlainStatusSlip(st, s) ==
  IF precursors[s] = {} THEN status[s]
  ELSE IF \E p \in precursors[s] : st[p] = "failed" THEN "failed"
  ELSE IF \E p \in precursors[s] : st[p] \in {"complete", "failed"}
       THEN IF status[s] = "complete" THEN "complete" ELSE "needswork"
  ELSE "idle"
PlainStatus(st, s) ==
  IF precursors[s] = {} THEN status[s]
  ELSE IF \E p \in precursors[s] : st[p] = "failed" THEN "failed"
  ELSE IF \A p \in precursors[s] : st[p] = "complete"
       THEN IF status[s] = "complete" THEN "complete" ELSE "needswork"
  ELSE "idle"

StatusOf(st, s) ==
  CASE kind[s] = "file"  -> FileStatus(s)
    [] kind[s] = "write" -> WriteStatus(st, s)
    [] kind[s] = "calib" -> CalibStatus(st, s)
    [] OTHER             -> PlainStatus(st, s)

Status[s \in Searched] == StatusOf(Status, s)

---------------------------------------------------------------------------
\* process()

\* process(id) of an idle step tries its precursors one after the other.
TriedSlip(s) == {p \in precursors[s] : p = Min(precursors[s])}
Tried(s) == precursors[s]

\* The steps process(id) may come to: it returns a step that needs work and
\* looks below an idle one only.
Found[s \in Searched] ==
  CASE Status[s] = "needswork" -> {s}
    [] Status[s] = "idle" -> UNION {Found[p] : p \in Tried(s)}
    [] OTHER -> {}

Candidates == known \cap UNION {Found[t] : t \in terminals}

\* A "write" step remembers the first final status it returns.  Which steps a
\* search asks depends on the order of the links, so any of them may be asked.
Remember ==
  \E asked \in SUBSET {s \in Searched : /\ kind[s] = "write" /\ memo[s] = "idle"
                                        /\ Status[s] \in {"complete", "failed"}} :
    memo' = [s \in Step |-> IF s \in asked THEN Status[s] ELSE memo[s]]

\* The program looks at its files for the first time: some sources exist.
Begin ==
  /\ EndProcess
  /\ \E missing \in SUBSET Step :
       ctime' = [s \in Step |-> IF kind[s] = "file" /\ s \notin missing THEN 1 ELSE 0]
  /\ UNCHANGED <<run, clock, touched, whole, torn, memoryVars>>

\* The precursors are complete, and so are their images.
SoundImage(s) ==
  CASE kind[s] = "file"                   -> TRUE
    [] kind[s] = "write" /\ s \notin image -> s \in whole
    [] OTHER                              -> s \in sound
SoundInput(s) ==
  \A p \in precursors[s] : Status[p] = "complete" /\ SoundImage(p)
TornInput(s) == precursors[s] \cap torn # {}
With(S, s, member) == IF member THEN S \cup {s} ELSE S \ {s}

\* process() finds a step and starts a thread that works on it.
Pick ==
  /\ phase = "loop" /\ ~Cyclic
  /\ \E s \in Candidates :
       /\ active' = s
       /\ status' = [status EXCEPT ![s] = "working"]
  /\ Remember
  /\ phase' = "working"
  /\ UNCHANGED <<born, kind, linkVars, docVars, extra, refused, run, fileVars,
                 image, sound>>

EndRun ==
  /\ phase = "loop" /\ ~Cyclic
  /\ Candidates = {}
  /\ Remember
  /\ phase' = "done"
  /\ UNCHANGED <<born, kind, linkVars, docVars, extra, refused, run, fileVars,
                 status, image, active, sound>>

\* work() returns and the thread is joined.
Joined(result) ==
  /\ phase = "working" /\ phase' = "loop"
  /\ status' = [status EXCEPT ![active] = result]
  /\ active' = 0
  /\ UNCHANGED <<born, kind, linkVars, docVars, extra, refused, run, touched>>

\* A new file for the active "write" step.
NewFile(content) ==
  /\ clock' = clock + 1
  /\ ctime' = [ctime EXCEPT ![active] = clock + 1]
  /\ whole' = With(whole, active, content)

\* do_work() completes.  A step without precursors has nothing to work with.
WorkDoneSlip ==
  /\ Joined("complete")
  /\ precursors[active] # {}
  /\ image' = IF kind[active] = "calib" THEN image ELSE image \cup {active}
  /\ sound' = With(sound, active, SoundInput(active))
  /\ torn' = With(torn, active, TornInput(active))
  /\ IF kind[active] = "write"
     THEN NewFile(SoundInput(active)) /\ memo' = [memo EXCEPT ![active] = "complete"]
     ELSE UNCHANGED <<clock, ctime, whole, memo>>
WorkDone ==
  /\ Joined("complete")
  /\ precursors[active] # {}
  /\ image' = image \cup {active}
  /\ sound' = With(sound, active, SoundInput(active))
  /\ torn' = With(torn, active, TornInput(active))
  /\ IF kind[active] = "write"
     THEN NewFile(SoundInput(active)) /\ memo' = [memo EXCEPT ![active] = "complete"]
     ELSE UNCHANGED <<clock, ctime, whole, memo>>

\* do_work() fails before it has changed anything.
WorkFailsEarly ==
  /\ Joined("failed")
  /\ UNCHANGED <<clock, ctime, whole, torn, image, sound, memo>>

\* The calibration stores the copy of its raw image and then throws.
CalibFailsLate ==
  /\ Joined("failed")
  /\ kind[active] = "calib" /\ precursors[active] # {}
  /\ image' = image \cup {active}
  /\ sound' = sound \ {active}
  /\ torn' = torn \cup {active}
  /\ UNCHANGED <<clock, ctime, whole, memo>>

\* write() has unlinked the old file and cannot create the new one, or not
\* complete it.
WriteLeaves ==
  \/ /\ ctime' = [ctime EXCEPT ![active] = 0]
     /\ UNCHANGED <<clock, whole, torn>>
  \/ /\ NewFile(FALSE)
     /\ torn' = torn \cup {active}
WriteFailsLate ==
  /\ Joined("failed")
  /\ kind[active] = "write"
  /\ image' = image \cup {active}
  /\ sound' = With(sound, active, SoundInput(active))
  /\ WriteLeaves
  /\ UNCHANGED memo

WorkFails == WorkFailsEarly \/ CalibFailsLate \/ WriteFailsLate

\* The program is killed, or dies because the new thread uses _step before the
\* constructor of ProcessingThread has stored it, or overflows its stack in a
\* cycle of the network.
Die ==
  /\ \/ phase = "working"
     \/ phase = "loop" /\ Cyclic
  /\ phase' = "off"
  /\ \/ UNCHANGED <<clock, ctime, whole, torn>>
     \/ phase = "working" /\ kind[active] = "write" /\ WriteLeaves
  /\ UNCHANGED <<born, kind, linkVars, docVars, extra, refused, run, touched,
                 memoryVars>>

\* The program is started again with the same description.
Restart ==
  /\ phase \in {"done", "off"} /\ run < MaxRuns
  /\ run' = run + 1
  /\ phase' = "loop"
  /\ status' = [s \in Step |-> "idle"] /\ memo' = [s \in Step |-> "idle"]
  /\ image' = {} /\ sound' = {} /\ active' = 0
  /\ torn' = {s \in torn : kind[s] = "write"}
  /\ UNCHANGED <<born, kind, linkVars, docVars, extra, refused, clock, touched,
                 ctime, whole>>

\* Somebody replaces a source, or adds one that was missing.
Touch ==
  /\ phase \in {"done", "off"} /\ run < MaxRuns /\ touched < MaxTouch
  /\ \E s \in known :
       kind[s] = "file" /\ ctime' = [ctime EXCEPT ![s] = clock + 1]
  /\ clock' = clock + 1 /\ touched' = touched + 1
  /\ phase' = "off"
  /\ UNCHANGED <<born, kind, linkVars, docVars, extra, refused, run, whole, torn, memoryVars>>

Parse ==
  /\ StartStep \/ StartOrphan \/ StartRefused \/ StartImage \/ StartImageCrash
     \/ EndElement
  /\ UNCHANGED <<run, fileVars, memoryVars>>

Process == Pick \/ EndRun \/ WorkDone \/ WorkFails \/ Die

Next == Parse \/ Begin \/ Process \/ Restart \/ Touch

Spec == Init /\ [][Next]_vars
FairSpec == Spec /\ WF_vars(Process)

---------------------------------------------------------------------------
TypeOK ==
  /\ ParserTypeOK
  /\ run \in 1..MaxRuns /\ touched \in 0..MaxTouch
  /\ clock \in Nat \ {0} /\ ctime \in [Step -> 0..clock]
  /\ status \in [Step -> State]
  /\ memo \in [Step -> {"idle", "complete", "failed"}]
  /\ active \in known \cup {0} /\ (phase = "working" => active # 0)
  /\ image \in SUBSET Step /\ sound \in SUBSET Step
  /\ whole \in SUBSET Step /\ torn \in SUBSET Step

Processed == phase \in {"loop", "working", "done"} /\ ~Cyclic

\* A step that reports complete has an image made in order, from the images of
\* precursors that were complete then, or work somewhere below it broke off
\* half way: a crash, a full disk or a failed calibration (ProcessingStep.cpp:
\* 453-515, WritableFileImageStep.cpp:36-191, ImageCalibrationStep.cpp:133-159).
CompleteIsSound ==
  Processed => \A s \in Searched :
                 Status[s] = "complete" => SoundImage(s) \/ s \in torn

\* Nothing below s keeps it from being built: sources exist, "write" steps have
\* the one precursor they need, the others have some.
Buildable(s) ==
  \A b \in Below(s) \cup {s} :
    CASE kind[b] = "file"  -> ctime[b] > 0
      [] kind[b] = "write" -> Cardinality(precursors[b]) = 1
      [] OTHER             -> precursors[b] # {}

\* When process() returns, every step nothing depends on is complete, unless it
\* could not be built at all: the search never gives up above a step that still
\* needs work (ProcessorNetwork.cpp:152-198).
DoneMeansBuilt ==
  phase = "done" =>
    \A t \in terminals : Buildable(t) => Status[t] = "complete"

\* When process() returns, a written file is younger than every source it was
\* made from, also if sources were replaced after an earlier run or that run
\* crashed, provided that no other file lies in between
\* (WritableFileImageStep.cpp:57-88, ProcessingStep.cpp:421-448).
OutputsFresh ==
  phase = "done" =>
    \A t \in terminals :
      /\ kind[t] = "write" /\ Status[t] = "complete"
      /\ \A b \in Below(t) : \/ kind[b] \in {"calib", "plain"}
                             \/ kind[b] = "file" /\ precursors[b] = {}
      => \A b \in Below(t) : ctime[b] < ctime[t]

\* process() returns unless work fails again and again
\* (ProcessorNetwork.cpp:216-228).
ProcessEnds ==
  []<><<WorkFails>>_vars \/ (phase = "loop" ~> phase \in {"done", "off"})
=============================================================================
