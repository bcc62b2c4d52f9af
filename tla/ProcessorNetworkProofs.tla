----------------------- MODULE ProcessorNetworkProofs -----------------------
(***************************************************************************)
(* Theorems about NetworkParser.tla and ProcessorNetwork.tla: the network  *)
(* that a document of any size describes is well linked, whatever the      *)
(* parser refused, and stays so through all runs, crashes and restarts;    *)
(* what is complete was made in order, what can be built is built, and     *)
(* what is written is younger than its sources.                            *)
(*                                                                         *)
(* The status of a step is defined by recursion along the links.  Without  *)
(* a cycle the steps are ranked by how many are below them, so the         *)
(* recursive functions exist, and properties of all steps are proved from  *)
(* the bottom up.                                                          *)
(***************************************************************************)
EXTENDS ProcessorNetwork, SequenceTheorems, FiniteSetTheorems,
        WellFoundedInduction, TLAPS

---------------------------------------------------------------------------
\* The stack

LEMMA TopOf == ASSUME NEW S, NEW s \in Seq(S), s # <<>> PROVE Top(s) \in S
  BY LenProperties, EmptySeq DEF Top

LEMMA PopOf == ASSUME NEW S, NEW s \in Seq(S), s # <<>> PROVE Pop(s) \in Seq(S)
<1>1. Len(s) \in Nat \ {0}
  OBVIOUS
<1> QED
  BY <1>1, SubSeqProperties DEF Pop

---------------------------------------------------------------------------
\* What the parser builds

\* Steps are numbered in the order of their birth,
\* those that are not born yet have no links, and links lead to registered steps
\* only.
Links ==
  /\ known \subseteq 1..born /\ stepstack \in Seq(1..born)
  /\ LinksRegistered
  /\ \A s \in Step : s > born => precursors[s] = {} /\ successors[s] = {}
  /\ LinksMutual

ParserInv == ParserTypeOK /\ Links /\ StackIsPath

LEMMA ParserFrame ==
  ASSUME ParserInv, UNCHANGED <<kind, born, linkVars, docVars, extra, refused>>, phase' \in Phase
  PROVE  ParserInv'
  BY DEF ParserInv, ParserTypeOK, Links, LinksRegistered, LinksMutual, StackIsPath,
         linkVars, docVars

\* What Linked() does to the two sets of links.
LinkedOk(prec, succ, s, P) ==
  LET all == Linked(prec, succ, s, P) IN
  /\ all.p \in [Step -> SUBSET Step] /\ all.s \in [Step -> SUBSET Step]
  /\ \A t \in Step : all.p[t] = IF t = s THEN prec[s] \cup P ELSE prec[t]
  /\ \A t \in Step : all.s[t] = IF t \in P THEN succ[t] \cup {s} ELSE succ[t]

LEMMA LinkedBy ==
  ASSUME NEW prec \in [Step -> SUBSET Step], NEW succ \in [Step -> SUBSET Step],
         NEW s \in Step, NEW P \in SUBSET Step
  PROVE  LinkedOk(prec, succ, s, P)
  BY DEF Linked, LinkedOk

LEMMA StartStepKeeps == ParserInv /\ StartStep => ParserInv'
<1> SUFFICES ASSUME ParserInv, StartStep PROVE ParserInv'
  OBVIOUS
<1> USE ParserAssumption
<1> DEFINE new == born + 1
<1>1. /\ new \in Step /\ born \in Nat /\ new \notin known /\ Parent \subseteq known
      /\ born' = new /\ known' = known \cup {new} /\ known \in SUBSET Step
      /\ precursors \in [Step -> SUBSET Step] /\ successors \in [Step -> SUBSET Step]
      /\ UNCHANGED <<phase, extra, refused>>
      /\ stepstack' = Append(stepstack, new) /\ document' = Append(document, new)
  BY DEF StartStep, ParserInv, ParserTypeOK, Step, MayAttach, Links
<1>2. PICK refs \in {{}} \cup {{r} : r \in known \cup {new}} :
        LET up == IF Parent = {} THEN [p |-> precursors, s |-> successors]
                  ELSE Linked(precursors, successors, Top(stepstack), {new})
            all == Linked(up.p, up.s, new, refs)
        IN precursors' = all.p /\ successors' = all.s
  BY DEF StartStep
<1> DEFINE up == IF Parent = {} THEN [p |-> precursors, s |-> successors]
                 ELSE Linked(precursors, successors, Top(stepstack), {new})
<1>3. /\ up.p \in [Step -> SUBSET Step] /\ up.s \in [Step -> SUBSET Step]
      /\ \A t \in Step : up.p[t] = IF t \in Parent THEN precursors[t] \cup {new}
                                   ELSE precursors[t]
      /\ \A t \in Step : up.s[t] = IF t = new THEN successors[t] \cup Parent
                                   ELSE successors[t]
  <2>1. CASE Parent = {}
    BY <1>1, <2>1
  <2>2. CASE Parent # {}
    <3>1. Parent = {Top(stepstack)} /\ Top(stepstack) \in Step
      BY <1>1, <2>2 DEF Parent
    <3>2. up = Linked(precursors, successors, Top(stepstack), {new})
      BY <2>2
    <3>3. /\ up.p \in [Step -> SUBSET Step] /\ up.s \in [Step -> SUBSET Step]
          /\ \A t \in Step : up.p[t] = IF t = Top(stepstack) THEN precursors[Top(stepstack)] \cup {new}
                                       ELSE precursors[t]
          /\ \A t \in Step : up.s[t] = IF t \in {new} THEN successors[t] \cup {Top(stepstack)}
                                       ELSE successors[t]
      <4> HIDE DEF up, new
      <4>1. {new} \in SUBSET Step
        BY <1>1
      <4> QED
        <5>1. LinkedOk(precursors, successors, Top(stepstack), {new})
          BY <1>1, <3>1, <4>1, LinkedBy
        <5> QED
          BY <3>2, <5>1 DEF LinkedOk
    <3> QED
      BY <3>1, <3>3
  <2> QED
    BY <2>1, <2>2
<1>4. refs \in SUBSET Step /\ refs \subseteq known'
  BY <1>1, <1>2
<1> HIDE DEF up
<1>5. /\ precursors' \in [Step -> SUBSET Step] /\ successors' \in [Step -> SUBSET Step]
      /\ \A t \in Step : precursors'[t] = IF t = new THEN up.p[t] \cup refs ELSE up.p[t]
      /\ \A t \in Step : successors'[t] = IF t \in refs THEN up.s[t] \cup {new} ELSE up.s[t]
  <2>1. /\ precursors' = Linked(up.p, up.s, new, refs).p
        /\ successors' = Linked(up.p, up.s, new, refs).s
    BY <1>2 DEF up
  <2> HIDE DEF new
  <2> QED
    <3>1. LinkedOk(up.p, up.s, new, refs)
      BY <1>1, <1>3, <1>4, LinkedBy
    <3> QED
      BY <2>1, <3>1 DEF LinkedOk
<1> HIDE DEF new
<1>6. /\ new \notin Parent /\ precursors[new] = {} /\ successors[new] = {}
      /\ \A s \in Step : new \notin precursors[s] /\ new \notin successors[s]
  <2>1. new \in Step /\ new > born /\ new \notin known
    BY <1>1 DEF new
  <2>2. precursors[new] = {} /\ successors[new] = {}
    BY <2>1 DEF ParserInv, Links
  <2>3. \A s \in Step : precursors[s] \subseteq known /\ successors[s] \subseteq known
    BY DEF ParserInv, Links, LinksRegistered
  <2> QED
    BY <1>1, <2>1, <2>2, <2>3
<1>7. ParserTypeOK'
  <2>1. kind' \in [Step -> Kind \cup {NoKind}] /\ known' \in SUBSET Step /\ born' \in 0..MaxStep
    BY <1>1 DEF StartStep, ParserInv, ParserTypeOK, Step
  <2>2. stepstack' \in Seq(Step) /\ document' \in Seq(Step \cup {Refused})
    BY <1>1 DEF ParserInv, ParserTypeOK
  <2> QED
    BY <1>1, <1>5, <2>1, <2>2 DEF ParserInv, ParserTypeOK
<1>8. known' \subseteq 1..born' /\ stepstack' \in Seq(1..born')
  <2>1. known' \subseteq 1..born'
    BY <1>1 DEF ParserInv, Links, new
  <2>2. stepstack \in Seq(1..born') /\ new \in 1..born'
    <3>1. 1..born \subseteq 1..born' /\ new \in 1..born'
      BY <1>1 DEF new
    <3>2. stepstack \in Seq(1..born)
      BY DEF ParserInv, Links
    <3> QED
      BY <3>1, <3>2, SeqMonotonic
  <2> QED
    BY <1>1, <2>1, <2>2
<1>9. LinksRegistered'
  <2> SUFFICES ASSUME NEW s \in Step
               PROVE  precursors'[s] \subseteq known' /\ successors'[s] \subseteq known'
    BY DEF LinksRegistered
  <2>1. precursors[s] \subseteq known /\ successors[s] \subseteq known
    BY DEF ParserInv, Links, LinksRegistered
  <2> QED
    BY <1>1, <1>3, <1>4, <1>5, <2>1
<1>10. ASSUME NEW s \in Step, s > born'
       PROVE  precursors'[s] = {} /\ successors'[s] = {}
  <2>1. s # new /\ s \notin Parent /\ s \notin refs /\ s > born
    BY <1>1, <1>4, <1>10 DEF ParserInv, Links, new, Step
  <2> QED
    BY <1>3, <1>5, <2>1 DEF ParserInv, Links
<1>11. LinksMutual'
  <2> SUFFICES ASSUME NEW s \in known', NEW t \in known'
               PROVE  t \in precursors'[s] <=> s \in successors'[t]
    BY DEF LinksMutual
  <2>1. s \in Step /\ t \in Step
    BY <1>1
  <2>2. t \in precursors'[s] <=> \/ t \in precursors[s]
                                 \/ s \in Parent /\ t = new
                                 \/ s = new /\ t \in refs
    BY <1>3, <1>5, <2>1
  <2>3. s \in successors'[t] <=> \/ s \in successors[t]
                                 \/ t = new /\ s \in Parent
                                 \/ t \in refs /\ s = new
    BY <1>3, <1>5, <2>1
  <2>4. t \in precursors[s] <=> s \in successors[t]
    <3>1. CASE s \in known /\ t \in known
      BY <3>1 DEF ParserInv, Links, LinksMutual
    <3>2. CASE s = new
      BY <1>6, <2>1, <3>2
    <3>3. CASE t = new
      BY <1>6, <2>1, <3>3
    <3> QED
      BY <1>1, <3>1, <3>2, <3>3
  <2> QED
    BY <2>2, <2>3, <2>4
<1>12. StackIsPath'
  BY <1>1 DEF ParserInv, StackIsPath
<1> QED
  BY <1>7, <1>8, <1>9, <1>10, <1>11, <1>12 DEF ParserInv, Links

LEMMA StartOrphanKeeps == ParserInv /\ StartOrphan => ParserInv'
<1> SUFFICES ASSUME ParserInv, StartOrphan PROVE ParserInv'
  OBVIOUS
<1> USE ParserAssumption
<1>1. /\ born + 1 \in Step /\ born \in Nat /\ born' = born + 1 /\ extra' \in 0..MaxExtra
      /\ UNCHANGED <<phase, kind, linkVars, refused>>
      /\ stepstack' = Append(stepstack, born + 1) /\ document' = Append(document, born + 1)
  <2>1. extra' \in 0..MaxExtra
    <3>1. CASE MayAttach
      BY <3>1 DEF StartOrphan, ParserInv, ParserTypeOK
    <3>2. CASE ~MayAttach
      BY <3>2 DEF StartOrphan, ParserInv, ParserTypeOK
    <3> QED
      BY <3>1, <3>2
  <2> QED
    BY <2>1 DEF StartOrphan, ParserInv, ParserTypeOK, Step
<1>2. ParserTypeOK'
  <2>1. /\ stepstack' \in Seq(Step) /\ document' \in Seq(Step \cup {Refused})
        /\ born' \in 0..MaxStep
    BY <1>1 DEF ParserInv, ParserTypeOK, Step
  <2> QED
    BY <1>1, <2>1 DEF ParserInv, ParserTypeOK, linkVars
<1>3. Links'
  <2>1. stepstack' \in Seq(1..born')
    <3>1. 1..born \subseteq 1..born' /\ born + 1 \in 1..born'
      BY <1>1
    <3>2. stepstack \in Seq(1..born')
      BY <3>1, SeqMonotonic DEF ParserInv, Links
    <3> QED
      BY <1>1, <3>1, <3>2
  <2>2. known' \subseteq 1..born'
    BY <1>1 DEF ParserInv, Links, linkVars
  <2>3. ASSUME NEW s \in Step, s > born' PROVE precursors'[s] = {} /\ successors'[s] = {}
    BY <1>1, <2>3 DEF ParserInv, Links, linkVars, Step
  <2> QED
    BY <1>1, <2>1, <2>2, <2>3 DEF ParserInv, Links, LinksRegistered, LinksMutual, linkVars
<1>4. StackIsPath'
  BY <1>1 DEF ParserInv, StackIsPath
<1> QED
  BY <1>2, <1>3, <1>4 DEF ParserInv

LEMMA StartRefusedKeeps == ParserInv /\ StartRefused => ParserInv'
<1> SUFFICES ASSUME ParserInv, StartRefused PROVE ParserInv'
  OBVIOUS
<1>1. document' \in Seq(Step \cup {Refused}) /\ extra' \in 0..MaxExtra /\ refused'
  BY ParserAssumption DEF ParserInv, ParserTypeOK, StartRefused
<1> QED
  BY <1>1 DEF StartRefused, ParserInv, ParserTypeOK, Links, LinksRegistered, LinksMutual,
              StackIsPath, linkVars

LEMMA StartImageKeeps == ParserInv /\ StartImage => ParserInv'
<1> SUFFICES ASSUME ParserInv, StartImage PROVE ParserInv'
  OBVIOUS
<1> USE ParserAssumption
<1> DEFINE t == Top(stepstack)
<1>1. PICK s \in known :
        /\ precursors' = [precursors EXCEPT ![t] = @ \cup {s}]
        /\ IF t \in known
           THEN /\ successors' = [successors EXCEPT ![s] = @ \cup {t}]
                /\ stepstack' = Append(stepstack, s)
                /\ document' = Append(document, s)
                /\ UNCHANGED refused
           ELSE /\ document' = Append(document, Refused)
                /\ refused' = TRUE
                /\ UNCHANGED <<successors, stepstack>>
  BY DEF StartImage
<1>2. /\ t \in 1..born /\ t \in Step /\ s \in Step /\ s \in 1..born
      /\ UNCHANGED <<phase, born, kind, known>> /\ extra' \in 0..MaxExtra
  BY TopOf DEF StartImage, ParserInv, ParserTypeOK, Links, Step
<1>3. /\ precursors \in [Step -> SUBSET Step] /\ successors \in [Step -> SUBSET Step]
      /\ known \in SUBSET Step /\ known \subseteq 1..born /\ born \in Nat
      /\ stepstack \in Seq(Step) /\ stepstack \in Seq(1..born)
      /\ document \in Seq(Step \cup {Refused}) /\ refused \in BOOLEAN
  BY DEF ParserInv, ParserTypeOK, Links
<1> HIDE DEF t
<1>4. /\ precursors' \in [Step -> SUBSET Step] /\ successors' \in [Step -> SUBSET Step]
      /\ \A u \in Step : precursors'[u] = IF u = t THEN precursors[u] \cup {s} ELSE precursors[u]
      /\ \A u \in Step : successors'[u] = IF u = s /\ t \in known THEN successors[u] \cup {t}
                                          ELSE successors[u]
  <2>1. CASE t \in known
    <3>1. precursors' = [precursors EXCEPT ![t] = precursors[t] \cup {s}]
          /\ successors' = [successors EXCEPT ![s] = successors[s] \cup {t}]
      BY <1>1, <2>1
    <3>2. precursors[t] \cup {s} \in SUBSET Step /\ successors[s] \cup {t} \in SUBSET Step
      BY <1>2, <1>3
    <3> QED
      BY <1>2, <1>3, <2>1, <3>1, <3>2
  <2>2. CASE t \notin known
    BY <1>1, <1>2, <1>3, <2>2
  <2> QED
    BY <2>1, <2>2
<1>5. /\ stepstack' \in Seq(Step) /\ stepstack' \in Seq(1..born')
      /\ document' \in Seq(Step \cup {Refused}) /\ refused' \in BOOLEAN
  <2>1. CASE t \in known
    <3>1. /\ stepstack' = Append(stepstack, s) /\ document' = Append(document, s)
          /\ refused' = refused
      BY <1>1, <2>1
    <3>2. s \in Step \cup {Refused}
      BY <1>2
    <3>3. Append(stepstack, s) \in Seq(Step) /\ Append(stepstack, s) \in Seq(1..born)
      BY <1>2, <1>3, AppendProperties
    <3>4. Append(document, s) \in Seq(Step \cup {Refused})
      BY <1>3, <3>2, AppendProperties
    <3> QED
      BY <1>2, <1>3, <3>1, <3>3, <3>4
  <2>2. CASE t \notin known
    <3>1. /\ stepstack' = stepstack /\ document' = Append(document, Refused)
          /\ refused' = TRUE
      BY <1>1, <2>2
    <3>2. Append(document, Refused) \in Seq(Step \cup {Refused})
      BY <1>3, AppendProperties
    <3> QED
      BY <1>2, <1>3, <3>1, <3>2
  <2> QED
    BY <2>1, <2>2
<1>6. ParserTypeOK'
  BY <1>2, <1>4, <1>5 DEF ParserInv, ParserTypeOK
<1>7. LinksRegistered'
  <2> SUFFICES ASSUME NEW u \in Step
               PROVE  precursors'[u] \subseteq known /\ successors'[u] \subseteq known
    BY <1>2 DEF LinksRegistered
  <2>1. precursors[u] \subseteq known /\ successors[u] \subseteq known
    BY DEF ParserInv, Links, LinksRegistered
  <2> QED
    BY <1>1, <1>4, <2>1
<1>8. LinksMutual'
  <2> SUFFICES ASSUME NEW u \in known, NEW v \in known
               PROVE  v \in precursors'[u] <=> u \in successors'[v]
    BY <1>2 DEF LinksMutual
  <2>1. u \in Step /\ v \in Step /\ (v \in precursors[u] <=> u \in successors[v])
    BY <1>3 DEF ParserInv, Links, LinksMutual
  <2> QED
    BY <1>4, <2>1
<1>9. ASSUME NEW u \in Step, u > born' PROVE precursors'[u] = {} /\ successors'[u] = {}
  <2>1. u # t /\ u # s /\ precursors[u] = {} /\ successors[u] = {}
    BY <1>2, <1>3, <1>9 DEF ParserInv, Links
  <2> QED
    BY <1>4, <2>1
<1>10. StackIsPath'
  BY <1>1 DEF ParserInv, StackIsPath
<1> QED
  BY <1>2, <1>3, <1>5, <1>6, <1>7, <1>8, <1>9, <1>10 DEF ParserInv, Links

LEMMA EndElementKeeps == ParserInv /\ EndElement => ParserInv'
<1> SUFFICES ASSUME ParserInv, EndElement PROVE ParserInv'
  OBVIOUS
<1>1. /\ document' = Pop(document) /\ document # <<>>
      /\ stepstack' = IF stepstack = <<>> THEN <<>> ELSE Pop(stepstack)
      /\ UNCHANGED <<phase, born, kind, linkVars, extra, refused>>
  BY DEF EndElement
<1>2. /\ stepstack \in Seq(Step) /\ stepstack \in Seq(1..born)
      /\ document \in Seq(Step \cup {Refused})
  BY DEF ParserInv, ParserTypeOK, Links
<1>3. document' \in Seq(Step \cup {Refused})
  BY <1>1, <1>2, PopOf
<1>4. stepstack' \in Seq(Step) /\ stepstack' \in Seq(1..born')
  <2>1. CASE stepstack = <<>>
    BY <1>1, <2>1
  <2>2. CASE stepstack # <<>>
    BY <1>1, <1>2, <2>2, PopOf
  <2> QED
    BY <2>1, <2>2
<1>5. StackIsPath'
  BY <1>1 DEF ParserInv, StackIsPath
<1> QED
  BY <1>1, <1>3, <1>4, <1>5 DEF ParserInv, ParserTypeOK, Links, LinksRegistered, LinksMutual,
                                linkVars

LEMMA ParserKeeps == ParserInv /\ ParserNext => ParserInv'
<1> SUFFICES ASSUME ParserInv, ParserNext PROVE ParserInv'
  OBVIOUS
<1>1. CASE StartImageCrash \/ EndProcess
  BY <1>1, ParserFrame DEF StartImageCrash, EndProcess, Phase
<1> QED
  BY <1>1, StartStepKeeps, StartOrphanKeeps, StartRefusedKeeps, StartImageKeeps,
     EndElementKeeps DEF ParserNext

---------------------------------------------------------------------------
\* What the runs do with it

NetworkInv == ParserInv /\ TypeOK

\* Processing leaves the network alone.
LEMMA NetworkFrame ==
  ASSUME ParserInv, phase' \in Phase,
         UNCHANGED <<born, kind, linkVars, docVars, extra, refused>>
  PROVE  ParserInv' /\ known' = known
<1>1. ParserInv'
  BY ParserFrame
<1> QED
  BY <1>1 DEF linkVars

LEMMA InitKeeps == Init => NetworkInv
<1> SUFFICES ASSUME Init PROVE NetworkInv
  OBVIOUS
<1> USE ParserAssumption, NetworkAssumption
<1>1. /\ stepstack \in Seq(Step) /\ stepstack \in Seq(1..born)
      /\ document \in Seq(Step \cup {Refused})
  BY DEF Init, ParserInit
<1>2. ParserTypeOK
  <2>1. /\ precursors \in [Step -> SUBSET Step] /\ successors \in [Step -> SUBSET Step]
        /\ kind \in [Step -> Kind \cup {NoKind}] /\ known \in SUBSET Step
    BY DEF Init, ParserInit
  <2>2. born \in 0..MaxStep /\ extra \in 0..MaxExtra
    BY DEF Init, ParserInit
  <2>3. refused \in BOOLEAN /\ phase \in Phase
    BY Zenon DEF Init, ParserInit, Phase
  <2> QED
    BY <1>1, <2>1, <2>2, <2>3 DEF ParserTypeOK
<1>3. Links /\ StackIsPath
  BY <1>1 DEF Init, ParserInit, Links, LinksRegistered, LinksMutual, StackIsPath
<1>4. TypeOK
  BY <1>2 DEF Init, ParserInit, TypeOK, State
<1> QED
  BY <1>2, <1>3, <1>4 DEF NetworkInv, ParserInv

LEMMA ParseKeeps == NetworkInv /\ Parse => NetworkInv'
<1> SUFFICES ASSUME NetworkInv, Parse PROVE NetworkInv'
  OBVIOUS
<1>1. ParserInv'
  BY ParserKeeps DEF NetworkInv, Parse, ParserNext
<1>2. known \subseteq known' /\ phase' # "working"
  BY DEF Parse, StartStep, StartOrphan, StartRefused, StartImage, StartImageCrash,
         EndElement, linkVars
<1>3. TypeOK'
  <2>1. ParserTypeOK'
    BY <1>1 DEF ParserInv
  <2> QED
    BY <1>2, <2>1 DEF NetworkInv, TypeOK, Parse, fileVars, memoryVars
<1> QED
  BY <1>1, <1>3 DEF NetworkInv

LEMMA BeginKeeps == NetworkInv /\ Begin => NetworkInv'
<1> SUFFICES ASSUME NetworkInv, Begin PROVE NetworkInv'
  OBVIOUS
<1>1. /\ ParserInv' /\ known' = known
  BY NetworkFrame DEF NetworkInv, Begin, EndProcess, Phase
<1>2. ctime' \in [Step -> 0..clock] /\ clock' = clock
  BY DEF NetworkInv, TypeOK, Begin
<1> QED
  BY <1>1, <1>2 DEF NetworkInv, ParserInv, TypeOK, Begin, EndProcess, memoryVars

\* What a search makes the steps remember.
LEMMA RememberType == ASSUME TypeOK, Remember
                      PROVE  memo' \in [Step -> {"idle", "complete", "failed"}]
  BY DEF Remember, TypeOK

LEMMA SearchKeeps == NetworkInv /\ (Pick \/ EndRun) => NetworkInv'
<1> SUFFICES ASSUME NetworkInv, Pick \/ EndRun PROVE NetworkInv'
  OBVIOUS
<1>1. ParserInv' /\ known' = known
  BY NetworkFrame DEF NetworkInv, Pick, EndRun, Phase
<1>2. memo' \in [Step -> {"idle", "complete", "failed"}]
  BY RememberType DEF NetworkInv, Pick, EndRun
<1>3. known \in SUBSET Step /\ 0 \notin Step
  BY DEF NetworkInv, ParserInv, ParserTypeOK, Step
<1>4. CASE Pick
  <2>1. PICK s \in known : active' = s /\ status' = [status EXCEPT ![s] = "working"]
    BY <1>4 DEF Pick, Candidates
  <2>2. status' \in [Step -> State] /\ active' \in known /\ active' # 0
    BY <1>3, <2>1 DEF NetworkInv, TypeOK, State
  <2> QED
    BY <1>1, <1>2, <1>4, <2>2 DEF NetworkInv, ParserInv, TypeOK, Pick, fileVars
<1>5. CASE EndRun
  BY <1>1, <1>2, <1>5 DEF NetworkInv, ParserInv, TypeOK, EndRun, fileVars
<1> QED
  BY <1>4, <1>5

\* New times never get ahead of the clock.
LEMMA TimesType ==
  ASSUME TypeOK, active \in Step,
         \/ UNCHANGED <<clock, ctime, whole>>
         \/ \E content : NewFile(content)
         \/ UNCHANGED <<clock, whole>> /\ ctime' = [ctime EXCEPT ![active] = 0]
  PROVE  /\ clock' \in Nat \ {0} /\ ctime' \in [Step -> 0..clock']
         /\ whole' \in SUBSET Step
<1>1. /\ clock \in Nat \ {0} /\ ctime \in [Step -> 0..clock] /\ whole \in SUBSET Step
  BY DEF TypeOK
<1>2. CASE UNCHANGED <<clock, ctime, whole>>
  BY <1>1, <1>2
<1>3. ASSUME NEW content, NewFile(content)
      PROVE  /\ clock' \in Nat \ {0} /\ ctime' \in [Step -> 0..clock']
             /\ whole' \in SUBSET Step
  <2>1. clock' = clock + 1 /\ ctime' = [ctime EXCEPT ![active] = clock + 1]
    BY <1>3 DEF NewFile
  <2>2. whole' \in SUBSET Step
    BY <1>1, <1>3 DEF NewFile, With
  <2>3. \A s \in Step : ctime[s] \in 0..(clock + 1)
    BY <1>1
  <2> QED
    BY <1>1, <2>1, <2>2, <2>3
<1>4. CASE UNCHANGED <<clock, whole>> /\ ctime' = [ctime EXCEPT ![active] = 0]
  BY <1>1, <1>4
<1> QED
  BY <1>2, <1>3, <1>4

LEMMA WorkKeeps == NetworkInv /\ (WorkDone \/ WorkFails) => NetworkInv'
<1> SUFFICES ASSUME NetworkInv, WorkDone \/ WorkFails PROVE NetworkInv'
  OBVIOUS
<1>1. PICK result \in {"complete", "failed"} : Joined(result)
  BY DEF WorkDone, WorkFails, WorkFailsEarly, CalibFailsLate, WriteFailsLate
<1>2. ParserInv' /\ known' = known
  BY <1>1, NetworkFrame DEF NetworkInv, Joined, Phase
<1>3. active \in Step
  BY <1>1 DEF NetworkInv, TypeOK, ParserTypeOK, Joined
<1>4. /\ status' \in [Step -> State] /\ active' \in known' \cup {0} /\ phase' # "working"
      /\ run' \in 1..MaxRuns /\ touched' \in 0..MaxTouch
  BY <1>1, <1>3 DEF NetworkInv, TypeOK, Joined, State
<1>5. /\ clock' \in Nat \ {0} /\ ctime' \in [Step -> 0..clock'] /\ whole' \in SUBSET Step
  BY <1>3, TimesType DEF NetworkInv, WorkDone, WorkFails, WorkFailsEarly, CalibFailsLate,
                         WriteFailsLate, WriteLeaves
<1>6. /\ image' \in SUBSET Step /\ sound' \in SUBSET Step /\ torn' \in SUBSET Step
      /\ memo' \in [Step -> {"idle", "complete", "failed"}]
  <2>1. CASE WorkDone
    BY <1>3, <2>1 DEF NetworkInv, TypeOK, WorkDone, With
  <2>2. CASE WorkFails
    BY <1>3, <2>2 DEF NetworkInv, TypeOK, WorkFails, WorkFailsEarly, CalibFailsLate,
                      WriteFailsLate, WriteLeaves, With
  <2> QED
    BY <2>1, <2>2
<1> QED
  BY <1>2, <1>4, <1>5, <1>6 DEF NetworkInv, ParserInv, TypeOK

\* The program dies, or is started again, or somebody replaces a source.
LEMMA DieKeeps == NetworkInv /\ Die => NetworkInv'
<1> SUFFICES ASSUME NetworkInv, Die PROVE NetworkInv'
  OBVIOUS
<1>1. ParserInv' /\ known' = known /\ phase' = "off"
  BY NetworkFrame DEF NetworkInv, Die, Phase
<1>2. CASE UNCHANGED <<clock, ctime, whole, torn>>
  BY <1>1, <1>2 DEF NetworkInv, ParserInv, TypeOK, Die, memoryVars
<1>3. CASE phase = "working" /\ WriteLeaves
  <2>1. active \in Step
    BY <1>3 DEF NetworkInv, TypeOK, ParserTypeOK
  <2>2. /\ clock' \in Nat \ {0} /\ ctime' \in [Step -> 0..clock'] /\ whole' \in SUBSET Step
    BY <1>3, <2>1, TimesType DEF NetworkInv, WriteLeaves
  <2>3. torn' \in SUBSET Step
    BY <1>3, <2>1 DEF NetworkInv, TypeOK, WriteLeaves
  <2> QED
    BY <1>1, <2>2, <2>3 DEF NetworkInv, ParserInv, TypeOK, Die, memoryVars
<1> QED
  BY <1>2, <1>3 DEF Die

LEMMA RestartKeeps == NetworkInv /\ (Restart \/ Touch) => NetworkInv'
<1> SUFFICES ASSUME NetworkInv, Restart \/ Touch PROVE NetworkInv'
  OBVIOUS
<1>1. ParserInv' /\ known' = known
  BY NetworkFrame DEF NetworkInv, Restart, Touch, Phase
<1>2. CASE Restart
  <2>1. run' \in 1..MaxRuns /\ torn' \in SUBSET Step
    BY <1>2, NetworkAssumption DEF NetworkInv, TypeOK, Restart
  <2> QED
    BY <1>1, <1>2, <2>1 DEF NetworkInv, ParserInv, TypeOK, Restart, State
<1>3. CASE Touch
  <2>1. PICK s \in known : ctime' = [ctime EXCEPT ![s] = clock + 1]
    BY <1>3 DEF Touch
  <2>2. /\ clock' = clock + 1 /\ clock \in Nat \ {0} /\ ctime \in [Step -> 0..clock]
        /\ touched' \in 0..MaxTouch /\ s \in Step
    BY <1>3, NetworkAssumption DEF NetworkInv, TypeOK, ParserTypeOK, Touch
  <2>3. \A t \in Step : ctime[t] \in 0..(clock + 1)
    BY <2>2
  <2>4. clock' \in Nat \ {0} /\ ctime' \in [Step -> 0..clock']
    BY <2>1, <2>2, <2>3
  <2> QED
    BY <1>1, <1>3, <2>2, <2>4 DEF NetworkInv, ParserInv, TypeOK, Touch, memoryVars
<1> QED
  BY <1>2, <1>3

THEOREM NetworkInvariant == Spec => []NetworkInv
<1>1. NetworkInv /\ [Next]_vars => NetworkInv'
  <2>1. NetworkInv /\ UNCHANGED vars => NetworkInv'
    <3> SUFFICES ASSUME NetworkInv, UNCHANGED vars PROVE NetworkInv'
      OBVIOUS
    <3>1. ParserInv' /\ known' = known
      BY NetworkFrame DEF NetworkInv, ParserInv, ParserTypeOK, vars, parserVars
    <3> QED
      BY <3>1 DEF NetworkInv, ParserInv, TypeOK, vars, parserVars, fileVars, memoryVars
  <2> QED
    BY <2>1, ParseKeeps, BeginKeeps, SearchKeeps, WorkKeeps, DieKeeps, RestartKeeps
       DEF Next, Process
<1> QED
  BY <1>1, InitKeeps, PTL DEF Spec

\* Every variable keeps its type; in particular a thread works on a registered
\* step, and no file is younger than the clock.
THEOREM TypeCorrect == Spec => []TypeOK
<1>1. NetworkInv => TypeOK
  BY DEF NetworkInv
<1> QED
  BY <1>1, NetworkInvariant, PTL

\* Precursors and successors of registered steps agree, whatever was refused.
THEOREM LinksAreMutual == Spec => []LinksMutual
<1>1. NetworkInv => LinksMutual
  BY DEF NetworkInv, ParserInv, Links
<1> QED
  BY <1>1, NetworkInvariant, PTL

\* No link leads to a step that the registry does not know.
THEOREM LinksAreRegistered == Spec => []LinksRegistered
<1>1. NetworkInv => LinksRegistered
  BY DEF NetworkInv, ParserInv, Links
<1> QED
  BY <1>1, NetworkInvariant, PTL

\* The stack of the parser follows the document as long as nothing is refused.
THEOREM StackFollows == Spec => []StackIsPath
<1>1. NetworkInv => StackIsPath
  BY DEF NetworkInv, ParserInv
<1> QED
  BY <1>1, NetworkInvariant, PTL

---------------------------------------------------------------------------
\* Induction over natural numbers and recursive definitions

\* A set of natural numbers has a least element.
LEMMA Least ==
  ASSUME NEW T \in SUBSET Nat, T # {}
  PROVE  \E n \in T : \A m \in T : n <= m
<1> DEFINE less == {ss \in Nat \X Nat : ss[1] < ss[2]}
<1>1. IsWellFoundedOn(less, Nat)
  BY NatLessThanWellFounded DEF OpToRel
<1> HIDE DEF less
<1>2. PICK n \in T : \A m \in T : ~ (<<m, n>> \in less)
  BY <1>1, WFMin
<1>3. ASSUME NEW m \in T PROVE n <= m
  <2>1. m \in Nat /\ n \in Nat /\ <<m, n>> \in Nat \X Nat
    OBVIOUS
  <2>2. ~ (m < n)
    BY <1>2, <2>1 DEF less
  <2> QED
    BY <2>1, <2>2
<1> QED
  BY <1>3

\* The elements of S are ordered by their rank, below top, and pre[s] is what
\* s depends on.
Ranked(S, pre, rank, top) ==
  /\ pre \in [S -> SUBSET S] /\ rank \in [S -> Nat] /\ top \in Nat
  /\ \A s \in S : rank[s] < top /\ \A p \in pre[s] : rank[p] < rank[s]

\* A set of them has an element that depends on no other one of the set.
LEMMA Lowest ==
  ASSUME NEW S, NEW pre, NEW rank, NEW top, Ranked(S, pre, rank, top),
         NEW T \in SUBSET S, T # {}
  PROVE  \E s \in T : pre[s] \cap T = {}
<1> USE DEF Ranked
<1> DEFINE R == {rank[s] : s \in T}
<1>1. R \in SUBSET Nat /\ R # {}
  OBVIOUS
<1> HIDE DEF R
<1>2. PICK n \in R : \A m \in R : n <= m
  BY <1>1, Least
<1>3. PICK s \in T : rank[s] = n
  BY DEF R
<1>4. ASSUME NEW p \in pre[s], p \in T PROVE FALSE
  <2>1. rank[p] \in R /\ rank[p] \in Nat /\ rank[s] \in Nat /\ rank[p] < rank[s]
    BY <1>4 DEF R
  <2> QED
    BY <1>2, <1>3, <2>1
<1> QED
  BY <1>4

\* F[s] gives the value of s, in V, from the values of what s depends on.
Local(S, pre, V, F) ==
  /\ V # {} /\ F \in [S -> [[S -> V] -> V]]
  /\ \A s \in S : \A f, g \in [S -> V] :
       (\A p \in pre[s] : f[p] = g[p]) => F[s][f] = F[s][g]

HasFixedPoint(S, V, F) == \E f \in [S -> V] : \A s \in S : f[s] = F[s][f]

\* Then there is a function with the values that F gives.
LEMMA FixedPoint ==
  ASSUME NEW S, NEW pre, NEW rank, NEW top, Ranked(S, pre, rank, top),
         NEW V, NEW F, Local(S, pre, V, F)
  PROVE  HasFixedPoint(S, V, F)
<1>0. V # {} /\ F \in [S -> [[S -> V] -> V]]
  BY DEF Local
<1> DEFINE Good(n, f) == \A s \in S : rank[s] < n => f[s] = F[s][f]
<1> DEFINE bad == {n \in Nat : ~ \E f \in [S -> V] : Good(n, f)}
<1>1. bad = {}
  <2> SUFFICES ASSUME bad # {} PROVE FALSE
    OBVIOUS
  <2>1. PICK n \in bad : \A m \in bad : n <= m
    <3> HIDE DEF Good
    <3>1. bad \in SUBSET Nat
      OBVIOUS
    <3> HIDE DEF bad
    <3> QED
      BY <3>1, Least
  <2>2. n \in Nat /\ n # 0
    <3>1. PICK v \in V : TRUE
      BY <1>0
    <3>2. [s \in S |-> v] \in [S -> V] /\ \A s \in S : ~ (rank[s] < 0)
      BY DEF Ranked
    <3>3. Good(0, [s \in S |-> v])
      BY <3>2
    <3> QED
      BY <2>1, <3>2, <3>3
  <2>3. PICK f \in [S -> V] : Good(n - 1, f)
    <3>1. n - 1 \in Nat /\ ~ (n <= n - 1)
      BY <2>2
    <3> HIDE DEF Good
    <3> QED
      BY <2>1, <3>1
  <2> DEFINE g == [s \in S |-> F[s][f]]
  <2>4. g \in [S -> V]
    BY <1>0
  <2>5. Good(n, g)
    <3> SUFFICES ASSUME NEW s \in S, rank[s] < n PROVE g[s] = F[s][g]
      OBVIOUS
    <3>1. ASSUME NEW p \in pre[s] PROVE g[p] = f[p]
      <4>1. p \in S /\ rank[p] < rank[s] /\ rank[p] \in Nat /\ rank[s] \in Nat
        BY DEF Ranked
      <4>2. rank[p] < n - 1
        BY <2>2, <4>1
      <4> QED
        BY <2>3, <4>1, <4>2
    <3>2. F[s][f] = F[s][g]
      <4> HIDE DEF g, Good
      <4> QED
        BY <2>4, <3>1 DEF Local
    <3> QED
      BY <3>2
  <2> HIDE DEF g, Good
  <2> QED
    BY <2>1, <2>4, <2>5
<1>2. PICK f \in [S -> V] : Good(top, f)
  <2> HIDE DEF Good
  <2>1. top \in Nat
    BY DEF Ranked
  <2> QED
    BY <1>1, <2>1
<1> QED
  BY <1>2 DEF Ranked, HasFixedPoint

---------------------------------------------------------------------------
\* The steps below a step

\* One link down, and on from there.
LEMMA BelowUnfolds ==
  ASSUME ParserInv, NEW s \in Step
  PROVE  /\ precursors[s] \subseteq Below(s) /\ Below(s) \subseteq known
         /\ \A p \in precursors[s] : p \in Step /\ Below(p) \subseteq Below(s)
         /\ \A b \in Below(s) : b \in precursors[s] \/ \E p \in precursors[s] : b \in Below(p)
<1>1. known \in SUBSET Step /\ \A t \in Step : precursors[t] \subseteq known
  BY DEF ParserInv, ParserTypeOK, Links, LinksRegistered
<1>2. precursors[s] \subseteq Below(s) /\ Below(s) \subseteq known
  BY <1>1 DEF Below
<1>3. ASSUME NEW p \in precursors[s] PROVE p \in Step /\ Below(p) \subseteq Below(s)
  <2>1. p \in Step
    BY <1>1
  <2>2. ASSUME NEW C \in SUBSET known, precursors[s] \subseteq C, Closed(C)
        PROVE  precursors[p] \subseteq C
    BY <2>2 DEF Closed
  <2> QED
    BY <2>1, <2>2 DEF Below
<1>4. ASSUME NEW b \in Below(s)
      PROVE  b \in precursors[s] \/ \E p \in precursors[s] : b \in Below(p)
  <2> DEFINE C == precursors[s] \cup UNION {Below(p) : p \in precursors[s]}
  <2>1. C \in SUBSET known
    BY <1>1 DEF Below
  <2>2. ASSUME NEW c \in C PROVE precursors[c] \subseteq C
    <3>1. CASE c \in precursors[s]
      <4>1. precursors[c] \subseteq Below(c)
        BY <1>1, <3>1 DEF Below
      <4> QED
        BY <3>1, <4>1
    <3>2. ASSUME NEW p \in precursors[s], c \in Below(p) PROVE precursors[c] \subseteq Below(p)
      <4>1. precursors[c] \subseteq known
        BY <1>1, <3>2 DEF Below
      <4>2. ASSUME NEW D \in SUBSET known, precursors[p] \subseteq D, Closed(D)
            PROVE  precursors[c] \subseteq D
        BY <3>2, <4>2 DEF Below, Closed
      <4> QED
        BY <4>1, <4>2 DEF Below
    <3> QED
      BY <3>1, <3>2
  <2>3. Closed(C)
    BY <2>2 DEF Closed
  <2>4. precursors[s] \subseteq C
    OBVIOUS
  <2>5. b \in C
    <3> HIDE DEF C
    <3> QED
      BY <1>4, <2>1, <2>3, <2>4 DEF Below
  <2> QED
    BY <2>5
<1> QED
  BY <1>2, <1>3, <1>4

\* What is below a step that is searched is searched too.
LEMMA SearchedDown ==
  ASSUME ParserInv
  PROVE  /\ Searched \subseteq known /\ Searched \subseteq Step
         /\ terminals \subseteq Searched
         /\ \A s \in Searched : /\ precursors[s] \subseteq Searched
                                /\ Below(s) \subseteq Searched
<1>1. known \in SUBSET Step /\ \A t \in Step : precursors[t] \subseteq known
  BY DEF ParserInv, ParserTypeOK, Links, LinksRegistered
<1>2. Searched \subseteq known /\ Searched \subseteq Step /\ terminals \subseteq Searched
  BY <1>1 DEF Searched, terminals, Below
<1>3. ASSUME NEW s \in Searched PROVE Below(s) \subseteq Searched
  <2>1. CASE s \in terminals
    BY <2>1 DEF Searched
  <2>2. ASSUME NEW t \in terminals, s \in Below(t) PROVE Below(s) \subseteq Below(t)
    <3>1. ASSUME NEW C \in SUBSET known, precursors[t] \subseteq C, Closed(C)
          PROVE  precursors[s] \subseteq C
      BY <2>2, <3>1 DEF Below, Closed
    <3> QED
      BY <3>1 DEF Below
  <2> QED
    BY <2>1, <2>2 DEF Searched
<1>4. ASSUME NEW s \in Searched PROVE precursors[s] \subseteq Searched
  BY <1>2, <1>3, BelowUnfolds
<1> QED
  BY <1>2, <1>3, <1>4

pre == [s \in Searched |-> precursors[s]]
rank == [s \in Searched |-> Cardinality(Below(s))]

\* Without a cycle the steps can be numbered from the bottom up: a step has more
\* steps below it than its precursors have.
LEMMA SearchedRanked ==
  ASSUME ParserInv, ~Cyclic
  PROVE  Ranked(Searched, pre, rank, MaxStep + 1)
<1>1. IsFiniteSet(Step) /\ Cardinality(Step) <= MaxStep
  BY ParserAssumption, FS_Interval DEF Step
<1>2. pre \in [Searched -> SUBSET Searched]
  BY SearchedDown DEF pre
<1>3. ASSUME NEW s \in Searched
      PROVE  Cardinality(Below(s)) \in Nat /\ Cardinality(Below(s)) < MaxStep + 1
  <2>1. Below(s) \in SUBSET Step
    BY SearchedDown
  <2>2. IsFiniteSet(Below(s)) /\ Cardinality(Below(s)) <= Cardinality(Step)
    BY <1>1, <2>1, FS_Subset
  <2>3. Cardinality(Below(s)) \in Nat /\ Cardinality(Step) \in Nat
    BY <1>1, <2>2, FS_CardinalityType
  <2> QED
    BY <1>1, <2>2, <2>3, ParserAssumption
<1>4. ASSUME NEW s \in Searched, NEW p \in precursors[s]
      PROVE  Cardinality(Below(p)) < Cardinality(Below(s))
  <2>1. /\ s \in Step /\ p \in Searched /\ p \in Below(s) /\ Below(p) \subseteq Below(s)
        /\ p \notin Below(p) /\ Below(s) \in SUBSET Step
    BY SearchedDown, BelowUnfolds DEF Cyclic
  <2>2. IsFiniteSet(Below(s))
    BY <1>1, <2>1, FS_Subset
  <2>3. Cardinality(Below(p)) <= Cardinality(Below(s)) /\ Cardinality(Below(p)) # Cardinality(Below(s))
    BY <2>1, <2>2, FS_Subset
  <2> QED
    BY <1>3, <2>1, <2>3
<1>5. rank \in [Searched -> Nat]
  BY <1>3 DEF rank
<1>6. ASSUME NEW s \in Searched
      PROVE  rank[s] < MaxStep + 1 /\ \A p \in pre[s] : rank[p] < rank[s]
  BY <1>2, <1>3, <1>4 DEF rank, pre
<1> QED
  BY <1>2, <1>5, <1>6, ParserAssumption DEF Ranked

\* Of the steps that lack some property, one has only precursors that have it:
\* properties of steps are proved from the bottom up.
LEMMA Bottom ==
  ASSUME ParserInv, ~Cyclic, NEW T \in SUBSET Searched, T # {}
  PROVE  \E s \in T : \A p \in precursors[s] : p \in Searched /\ p \notin T
<1>1. PICK s \in T : pre[s] \cap T = {}
  BY SearchedRanked, Lowest
<1> QED
  BY <1>1, SearchedDown DEF pre

---------------------------------------------------------------------------
\* The status of the steps

LEMMA TheOnlyIn == ASSUME NEW S, Cardinality(S) = 1, IsFiniteSet(S)
                   PROVE  TheOnly(S) \in S /\ S = {TheOnly(S)}
<1>1. PICK x : S = {x}
  BY FS_Singleton
<1> QED
  BY <1>1 DEF TheOnly

LEMMA PrecursorsFinite == ASSUME ParserInv, NEW s \in Step PROVE IsFiniteSet(precursors[s])
<1>1. IsFiniteSet(Step) /\ precursors[s] \in SUBSET Step
  BY ParserAssumption, FS_Interval DEF Step, ParserInv, ParserTypeOK
<1> QED
  BY <1>1, FS_Subset

\* status() returns a status, and what it returns depends on the precursors only.
LEMMA StatusOfType == ASSUME NetworkInv, NEW s \in Step, NEW f PROVE StatusOf(f, s) \in State
<1>1. status[s] \in State /\ memo[s] \in State
  BY DEF NetworkInv, TypeOK, State
<1>2. /\ FileStatus(s) \in State /\ CalibStatus(f, s) \in State
      /\ WriteStatus(f, s) \in State /\ PlainStatus(f, s) \in State
  BY <1>1 DEF FileStatus, CalibStatus, WriteStatus, PlainStatus, State
<1> QED
  BY <1>2 DEF StatusOf

LEMMA StatusOfLocal ==
  ASSUME ParserInv, NEW s \in Step, NEW f, NEW g, \A p \in precursors[s] : f[p] = g[p]
  PROVE  StatusOf(f, s) = StatusOf(g, s)
<1>1. WriteStatus(f, s) = WriteStatus(g, s)
  <2>1. CASE Cardinality(precursors[s]) # 1
    BY <2>1 DEF WriteStatus
  <2>2. CASE Cardinality(precursors[s]) = 1
    <3>1. f[TheOnly(precursors[s])] = g[TheOnly(precursors[s])]
      BY <2>2, TheOnlyIn, PrecursorsFinite
    <3> QED
      BY <3>1 DEF WriteStatus
  <2> QED
    BY <2>1, <2>2
<1>2. CalibStatus(f, s) = CalibStatus(g, s)
  BY DEF CalibStatus
<1>3. PlainStatus(f, s) = PlainStatus(g, s)
  BY DEF PlainStatus
<1> QED
  BY <1>1, <1>2, <1>3 DEF StatusOf

\* Without a cycle every step has a status, the one its class computes.
LEMMA StatusDefined ==
  ASSUME NetworkInv, ~Cyclic
  PROVE  /\ Status \in [Searched -> State]
         /\ \A s \in Searched : Status[s] = StatusOf(Status, s)
<1> USE SearchedDown DEF NetworkInv
<1>1. \A s \in Searched : \A f : StatusOf(f, s) \in State
  BY StatusOfType
<1> DEFINE F == [s \in Searched |-> [f \in [Searched -> State] |-> StatusOf(f, s)]]
<1>2. F \in [Searched -> [[Searched -> State] -> State]]
  BY <1>1
<1>3. Local(Searched, pre, State, F)
  <2> SUFFICES ASSUME NEW s \in Searched,
                      NEW f \in [Searched -> State], NEW g \in [Searched -> State],
                      \A p \in pre[s] : f[p] = g[p]
               PROVE  F[s][f] = F[s][g]
    BY <1>2 DEF Local, State
  <2>1. StatusOf(f, s) = StatusOf(g, s)
    BY StatusOfLocal DEF pre
  <2> QED
    BY <2>1
<1>4. Ranked(Searched, pre, rank, MaxStep + 1)
  BY SearchedRanked
<1>5. PICK f \in [Searched -> State] : \A s \in Searched : f[s] = F[s][f]
  <2>1. HasFixedPoint(Searched, State, F)
    BY ONLY <1>3, <1>4, FixedPoint
  <2> QED
    BY <2>1 DEF HasFixedPoint
<1>6. f = [s \in Searched |-> StatusOf(f, s)]
  BY <1>5
<1>7. Status = [s \in Searched |-> StatusOf(Status, s)]
  BY <1>6 DEF Status
<1> QED
  BY <1>1, <1>7

\* It is the only way to give each step the status its class computes.
THEOREM StatusUnique ==
  ASSUME NetworkInv, ~Cyclic, NEW f,
         \A s \in Searched : f[s] = StatusOf(f, s)
  PROVE  \A s \in Searched : f[s] = Status[s]
<1> DEFINE T == {s \in Searched : f[s] # Status[s]}
<1> SUFFICES ASSUME T # {} PROVE FALSE
  OBVIOUS
<1>1. PICK s \in T : \A p \in precursors[s] : p \in Searched /\ p \notin T
  BY Bottom DEF NetworkInv
<1>2. \A p \in precursors[s] : f[p] = Status[p]
  BY <1>1
<1>3. StatusOf(f, s) = StatusOf(Status, s)
  BY <1>2, StatusOfLocal, SearchedDown DEF NetworkInv
<1> QED
  BY <1>3, StatusDefined

LEMMA FoundDefined ==
  ASSUME NetworkInv, ~Cyclic
  PROVE  /\ Found \in [Searched -> SUBSET Searched]
         /\ \A s \in Searched :
              Found[s] = CASE Status[s] = "needswork" -> {s}
                           [] Status[s] = "idle" -> UNION {Found[p] : p \in Tried(s)}
                           [] OTHER -> {}
<1> USE SearchedDown DEF NetworkInv
<1> DEFINE Of(f, s) == CASE Status[s] = "needswork" -> {s}
                         [] Status[s] = "idle" -> UNION {f[p] : p \in Tried(s)}
                         [] OTHER -> {}
<1>1. ASSUME NEW s \in Searched, NEW f,
             \A p \in precursors[s] : f[p] \in SUBSET Searched
      PROVE  Of(f, s) \in SUBSET Searched
  BY <1>1 DEF Tried
<1> DEFINE F == [s \in Searched |-> [f \in [Searched -> SUBSET Searched] |-> Of(f, s)]]
<1>2. F \in [Searched -> [[Searched -> SUBSET Searched] -> SUBSET Searched]]
  <2> HIDE DEF Of
  <2>1. \A s \in Searched : \A p \in precursors[s] : p \in Searched
    OBVIOUS
  <2>2. \A s \in Searched : \A f \in [Searched -> SUBSET Searched] : Of(f, s) \in SUBSET Searched
    BY <1>1, <2>1
  <2> QED
    BY <2>2
<1>3. Local(Searched, pre, SUBSET Searched, F)
  <2> SUFFICES ASSUME NEW s \in Searched,
                      NEW f \in [Searched -> SUBSET Searched],
                      NEW g \in [Searched -> SUBSET Searched],
                      \A p \in pre[s] : f[p] = g[p]
               PROVE  F[s][f] = F[s][g]
    BY <1>2 DEF Local
  <2>1. \A p \in Tried(s) : f[p] = g[p]
    BY DEF pre, Tried
  <2>2. UNION {f[p] : p \in Tried(s)} = UNION {g[p] : p \in Tried(s)}
    BY <2>1
  <2>3. Of(f, s) = Of(g, s)
    BY <2>2
  <2> QED
    BY <2>3
<1>4. Ranked(Searched, pre, rank, MaxStep + 1)
  BY SearchedRanked
<1>5. PICK f \in [Searched -> SUBSET Searched] : \A s \in Searched : f[s] = F[s][f]
  <2>1. HasFixedPoint(Searched, SUBSET Searched, F)
    BY ONLY <1>3, <1>4, FixedPoint
  <2> QED
    BY <2>1 DEF HasFixedPoint
<1>6. f = [s \in Searched |-> Of(f, s)]
  BY <1>5
<1>7. Found = [s \in Searched |-> Of(Found, s)]
  BY <1>6 DEF Found
<1>8. \A s \in Searched : Found[s] \in SUBSET Searched
  <2> HIDE DEF Of
  <2> DEFINE T == {s \in Searched : Found[s] \notin SUBSET Searched}
  <2> SUFFICES ASSUME T # {} PROVE FALSE
    OBVIOUS
  <2>1. PICK s \in T : \A p \in precursors[s] : p \in Searched /\ p \notin T
    BY Bottom
  <2>2. Of(Found, s) \in SUBSET Searched
    BY <1>1, <2>1
  <2> QED
    BY <1>7, <2>2
<1>9. Found \in [Searched -> SUBSET Searched]
  <2> HIDE DEF Of
  <2> QED
    BY <1>7, <1>8
<1> QED
  BY <1>7, <1>9

\* When(): the youngest precursor.
LEMMA MaxOf ==
  ASSUME NEW top \in Nat, NEW S \in SUBSET (0..top), S # {}
  PROVE  Max(S) \in S /\ Max(S) \in Nat /\ \A x \in S : x <= Max(S)
<1> DEFINE U == {u \in Nat : \A x \in S : x <= u}
<1>1. U \in SUBSET Nat /\ top \in U
  OBVIOUS
<1>2. PICK u \in U : \A v \in U : u <= v
  <2> HIDE DEF U
  <2> QED
    BY <1>1, Least
<1>3. u \in S
  <2> SUFFICES ASSUME u \notin S PROVE FALSE
    OBVIOUS
  <2>1. PICK x \in S : TRUE
    OBVIOUS
  <2>2. u # 0
    BY <2>1
  <2>3. u - 1 \in U
    BY <2>2
  <2> QED
    BY <1>2, <2>3
<1>4. \E m \in S : \A x \in S : m >= x
  BY <1>3
<1>5. PICK m \in S : m = Max(S) /\ \A x \in S : x <= m
  BY <1>4 DEF Max
<1>6. \A x \in S : x \in Nat
  OBVIOUS
<1> QED
  BY ONLY <1>5, <1>6

LEMMA WhenDefined ==
  ASSUME NetworkInv, ~Cyclic
  PROVE  /\ When \in [Searched -> 0..clock]
         /\ \A s \in Searched :
              When[s] = IF kind[s] \in {"file", "write"} THEN ctime[s]
                        ELSE IF precursors[s] = {} THEN 0
                        ELSE Max({When[p] : p \in precursors[s]})
<1> DEFINE Of(f, s) == IF kind[s] \in {"file", "write"} THEN ctime[s]
                       ELSE IF precursors[s] = {} THEN 0
                       ELSE Max({f[p] : p \in precursors[s]})
<1>0. ctime \in [Step -> 0..clock] /\ clock \in Nat
  BY DEF NetworkInv, TypeOK
<1>1. ASSUME NEW s \in Searched, NEW f,
             \A p \in precursors[s] : f[p] \in 0..clock
      PROVE  Of(f, s) \in 0..clock
  <2>1. CASE kind[s] \notin {"file", "write"} /\ precursors[s] # {}
    <3> DEFINE S == {f[p] : p \in precursors[s]}
    <3>1. S \in SUBSET (0..clock) /\ S # {}
      BY <1>1, <2>1
    <3> HIDE DEF S
    <3>2. Max(S) \in 0..clock
      BY <1>0, <3>1, MaxOf
    <3> QED
      BY <2>1, <3>2 DEF S
  <2>2. s \in Step
    BY SearchedDown DEF NetworkInv
  <2> QED
    BY <1>0, <2>1, <2>2
<1> DEFINE F == [s \in Searched |-> [f \in [Searched -> 0..clock] |-> Of(f, s)]]
<1>2. F \in [Searched -> [[Searched -> 0..clock] -> 0..clock]]
  <2> HIDE DEF Of
  <2>1. \A s \in Searched : \A p \in precursors[s] : p \in Searched
    BY SearchedDown DEF NetworkInv
  <2>2. \A s \in Searched : \A f \in [Searched -> 0..clock] : Of(f, s) \in 0..clock
    BY <1>1, <2>1
  <2> QED
    BY <2>2
<1>3. Local(Searched, pre, 0..clock, F)
  <2>1. ASSUME NEW s \in Searched,
               NEW f \in [Searched -> 0..clock], NEW g \in [Searched -> 0..clock],
               \A p \in pre[s] : f[p] = g[p]
        PROVE  F[s][f] = F[s][g]
    <3>1. {f[p] : p \in precursors[s]} = {g[p] : p \in precursors[s]}
      BY <2>1 DEF pre
    <3> QED
      BY <3>1
  <2>2. 0..clock # {}
    BY <1>0
  <2> HIDE DEF F
  <2> QED
    BY <1>2, <2>1, <2>2 DEF Local
<1>4. Ranked(Searched, pre, rank, MaxStep + 1)
  BY SearchedRanked DEF NetworkInv
<1>5. PICK f \in [Searched -> 0..clock] : \A s \in Searched : f[s] = F[s][f]
  <2>1. HasFixedPoint(Searched, 0..clock, F)
    BY ONLY <1>3, <1>4, FixedPoint
  <2> QED
    BY <2>1 DEF HasFixedPoint
<1>6. f = [s \in Searched |-> Of(f, s)]
  BY <1>5
<1>7. When = [s \in Searched |-> Of(When, s)]
  BY <1>6 DEF When
<1>8. \A s \in Searched : When[s] \in 0..clock
  <2> HIDE DEF Of
  <2> DEFINE T == {s \in Searched : When[s] \notin 0..clock}
  <2> SUFFICES ASSUME T # {} PROVE FALSE
    OBVIOUS
  <2>1. PICK s \in T : \A p \in precursors[s] : p \in Searched /\ p \notin T
    BY Bottom DEF NetworkInv
  <2>2. Of(When, s) \in 0..clock
    BY <1>1, <2>1
  <2> QED
    BY <1>7, <2>2
<1>9. When \in [Searched -> 0..clock]
  <2> HIDE DEF Of
  <2> QED
    BY <1>7, <1>8
<1> QED
  BY <1>7, <1>9

---------------------------------------------------------------------------
\* What the runs keep up

Running == phase \in {"loop", "working", "done"}
OtherKind(s) == kind[s] \notin {"file", "write", "calib"}

\* Until the program looks at its files, nothing is known of any step.
Blank ==
  phase \in {"parse", "undefined"} =>
    /\ image = {}
    /\ \A s \in Step : ctime[s] = 0 /\ status[s] = "idle" /\ memo[s] = "idle"

\* What a class takes for complete was made in order, or its making was torn.
Made ==
  \A s \in Step :
    /\ kind[s] = "calib" /\ s \in image => s \in sound \cup torn
    /\ OtherKind(s) /\ status[s] = "complete" => s \in sound \cup torn
    /\ kind[s] = "write" /\ ctime[s] > 0 => /\ s \in whole \cup torn
                                            /\ s \in image => s \in sound \cup torn
    /\ memo[s] = "complete" => kind[s] = "write" /\ ctime[s] > 0
    /\ memo[s] = "failed" => kind[s] = "write"
    /\ ctime[s] > 0 => kind[s] \in {"file", "write"}
    /\ status[s] # "needswork"

\* A search only ends without a cycle.  The thread then works on a step whose
\* precursors are complete.
Pending ==
  /\ phase \in {"working", "done"} => ~Cyclic
  /\ phase = "working" =>
       /\ active \in Searched
       /\ \A p \in precursors[active] : Status[p] = "complete"
       /\ memo[active] = "idle" /\ kind[active] # "file"

\* A failure is remembered only of steps that cannot be built.
Remembered ==
  Running => \A s \in Searched : memo[s] = "failed" => ~Buildable(s)

\* Below s there is no other file than sources.
IsSource(b) == kind[b] = "file" /\ precursors[b] = {}
Passing(b) == kind[b] \in {"calib", "plain"} \/ IsSource(b)
FromSources(s) == \A b \in Below(s) : Passing(b)

\* Success is remembered only of files that are younger than their sources.
Fresh ==
  Running =>
    \A s \in Searched :
      memo[s] = "complete" /\ FromSources(s) => \A b \in Below(s) : ctime[b] < ctime[s]

\* Each class computes the status of its steps.
StatusByClass(s) ==
  /\ kind[s] = "file" => Status[s] = IF ctime[s] > 0 THEN "complete" ELSE "failed"
  /\ kind[s] = "write" => Status[s] = WriteStatus(Status, s)
  /\ kind[s] = "calib" => Status[s] = CalibStatus(Status, s)
  /\ OtherKind(s) => Status[s] = PlainStatus(Status, s)

LEMMA StatusOfAll == NetworkInv /\ ~Cyclic => \A s \in Searched : StatusByClass(s)
<1> SUFFICES ASSUME NetworkInv, ~Cyclic, NEW s \in Searched PROVE StatusByClass(s)
  OBVIOUS
<1>1. Status[s] = StatusOf(Status, s)
  BY StatusDefined
<1>2. /\ kind[s] = "file" => StatusOf(Status, s) = FileStatus(s)
      /\ kind[s] = "write" => StatusOf(Status, s) = WriteStatus(Status, s)
      /\ kind[s] = "calib" => StatusOf(Status, s) = CalibStatus(Status, s)
      /\ OtherKind(s) => StatusOf(Status, s) = PlainStatus(Status, s)
  BY Zenon DEF StatusOf, OtherKind
<1> QED
  BY <1>1, <1>2 DEF FileStatus, StatusByClass

LEMMA StatusCases ==
  ASSUME NetworkInv, ~Cyclic, NEW s \in Searched
  PROVE  /\ kind[s] = "file" => Status[s] = IF ctime[s] > 0 THEN "complete" ELSE "failed"
         /\ kind[s] = "write" => Status[s] = WriteStatus(Status, s)
         /\ kind[s] = "calib" => Status[s] = CalibStatus(Status, s)
         /\ OtherKind(s) => Status[s] = PlainStatus(Status, s)
  BY StatusOfAll DEF StatusByClass

\* A written file counts as complete because somebody remembers that, or it is
\* younger than its precursor.
LEMMA WriteCases ==
  ASSUME NetworkInv, ~Cyclic, NEW s \in Searched, kind[s] = "write"
  PROVE  /\ Status[s] = "complete" => memo[s] = "complete" \/ UpToDate(s)
         /\ Status[s] # "failed" => \E p \in Searched : precursors[s] = {p}
         /\ \A p : precursors[s] = {p} =>
              /\ memo[s] # "idle" => Status[s] = memo[s]
              /\ memo[s] = "idle" /\ UpToDate(s) => Status[s] = "complete"
              /\ memo[s] = "idle" /\ ~UpToDate(s) =>
                   Status[s] = IF Status[p] = "complete" THEN "needswork"
                               ELSE IF Status[p] = "failed" THEN "failed" ELSE "idle"
              /\ UpToDate(s) <=> When[p] < ctime[s]
<1>1. Status[s] = WriteStatus(Status, s)
  BY StatusCases
<1>2. s \in Step /\ IsFiniteSet(precursors[s]) /\ precursors[s] \subseteq Searched
  BY SearchedDown, PrecursorsFinite DEF NetworkInv
<1>3. Cardinality(precursors[s]) = 1 => \E p \in Searched : precursors[s] = {p}
  BY <1>2, FS_Singleton
<1>4. Cardinality(precursors[s]) # 1 => Status[s] = "failed"
  BY <1>1 DEF WriteStatus
<1>5. Status[s] = "complete" => memo[s] = "complete" \/ UpToDate(s)
  BY <1>1, Zenon DEF WriteStatus
<1>6. ASSUME NEW p, precursors[s] = {p}
      PROVE  /\ memo[s] # "idle" => Status[s] = memo[s]
             /\ memo[s] = "idle" /\ UpToDate(s) => Status[s] = "complete"
             /\ memo[s] = "idle" /\ ~UpToDate(s) =>
                  Status[s] = IF Status[p] = "complete" THEN "needswork"
                              ELSE IF Status[p] = "failed" THEN "failed" ELSE "idle"
             /\ UpToDate(s) <=> When[p] < ctime[s]
  <2>1. Cardinality(precursors[s]) = 1 /\ TheOnly(precursors[s]) = p
    BY <1>2, <1>6, FS_Singleton DEF TheOnly
  <2>2. UpToDate(s) <=> When[p] < ctime[s]
    BY <2>1 DEF UpToDate
  <2> QED
    BY <1>1, <2>1, <2>2, Zenon DEF WriteStatus
<1> QED
  BY <1>3, <1>4, <1>5, <1>6

\* A step needs work only once its precursors are complete.
LEMMA NeedsWork ==
  ASSUME NetworkInv, Made, ~Cyclic, NEW s \in Searched, Status[s] = "needswork"
  PROVE  /\ \A p \in precursors[s] : Status[p] = "complete"
         /\ memo[s] = "idle" /\ kind[s] # "file"
<1>0. s \in Step /\ memo[s] \in {"idle", "complete", "failed"}
  BY SearchedDown DEF NetworkInv, TypeOK
<1>1. kind[s] # "file"
  BY StatusCases
<1>2. CASE kind[s] = "write"
  BY <1>0, <1>2, WriteCases
<1>3. CASE kind[s] = "calib"
  <2>1. Status[s] = CalibStatus(Status, s) /\ memo[s] = "idle"
    BY <1>0, <1>3, StatusCases DEF Made
  <2> QED
    BY <1>3, <2>1 DEF CalibStatus
<1>4. CASE OtherKind(s)
  <2>1. Status[s] = PlainStatus(Status, s) /\ memo[s] = "idle" /\ status[s] # "needswork"
    BY <1>0, <1>4, StatusCases DEF Made, OtherKind
  <2> QED
    BY <1>1, <2>1 DEF PlainStatus
<1> QED
  BY <1>1, <1>2, <1>3, <1>4 DEF OtherKind

\* A written file that counts as complete is there.
LEMMA WriteComplete ==
  ASSUME NetworkInv, Made, ~Cyclic, NEW s \in Searched, kind[s] = "write",
         Status[s] = "complete"
  PROVE  ctime[s] > 0
<1>1. s \in Step /\ ctime[s] \in Nat /\ clock \in Nat
  BY SearchedDown DEF NetworkInv, TypeOK
<1>2. CASE memo[s] = "complete"
  BY <1>1, <1>2 DEF Made
<1>3. CASE UpToDate(s)
  <2>1. PICK p \in Searched : precursors[s] = {p}
    BY WriteCases
  <2>2. When[p] \in 0..clock
    BY WhenDefined
  <2>3. When[p] < ctime[s]
    BY <1>3, <2>1, WriteCases
  <2> QED
    BY <1>1, <2>2, <2>3
<1> QED
  BY <1>2, <1>3, WriteCases

\* So a step that counts as complete has a sound image.
LEMMA MadeIsSound == NetworkInv /\ Made => CompleteIsSound
<1> SUFFICES ASSUME NetworkInv, Made, ~Cyclic, NEW s \in Searched, Status[s] = "complete"
             PROVE  SoundImage(s) \/ s \in torn
  BY DEF CompleteIsSound, Processed
<1>1. s \in Step
  BY SearchedDown DEF NetworkInv
<1>2. CASE kind[s] = "file"
  BY <1>2 DEF SoundImage
<1>3. CASE kind[s] = "write"
  <2>1. ctime[s] > 0
    BY <1>3, WriteComplete
  <2>2. s \in whole \cup torn /\ (s \in image => s \in sound \cup torn)
    BY <1>1, <1>3, <2>1 DEF Made
  <2>3. SoundImage(s) <=> IF s \in image THEN s \in sound ELSE s \in whole
    BY <1>3, Zenon DEF SoundImage
  <2> QED
    BY <2>2, <2>3
<1>4. CASE kind[s] = "calib"
  <2>1. s \in image
    BY <1>4, StatusCases DEF CalibStatus
  <2>2. SoundImage(s) <=> s \in sound
    BY <1>4, Zenon DEF SoundImage
  <2> QED
    BY <1>1, <1>4, <2>1, <2>2 DEF Made
<1>5. CASE OtherKind(s)
  <2>1. status[s] = "complete"
    BY <1>5, StatusCases DEF PlainStatus
  <2>2. SoundImage(s) <=> s \in sound
    BY <1>5, Zenon DEF SoundImage, OtherKind
  <2> QED
    BY <1>1, <1>5, <2>1, <2>2 DEF Made
<1> QED
  BY <1>2, <1>3, <1>4, <1>5 DEF OtherKind

\* What is below a step that can be built can be built.
LEMMA BuildableDown ==
  ASSUME ParserInv, NEW s \in Step, Buildable(s), NEW p \in precursors[s]
  PROVE  Buildable(p)
<1>1. Below(p) \cup {p} \subseteq Below(s)
  BY BelowUnfolds
<1> QED
  BY <1>1, Zenon DEF Buildable

LEMMA BuildableSelf ==
  ASSUME NEW s, Buildable(s)
  PROVE  /\ kind[s] = "file" => ctime[s] > 0
         /\ kind[s] = "write" => Cardinality(precursors[s]) = 1
         /\ kind[s] \notin {"file", "write"} => precursors[s] # {}
  BY Zenon DEF Buildable

\* It does not fail.
LEMMA BuildableNotFailed ==
  ASSUME NetworkInv, Running, Remembered, ~Cyclic
  PROVE  \A s \in Searched : Buildable(s) => Status[s] # "failed"
<1> DEFINE T == {s \in Searched : Buildable(s) /\ Status[s] = "failed"}
<1> SUFFICES ASSUME T # {} PROVE FALSE
  OBVIOUS
<1>1. PICK s \in T : \A p \in precursors[s] : p \in Searched /\ p \notin T
  BY Bottom DEF NetworkInv
<1>2. s \in Step /\ s \in Searched /\ Buildable(s) /\ Status[s] = "failed"
  BY SearchedDown DEF NetworkInv
<1>3. \A p \in precursors[s] : Status[p] # "failed"
  BY <1>1, <1>2, BuildableDown DEF NetworkInv
<1>4. CASE kind[s] = "file"
  BY <1>2, <1>4, BuildableSelf, StatusCases
<1>5. CASE kind[s] = "write"
  <2>1. Cardinality(precursors[s]) = 1
    BY <1>2, <1>5, BuildableSelf
  <2>2. PICK p : precursors[s] = {p}
    BY <1>2, <2>1, PrecursorsFinite, FS_Singleton DEF NetworkInv
  <2>3. memo[s] # "failed"
    BY <1>2 DEF Remembered
  <2> QED
    BY <1>2, <1>3, <1>5, <2>2, <2>3, WriteCases
<1>6. CASE kind[s] = "calib"
  BY <1>2, <1>6, StatusCases DEF CalibStatus
<1>7. CASE OtherKind(s)
  <2>1. precursors[s] # {}
    BY <1>2, <1>7, BuildableSelf DEF OtherKind
  <2> QED
    BY <1>2, <1>3, <1>7, <2>1, StatusCases DEF PlainStatus
<1> QED
  BY <1>4, <1>5, <1>6, <1>7 DEF OtherKind

\* If a search from it finds nothing to do, it is complete.
LEMMA NothingFound ==
  ASSUME NetworkInv, Running, Remembered, ~Cyclic
  PROVE  \A s \in Searched : Buildable(s) /\ Found[s] = {} => Status[s] = "complete"
<1> DEFINE T == {s \in Searched : Buildable(s) /\ Found[s] = {} /\ Status[s] # "complete"}
<1> SUFFICES ASSUME T # {} PROVE FALSE
  OBVIOUS
<1>1. PICK s \in T : \A p \in precursors[s] : p \in Searched /\ p \notin T
  BY Bottom DEF NetworkInv
<1>2. s \in Step /\ s \in Searched /\ Buildable(s) /\ Found[s] = {} /\ Status[s] # "complete"
  BY SearchedDown DEF NetworkInv
<1>3. Status[s] # "failed"
  BY <1>2, BuildableNotFailed
<1>4. Status[s] # "needswork"
  <2>1. Status[s] = "needswork" => Found[s] = {s}
    BY <1>2, FoundDefined, Zenon
  <2> QED
    BY <1>2, <2>1
<1>5. ASSUME Status[s] = "idle" PROVE \A p \in precursors[s] : Status[p] = "complete"
  <2>1. Found[s] = UNION {Found[p] : p \in precursors[s]}
    BY <1>2, <1>5, FoundDefined, Zenon DEF Tried
  <2>2. \A p \in precursors[s] : Found[p] = {} /\ Buildable(p)
    BY <1>2, <2>1, BuildableDown DEF NetworkInv
  <2> QED
    BY <1>1, <2>2
<1>6. CASE kind[s] = "file"
  BY <1>2, <1>3, <1>6, StatusCases
<1>7. CASE kind[s] = "write"
  <2>1. PICK p : precursors[s] = {p}
    BY <1>2, <1>3, <1>7, WriteCases
  <2>2. memo[s] \in {"idle", "complete", "failed"}
    BY <1>2 DEF NetworkInv, TypeOK
  <2> QED
    BY <1>2, <1>3, <1>4, <1>5, <1>7, <2>1, <2>2, WriteCases
<1>8. CASE kind[s] = "calib"
  BY <1>2, <1>4, <1>5, <1>8, StatusCases DEF CalibStatus
<1>9. CASE OtherKind(s)
  <2>1. precursors[s] # {}
    BY <1>2, <1>9, BuildableSelf DEF OtherKind
  <2> QED
    BY <1>2, <1>3, <1>4, <1>5, <1>9, <2>1, StatusCases DEF PlainStatus
<1> QED
  BY <1>6, <1>7, <1>8, <1>9 DEF OtherKind

\* when() of a step is not before the time of any source below it.
LEMMA WhenBounds ==
  ASSUME NetworkInv, Made, ~Cyclic
  PROVE  \A p \in Searched : Passing(p) /\ FromSources(p) =>
           \A b \in Below(p) \cup {p} : ctime[b] <= When[p]
<1> DEFINE Bounds(p) == \A b \in Below(p) \cup {p} : ctime[b] <= When[p]
<1> DEFINE T == {p \in Searched : Passing(p) /\ FromSources(p) /\ ~Bounds(p)}
<1> SUFFICES ASSUME T # {} PROVE FALSE
  OBVIOUS
<1>1. PICK s \in T : \A p \in precursors[s] : p \in Searched /\ p \notin T
  <2> HIDE DEF Bounds
  <2> QED
    BY Bottom DEF NetworkInv
<1>2. s \in Step /\ s \in Searched /\ Passing(s) /\ FromSources(s) /\ ~Bounds(s)
  BY SearchedDown DEF NetworkInv
<1>3. \A p \in precursors[s] : p \in Searched /\ Bounds(p)
  <2>1. ASSUME NEW p \in precursors[s] PROVE Passing(p) /\ FromSources(p)
    BY <1>2, BelowUnfolds DEF FromSources, NetworkInv
  <2> QED
    BY <1>1, <2>1
<1>4. /\ When \in [Searched -> 0..clock] /\ clock \in Nat
      /\ When[s] = IF kind[s] \in {"file", "write"} THEN ctime[s]
                   ELSE IF precursors[s] = {} THEN 0
                   ELSE Max({When[p] : p \in precursors[s]})
      /\ \A b \in Step : ctime[b] \in Nat
  <2>1. clock \in Nat /\ ctime \in [Step -> 0..clock]
    BY DEF NetworkInv, TypeOK
  <2>2. \A b \in Step : ctime[b] \in Nat
    BY <2>1
  <2> HIDE DEF T
  <2> QED
    BY <1>2, <2>1, <2>2, WhenDefined
<1>5. \A b \in Below(s) : \/ b \in precursors[s]
                          \/ \E p \in precursors[s] : b \in Below(p)
  BY <1>2, BelowUnfolds DEF NetworkInv
<1>6. CASE IsSource(s)
  BY <1>2, <1>4, <1>5, <1>6 DEF IsSource
<1>7. CASE kind[s] \in {"calib", "plain"}
  <2>1. ctime[s] = 0
    BY <1>2, <1>4, <1>7 DEF Made
  <2>2. CASE precursors[s] = {}
    BY <1>2, <1>4, <1>5, <1>7, <2>1, <2>2
  <2>3. CASE precursors[s] # {}
    <3> DEFINE S == {When[p] : p \in precursors[s]}
    <3>1. S \in SUBSET (0..clock) /\ S # {}
      BY <1>3, <1>4, <2>3
    <3>2. When[s] = Max(S)
      BY <1>4, <1>7, <2>3
    <3>3. \A p \in precursors[s] : When[p] \in S /\ When[p] \in Nat
      BY <1>3, <1>4
    <3> HIDE DEF S
    <3>4. Max(S) \in Nat /\ \A x \in S : x <= Max(S)
      BY ONLY <1>4, <3>1, MaxOf
    <3>5. ASSUME NEW b \in Below(s) PROVE ctime[b] <= When[s]
      <4>1. PICK p \in precursors[s] : b \in Below(p) \cup {p}
        BY <1>5
      <4>2. ctime[b] <= When[p] /\ When[p] <= When[s]
        BY <1>3, <3>2, <3>3, <3>4, <4>1
      <4>3. b \in Step
        BY <1>2, BelowUnfolds DEF NetworkInv, ParserInv, ParserTypeOK
      <4> QED
        BY <1>4, <3>2, <3>3, <3>4, <4>2, <4>3
    <3> QED
      BY <1>2, <2>1, <3>2, <3>4, <3>5
  <2> QED
    BY <2>2, <2>3
<1> QED
  BY <1>2, <1>6, <1>7 DEF Passing

\* An up to date file is younger than the sources it is made from.
LEMMA UpToDateIsFresh ==
  ASSUME NetworkInv, Made, ~Cyclic, NEW s \in Searched, kind[s] = "write",
         Status[s] = "complete", UpToDate(s), FromSources(s)
  PROVE  \A b \in Below(s) : ctime[b] < ctime[s]
<1>1. PICK p \in Searched : precursors[s] = {p}
  BY WriteCases
<1>2. When[p] < ctime[s]
  BY <1>1, WriteCases
<1>3. s \in Step /\ When[p] \in Nat /\ \A b \in Step : ctime[b] \in Nat
  BY WhenDefined, SearchedDown DEF NetworkInv, TypeOK
<1>4. /\ Passing(p) /\ FromSources(p)
      /\ \A b \in Below(s) : b \in Step /\ b \in Below(p) \cup {p}
  BY <1>1, <1>3, BelowUnfolds DEF FromSources, NetworkInv, ParserInv, ParserTypeOK
<1>5. \A b \in Below(s) : ctime[b] <= When[p]
  BY <1>4, WhenBounds
<1> QED
  BY <1>2, <1>3, <1>4, <1>5

---------------------------------------------------------------------------
\* What a step of the program leaves alone

\* Processing does not change which steps are below which.
LEMMA ShapeKept ==
  ASSUME UNCHANGED linkVars
  PROVE  /\ Searched' = Searched /\ terminals' = terminals /\ (Cyclic' <=> Cyclic)
         /\ \A s : Below(s)' = Below(s)
<1>1. known' = known /\ precursors' = precursors /\ successors' = successors
  BY DEF linkVars
<1>2. \A s : Below(s)' = Below(s)
  BY <1>1 DEF Below, Closed
<1>3. terminals' = terminals
  BY <1>1 DEF terminals
<1>4. Searched' = Searched
  BY <1>2, <1>3 DEF Searched
<1>5. Cyclic' <=> Cyclic
  BY <1>2, <1>4 DEF Cyclic
<1> QED
  BY <1>2, <1>3, <1>4, <1>5

LEMMA SourcesKept ==
  ASSUME UNCHANGED <<kind, linkVars>>
  PROVE  \A s : FromSources(s)' <=> FromSources(s)
<1>1. precursors' = precursors /\ kind' = kind
  BY DEF linkVars
<1>2. \A b : Passing(b)' <=> Passing(b)
  BY <1>1 DEF Passing, IsSource
<1> QED
  BY <1>2, ShapeKept DEF FromSources

\* Nor, as long as it leaves the sources alone, what can be built.
LEMMA BuildableKept ==
  ASSUME ParserInv, UNCHANGED <<kind, linkVars>>,
         \A s \in Step : kind[s] = "file" => ctime'[s] = ctime[s]
  PROVE  \A s \in Step : Buildable(s)' <=> Buildable(s)
<1>1. precursors' = precursors /\ kind' = kind
  BY DEF linkVars
<1>2. \A s \in Step : Below(s)' = Below(s) /\ Below(s) \cup {s} \subseteq Step
  BY ShapeKept, BelowUnfolds DEF ParserInv, ParserTypeOK
<1> DEFINE Ok(b) == CASE kind[b] = "file"  -> ctime[b] > 0
                      [] kind[b] = "write" -> Cardinality(precursors[b]) = 1
                      [] OTHER             -> precursors[b] # {}
<1>3. \A b \in Step : Ok(b)' <=> Ok(b)
  BY <1>1, Zenon
<1>4. \A s \in Step : Buildable(s) <=> \A b \in Below(s) \cup {s} : Ok(b)
  BY Zenon DEF Buildable
<1>5. \A s \in Step : Buildable(s)' <=> \A b \in Below(s)' \cup {s} : Ok(b)'
  BY Zenon DEF Buildable
<1> HIDE DEF Ok
<1> QED
  BY <1>2, <1>3, <1>4, <1>5

LEMMA WhenKept == ASSUME UNCHANGED <<kind, linkVars, ctime>> PROVE When' = When
<1>1. Searched' = Searched /\ precursors' = precursors /\ kind' = kind /\ ctime' = ctime
  BY ShapeKept DEF linkVars
<1> QED
  BY <1>1 DEF When

\* What the last search made the steps remember is what it found them to be.
MemoFollows ==
  \A s \in Step : \/ memo'[s] = memo[s]
                  \/ /\ s \in Searched /\ kind[s] = "write" /\ memo[s] = "idle"
                     /\ memo'[s] = Status[s] /\ Status[s] \in {"complete", "failed"}

LEMMA RememberFollows == Remember => MemoFollows
  BY DEF Remember, MemoFollows

\* A search, and the start of the work it finds, leave complete what is
\* complete.
LEMMA CompleteKept ==
  ASSUME NetworkInv, NetworkInv', ~Cyclic,
         UNCHANGED <<kind, linkVars, ctime, image>>, MemoFollows,
         \A s \in Searched : status'[s] = status[s] \/ Status[s] # "complete"
  PROVE  \A s \in Searched : Status[s] = "complete" => Status'[s] = "complete"
<1>0. (NetworkInv /\ ~Cyclic => \A s \in Searched : StatusByClass(s))'
  BY StatusOfAll, PTL
<1>1. /\ Searched' = Searched /\ ~Cyclic' /\ When' = When
      /\ precursors' = precursors /\ kind' = kind /\ ctime' = ctime /\ image' = image
  BY ShapeKept, WhenKept DEF linkVars
<1> DEFINE T == {s \in Searched : Status[s] = "complete" /\ Status'[s] # "complete"}
<1> SUFFICES ASSUME T # {} PROVE FALSE
  OBVIOUS
<1>2. PICK s \in T : \A p \in precursors[s] : p \in Searched /\ p \notin T
  BY Bottom DEF NetworkInv
<1>3. s \in Step /\ s \in Searched /\ Status[s] = "complete" /\ Status'[s] # "complete"
  BY SearchedDown DEF NetworkInv
<1>4. /\ kind[s] = "file" => Status'[s] = IF ctime[s] > 0 THEN "complete" ELSE "failed"
      /\ kind[s] = "write" => Status'[s] = WriteStatus(Status, s)'
      /\ kind[s] = "calib" => Status'[s] = CalibStatus(Status, s)'
      /\ OtherKind(s) => Status'[s] = PlainStatus(Status, s)'
  <2>1. StatusByClass(s)'
    BY <1>0, <1>1, <1>3
  <2> QED
    BY <1>1, <2>1 DEF StatusByClass, OtherKind
<1>5. CASE kind[s] = "file"
  BY <1>3, <1>4, <1>5, StatusCases
<1>6. CASE kind[s] = "write"
  <2>1. PICK p \in Searched : precursors[s] = {p}
    BY <1>3, <1>6, WriteCases
  <2>2. Cardinality(precursors[s]) = 1
    BY <2>1, FS_Singleton
  <2>3. WriteStatus(Status, s)' = "complete" <=> \/ memo'[s] = "complete"
                                                \/ (memo'[s] = "idle" /\ UpToDate(s)')
    <3>1. Cardinality(precursors'[s]) = 1
      BY <1>1, <2>2
    <3>2. memo'[s] \in {"idle", "complete", "failed"}
      BY <1>3 DEF NetworkInv, TypeOK
    <3>3. memo'[s] # "idle" => WriteStatus(Status, s)' = memo'[s]
      BY <3>1, Zenon DEF WriteStatus
    <3>4. memo'[s] = "idle" /\ UpToDate(s)' => WriteStatus(Status, s)' = "complete"
      BY <3>1, Zenon DEF WriteStatus
    <3>5. memo'[s] = "idle" /\ ~UpToDate(s)' => WriteStatus(Status, s)' # "complete"
      BY <3>1, Zenon DEF WriteStatus
    <3> QED
      BY <3>2, <3>3, <3>4, <3>5
  <2>4. UpToDate(s)' <=> UpToDate(s)
    BY <1>1 DEF UpToDate
  <2>5. memo[s] \in {"idle", "complete", "failed"} /\ memo'[s] \in {"idle", "complete", "failed"}
    BY <1>3 DEF NetworkInv, TypeOK
  <2>6. memo[s] = "complete" \/ (memo[s] = "idle" /\ UpToDate(s))
    BY <1>3, <1>6, <2>1, <2>5, WriteCases
  <2>7. memo'[s] = memo[s] \/ memo'[s] = "complete"
    BY <1>3 DEF MemoFollows
  <2> QED
    BY <1>3, <1>4, <1>6, <2>3, <2>4, <2>6, <2>7
<1>7. CASE kind[s] = "calib"
  <2>1. s \in image
    BY <1>3, <1>7, StatusCases DEF CalibStatus
  <2> QED
    BY <1>1, <1>3, <1>4, <1>7, <2>1 DEF CalibStatus
<1>8. CASE OtherKind(s)
  <2>1. Status[s] = PlainStatus(Status, s) /\ status'[s] = status[s]
    BY <1>3, <1>8, StatusCases
  <2>2. CASE precursors[s] = {}
    BY <1>1, <1>3, <1>4, <1>8, <2>1, <2>2 DEF PlainStatus
  <2>3. CASE precursors[s] # {}
    <3>1. /\ \A p \in precursors[s] : Status[p] = "complete"
          /\ status[s] = "complete"
      BY <1>3, <2>1, <2>3 DEF PlainStatus
    <3>2. \A p \in precursors[s] : Status'[p] = "complete"
      BY <1>2, <3>1
    <3> QED
      BY <1>1, <1>3, <1>4, <1>8, <2>1, <2>3, <3>1, <3>2 DEF PlainStatus
  <2> QED
    BY <2>2, <2>3
<1> QED
  BY <1>5, <1>6, <1>7, <1>8 DEF OtherKind

---------------------------------------------------------------------------
\* The steps of the program

RunInv ==
  NetworkInv /\ Blank /\ Made /\ Pending /\ Remembered /\ Fresh /\ DoneMeansBuilt

LEMMA BlankKeeps ==
  NetworkInv /\ Blank /\ phase \in {"parse", "undefined"} => RunInv
<1> SUFFICES ASSUME NetworkInv, Blank, phase \in {"parse", "undefined"} PROVE RunInv
  OBVIOUS
<1>1. Made
  BY DEF Blank, Made
<1>2. Pending /\ Remembered /\ Fresh /\ DoneMeansBuilt
  BY DEF Pending, Remembered, Fresh, DoneMeansBuilt, Running
<1> QED
  BY <1>1, <1>2 DEF RunInv

LEMMA RunInit == Init => RunInv
<1> SUFFICES ASSUME Init PROVE RunInv
  OBVIOUS
<1>1. Blank /\ phase \in {"parse", "undefined"}
  BY DEF Init, ParserInit, Blank
<1> QED
  BY <1>1, InitKeeps, BlankKeeps

LEMMA ParseRun == RunInv /\ Parse => RunInv'
<1>1. RunInv /\ Parse => NetworkInv' /\ Blank' /\ phase' \in {"parse", "undefined"}
  <2> SUFFICES ASSUME RunInv, Parse
               PROVE  NetworkInv' /\ Blank' /\ phase' \in {"parse", "undefined"}
    OBVIOUS
  <2>1. NetworkInv'
    BY ParseKeeps DEF RunInv
  <2>2. phase = "parse" /\ phase' \in {"parse", "undefined"}
    BY DEF Parse, StartStep, StartOrphan, StartRefused, StartImage, StartImageCrash,
           EndElement
  <2>3. UNCHANGED <<ctime, status, memo, image>>
    BY DEF Parse, fileVars, memoryVars
  <2> QED
    BY <2>1, <2>2, <2>3 DEF RunInv, Blank
<1>2. (NetworkInv /\ Blank /\ phase \in {"parse", "undefined"} => RunInv)'
  BY BlankKeeps, PTL
<1> QED
  BY <1>1, <1>2

\* A run begins with nothing to remember.
LEMMA NothingRemembered ==
  NetworkInv /\ Made /\ phase \in {"loop", "off"} /\ (\A s \in Step : memo[s] = "idle") => RunInv
<1> SUFFICES ASSUME NetworkInv, Made, phase \in {"loop", "off"}, \A s \in Step : memo[s] = "idle"
             PROVE  RunInv
  OBVIOUS
<1>1. Remembered /\ Fresh
  BY SearchedDown DEF Remembered, Fresh, NetworkInv
<1>2. Blank /\ Pending /\ DoneMeansBuilt
  BY DEF Blank, Pending, DoneMeansBuilt
<1> QED
  BY <1>1, <1>2 DEF RunInv

LEMMA BeginRun == RunInv /\ Begin => RunInv'
<1>1. (NetworkInv /\ Made /\ phase \in {"loop", "off"} /\ (\A s \in Step : memo[s] = "idle")
         => RunInv)'
  BY NothingRemembered, PTL
<1> SUFFICES ASSUME RunInv, Begin PROVE RunInv'
  OBVIOUS
<1>2. NetworkInv'
  BY BeginKeeps DEF RunInv
<1>3. /\ image = {} /\ \A s \in Step : ctime[s] = 0 /\ status[s] = "idle" /\ memo[s] = "idle"
      /\ UNCHANGED <<kind, status, memo, image, sound, whole, torn>> /\ phase' = "loop"
  BY DEF RunInv, Blank, Begin, EndProcess, memoryVars
<1>4. \A s \in Step : ctime'[s] > 0 => kind[s] = "file"
  <2>1. PICK missing \in SUBSET Step :
          ctime' = [s \in Step |-> IF kind[s] = "file" /\ s \notin missing THEN 1 ELSE 0]
    BY DEF Begin
  <2> QED
    BY <2>1
<1>5. Made'
  BY <1>3, <1>4 DEF Made, OtherKind
<1> QED
  BY <1>1, <1>2, <1>3, <1>5

LEMMA RestartRun == RunInv /\ Restart => RunInv'
<1>1. (NetworkInv /\ Made /\ phase \in {"loop", "off"} /\ (\A s \in Step : memo[s] = "idle")
         => RunInv)'
  BY NothingRemembered, PTL
<1> SUFFICES ASSUME RunInv, Restart PROVE RunInv'
  OBVIOUS
<1>2. NetworkInv'
  BY RestartKeeps DEF RunInv
<1>3. Made'
  BY DEF RunInv, Made, OtherKind, Restart
<1> QED
  BY <1>1, <1>2, <1>3 DEF Restart

LEMMA TouchRun == RunInv /\ Touch => RunInv'
<1> SUFFICES ASSUME RunInv, Touch PROVE RunInv'
  OBVIOUS
<1>1. NetworkInv' /\ phase' = "off"
  BY RestartKeeps DEF RunInv, Touch
<1>2. PICK s \in known : kind[s] = "file" /\ ctime' = [ctime EXCEPT ![s] = clock + 1]
  BY DEF Touch
<1>3. /\ \A t \in Step : kind[t] # "file" => ctime'[t] = ctime[t]
      /\ UNCHANGED <<kind, status, memo, image, sound, whole, torn>>
  BY <1>2 DEF RunInv, NetworkInv, TypeOK, Touch, memoryVars
<1>4. Made'
  BY <1>3 DEF RunInv, Made, OtherKind
<1> QED
  BY <1>1, <1>4 DEF RunInv, Blank, Pending, Remembered, Fresh, DoneMeansBuilt, Running

\* A search, whatever it finds: what it remembers is justified.
LEMMA SearchRemembers ==
  ASSUME RunInv, NetworkInv', Running, ~Cyclic, Running', MemoFollows,
         UNCHANGED <<kind, linkVars, ctime, image, sound, whole, torn>>,
         \A s \in Step : status'[s] = status[s] \/ status'[s] = "working"
  PROVE  Made' /\ Remembered' /\ Fresh'
<1> USE DEF RunInv
<1>1. /\ Searched' = Searched /\ Searched \subseteq Step
      /\ \A s : Below(s)' = Below(s) /\ (FromSources(s)' <=> FromSources(s))
      /\ \A s \in Step : Buildable(s)' <=> Buildable(s)
      /\ UNCHANGED <<kind, ctime>>
  BY ShapeKept, SourcesKept, BuildableKept, SearchedDown DEF NetworkInv
<1>2. Made'
  <2> SUFFICES ASSUME NEW s \in Step, memo'[s] # memo[s], memo'[s] = "complete"
               PROVE  kind[s] = "write" /\ ctime[s] > 0
    <3>1. \A s \in Step : memo'[s] = "failed" => kind[s] = "write"
      BY DEF Made, MemoFollows
    <3>2. \A s \in Step : memo'[s] = "complete" => kind[s] = "write" /\ ctime[s] > 0
      BY DEF Made
    <3> QED
      BY <1>1, <3>1, <3>2 DEF Made, OtherKind
  <2> QED
    BY WriteComplete DEF MemoFollows
<1>3. Remembered'
  <2> SUFFICES ASSUME NEW s \in Searched, memo'[s] = "failed" PROVE ~Buildable(s)
    BY <1>1 DEF Remembered
  <2>1. s \in Step
    BY <1>1
  <2>2. memo[s] = "failed" \/ Status[s] = "failed"
    BY <2>1 DEF MemoFollows
  <2> QED
    BY <2>2, BuildableNotFailed DEF Remembered
<1>4. Fresh'
  <2> SUFFICES ASSUME NEW s \in Searched, memo'[s] = "complete", FromSources(s)
               PROVE  \A b \in Below(s) : ctime[b] < ctime[s]
    BY <1>1 DEF Fresh
  <2>1. CASE memo[s] = "complete"
    BY <2>1 DEF Fresh
  <2>2. CASE memo[s] # "complete"
    <3>1. Status[s] = "complete" /\ kind[s] = "write" /\ s \in Step
      BY <1>1, <2>2 DEF MemoFollows
    <3>2. UpToDate(s)
      BY <2>2, <3>1, WriteCases
    <3> QED
      BY <3>1, <3>2, UpToDateIsFresh
  <2> QED
    BY <2>1, <2>2
<1> QED
  BY <1>2, <1>3, <1>4

\* A search returns steps that need work only.
LEMMA CandidatesFound ==
  ASSUME NetworkInv, ~Cyclic, NEW s \in Candidates
  PROVE  s \in Searched /\ Status[s] = "needswork"
<1> DEFINE T == {t \in Searched : \E c \in Found[t] : ~(c \in Searched /\ Status[c] = "needswork")}
<1>1. T = {}
  <2> SUFFICES ASSUME T # {} PROVE FALSE
    OBVIOUS
  <2>1. PICK t \in T : \A p \in precursors[t] : p \in Searched /\ p \notin T
    BY Bottom DEF NetworkInv
  <2>2. PICK c \in Found[t] : ~(c \in Searched /\ Status[c] = "needswork")
    BY <2>1
  <2>3. \/ Status[t] = "needswork" /\ Found[t] = {t}
        \/ Found[t] = UNION {Found[p] : p \in precursors[t]}
        \/ Found[t] = {}
    BY FoundDefined, Zenon DEF Tried
  <2>4. PICK p \in precursors[t] : c \in Found[p]
    BY <2>1, <2>2, <2>3
  <2> QED
    BY <2>1, <2>2, <2>4
<1>2. PICK t \in terminals : s \in Found[t]
  BY DEF Candidates
<1> QED
  BY <1>1, <1>2, SearchedDown DEF NetworkInv

\* The step that is worked on has complete precursors, and stays that way.
LEMMA PickRun == RunInv /\ Pick => RunInv'
<1> SUFFICES ASSUME RunInv, Pick PROVE RunInv'
  OBVIOUS
<1> USE DEF RunInv
<1>1. NetworkInv' /\ ~Cyclic /\ phase = "loop" /\ phase' = "working" /\ MemoFollows
  BY SearchKeeps, RememberFollows DEF Pick
<1>2. PICK s \in Candidates : active' = s /\ status' = [status EXCEPT ![s] = "working"]
  BY DEF Pick
<1>3. s \in Searched /\ Status[s] = "needswork" /\ s \in Step
  BY <1>1, <1>2, CandidatesFound, SearchedDown DEF NetworkInv
<1>4. UNCHANGED <<kind, linkVars, ctime, image, sound, whole, torn>>
  BY DEF Pick, fileVars
<1>5. \A t \in Step : status'[t] = IF t = s THEN "working" ELSE status[t]
  BY <1>2, <1>3 DEF NetworkInv, TypeOK
<1>6. Made' /\ Remembered' /\ Fresh'
  BY <1>1, <1>4, <1>5, SearchRemembers DEF Running
<1>7. Pending'
  <2>1. /\ \A p \in precursors[s] : Status[p] = "complete"
        /\ memo[s] = "idle" /\ kind[s] # "file"
    BY <1>1, <1>3, NeedsWork
  <2>2. \A t \in Searched : Status[t] = "complete" => Status'[t] = "complete"
    <3>1. \A t \in Searched : status'[t] = status[t] \/ Status[t] # "complete"
      BY <1>3, <1>5, SearchedDown DEF NetworkInv
    <3> QED
      BY <1>1, <1>4, <3>1, CompleteKept
  <2>3. memo'[s] = "idle"
    BY <1>1, <1>3, <2>1 DEF MemoFollows
  <2>4. precursors[s] \subseteq Searched
    BY <1>3, SearchedDown DEF NetworkInv
  <2> QED
    BY <1>1, <1>2, <1>3, <1>4, <2>1, <2>2, <2>3, <2>4, ShapeKept DEF Pending, linkVars
<1> QED
  BY <1>1, <1>6, <1>7 DEF Blank, DoneMeansBuilt

\* When a search finds nothing, what could be built is complete.
LEMMA EndRunRun == RunInv /\ EndRun => RunInv'
<1> SUFFICES ASSUME RunInv, EndRun PROVE RunInv'
  OBVIOUS
<1> USE DEF RunInv
<1>1. /\ NetworkInv' /\ ~Cyclic /\ phase = "loop" /\ phase' = "done" /\ MemoFollows
      /\ Candidates = {}
  BY SearchKeeps, RememberFollows DEF EndRun
<1>2. UNCHANGED <<kind, linkVars, ctime, image, sound, whole, torn, status>>
  BY DEF EndRun, fileVars
<1>3. Made' /\ Remembered' /\ Fresh'
  BY <1>1, <1>2, SearchRemembers DEF Running
<1>4. ASSUME NEW t \in terminals, Buildable(t) PROVE Status[t] = "complete"
  <2>1. t \in Searched /\ Searched \subseteq known
    BY SearchedDown DEF NetworkInv
  <2>2. Found[t] \subseteq Candidates
    BY <1>1, <2>1, FoundDefined DEF Candidates
  <2> QED
    BY <1>1, <1>4, <2>1, <2>2, NothingFound DEF Running
<1>5. DoneMeansBuilt'
  <2>1. \A t \in Searched : Status[t] = "complete" => Status'[t] = "complete"
    BY <1>1, <1>2, CompleteKept
  <2>2. terminals' = terminals /\ terminals \subseteq Searched /\ terminals \subseteq Step
    BY <1>2, ShapeKept, SearchedDown DEF NetworkInv
  <2>3. \A t \in Step : Buildable(t)' <=> Buildable(t)
    BY <1>2, BuildableKept DEF NetworkInv
  <2> QED
    BY <1>4, <2>1, <2>2, <2>3 DEF DoneMeansBuilt
<1> QED
  BY <1>1, <1>2, <1>3, <1>5, ShapeKept DEF Blank, Pending

\* What is not touched stays.
LEMMA StutterRun == RunInv /\ UNCHANGED vars => RunInv'
<1> SUFFICES ASSUME RunInv, UNCHANGED vars PROVE RunInv'
  OBVIOUS
<1> USE DEF RunInv
<1>1. /\ UNCHANGED <<kind, linkVars, ctime, image, sound, whole, torn, status, memo>>
      /\ UNCHANGED <<phase, active>>
  BY DEF vars, parserVars, fileVars, memoryVars
<1>2. NetworkInv'
  <2>1. ParserInv' /\ known' = known
    BY <1>1, NetworkFrame DEF NetworkInv, ParserInv, ParserTypeOK, vars, parserVars
  <2> QED
    BY <2>1 DEF NetworkInv, ParserInv, TypeOK, vars, parserVars, fileVars, memoryVars
<1>3. MemoFollows
  BY <1>1 DEF MemoFollows
<1>4. /\ Searched' = Searched /\ terminals' = terminals /\ (Cyclic' <=> Cyclic)
      /\ \A s : Below(s)' = Below(s) /\ (FromSources(s)' <=> FromSources(s))
      /\ \A s \in Step : Buildable(s)' <=> Buildable(s)
      /\ Searched \subseteq Step /\ terminals \subseteq Searched
      /\ \A s \in Searched : precursors[s] \subseteq Searched
  BY <1>1, ShapeKept, SourcesKept, BuildableKept, SearchedDown DEF NetworkInv
<1>5. ~Cyclic => \A s \in Searched : Status[s] = "complete" => Status'[s] = "complete"
  BY <1>1, <1>2, <1>3, CompleteKept
<1>6. Blank' /\ Made'
  BY <1>1 DEF Blank, Made, OtherKind
<1>7. Remembered' /\ Fresh'
  BY <1>1, <1>4 DEF Remembered, Fresh, Running
<1>8. Pending'
  BY <1>1, <1>4, <1>5 DEF Pending, linkVars
<1>9. DoneMeansBuilt'
  BY <1>1, <1>4, <1>5 DEF DoneMeansBuilt, Pending
<1> QED
  BY <1>2, <1>6, <1>7, <1>8, <1>9

\* The images and files of a step that is worked on come from complete
\* precursors: they are sound, or the work below was torn.
LEMMA InputSoundOrTorn ==
  ASSUME RunInv, phase = "working"
  PROVE  SoundInput(active) \/ TornInput(active)
<1> USE DEF RunInv
<1>1. CompleteIsSound /\ Processed
  BY MadeIsSound DEF Processed, Pending
<1>2. \A p \in precursors[active] : p \in Searched /\ Status[p] = "complete"
  BY SearchedDown DEF Pending, NetworkInv
<1>3. \A p \in precursors[active] : SoundImage(p) \/ p \in torn
  BY <1>1, <1>2 DEF CompleteIsSound
<1> QED
  BY <1>2, <1>3 DEF SoundInput, TornInput

\* Work changes the active step only, and what it completes is sound or torn.
LEMMA WorkEffect ==
  ASSUME RunInv, WorkDone \/ WorkFails
  PROVE  /\ phase = "working" /\ phase' = "loop" /\ active \in Step
         /\ UNCHANGED <<kind, linkVars>>
         /\ \A s \in Step : s # active =>
              /\ ctime'[s] = ctime[s] /\ status'[s] = status[s] /\ memo'[s] = memo[s]
              /\ (s \in image' <=> s \in image)
              /\ (s \in sound' <=> s \in sound)
              /\ (s \in whole' <=> s \in whole)
              /\ (s \in torn' <=> s \in torn)
         /\ (kind[active] # "write" => ctime'[active] = ctime[active])
         /\ (kind[active] = "write" =>
               \/ ctime'[active] = 0
               \/ UNCHANGED <<ctime, whole, torn, image, sound>>
               \/ (active \in whole' \cup torn' /\ active \in sound' \cup torn'))
         /\ \/ memo'[active] = "idle"
            \/ (memo'[active] = "complete" /\ kind[active] = "write"
                /\ ctime'[active] = clock + 1)
         /\ \/ status'[active] = "failed"
            \/ (status'[active] = "complete" /\ active \in sound' \cup torn')
         /\ (kind[active] = "calib" =>
               \/ UNCHANGED <<image, sound, torn>>
               \/ active \in sound' \cup torn')
<1> USE DEF RunInv
<1>1. /\ phase = "working" /\ phase' = "loop" /\ UNCHANGED <<kind, linkVars>>
      /\ \E result \in {"complete", "failed"} : status' = [status EXCEPT ![active] = result]
  BY DEF WorkDone, WorkFails, WorkFailsEarly, CalibFailsLate, WriteFailsLate, Joined
<1>2. /\ active \in Step /\ memo[active] = "idle" /\ kind[active] # "file"
      /\ ctime \in [Step -> 0..clock] /\ status \in [Step -> State]
      /\ memo \in [Step -> {"idle", "complete", "failed"}]
  BY <1>1, SearchedDown DEF Pending, NetworkInv, TypeOK
<1>3. CASE WorkDone
  <2>1. SoundInput(active) \/ TornInput(active)
    BY <1>1, InputSoundOrTorn
  <2>2. active \in sound' \cup torn'
    BY <1>3, <2>1 DEF WorkDone, With
  <2>3. CASE kind[active] = "write"
    <3>1. /\ ctime' = [ctime EXCEPT ![active] = clock + 1]
          /\ memo' = [memo EXCEPT ![active] = "complete"]
          /\ whole' = With(whole, active, SoundInput(active))
      BY <1>3, <2>3 DEF WorkDone, NewFile
    <3>2. active \in whole' \cup torn'
      BY <1>3, <2>1, <3>1 DEF WorkDone, With
    <3> QED
      BY <1>1, <1>2, <1>3, <2>2, <2>3, <3>1, <3>2 DEF WorkDone, Joined, With
  <2>4. CASE kind[active] # "write"
    BY <1>1, <1>2, <1>3, <2>2, <2>4 DEF WorkDone, Joined, With
  <2> QED
    BY <2>3, <2>4
<1>4. CASE WorkFailsEarly
  BY <1>1, <1>2, <1>4 DEF WorkFailsEarly, Joined
<1>5. CASE CalibFailsLate
  BY <1>1, <1>2, <1>5 DEF CalibFailsLate, Joined
<1>6. CASE WriteFailsLate
  <2>1. CASE ctime' = [ctime EXCEPT ![active] = 0] /\ UNCHANGED <<clock, whole, torn>>
    BY <1>1, <1>2, <1>6, <2>1 DEF WriteFailsLate, Joined, With
  <2>2. CASE NewFile(FALSE) /\ torn' = torn \cup {active}
    BY <1>1, <1>2, <1>6, <2>2 DEF WriteFailsLate, Joined, With, NewFile
  <2> QED
    BY <1>6, <2>1, <2>2 DEF WriteFailsLate, WriteLeaves
<1> QED
  BY <1>3, <1>4, <1>5, <1>6 DEF WorkFails

LEMMA WorkRun == RunInv /\ (WorkDone \/ WorkFails) => RunInv'
<1> SUFFICES ASSUME RunInv, WorkDone \/ WorkFails PROVE RunInv'
  OBVIOUS
<1> USE DEF RunInv
<1> DEFINE a == active
<1>1. NetworkInv'
  BY WorkKeeps
<1>2. /\ a \in Searched /\ ~Cyclic /\ memo[a] = "idle" /\ kind[a] # "file"
      /\ phase = "working" /\ phase' = "loop" /\ a \in Step
      /\ UNCHANGED <<kind, linkVars>>
  BY WorkEffect DEF Pending
<1>3. /\ Searched' = Searched /\ (Cyclic' <=> Cyclic) /\ Searched \subseteq Step
      /\ \A s : Below(s)' = Below(s) /\ (FromSources(s)' <=> FromSources(s))
      /\ \A s \in Step : Below(s) \subseteq Step
  BY <1>2, ShapeKept, SourcesKept, SearchedDown, BelowUnfolds DEF NetworkInv, ParserInv, ParserTypeOK
<1>4. Made'
  <2> SUFFICES ASSUME NEW s \in Step
               PROVE  /\ kind[s] = "calib" /\ s \in image' => s \in sound' \cup torn'
                      /\ OtherKind(s) /\ status'[s] = "complete" => s \in sound' \cup torn'
                      /\ kind[s] = "write" /\ ctime'[s] > 0 =>
                           /\ s \in whole' \cup torn'
                           /\ s \in image' => s \in sound' \cup torn'
                      /\ memo'[s] = "complete" => kind[s] = "write" /\ ctime'[s] > 0
                      /\ memo'[s] = "failed" => kind[s] = "write"
                      /\ ctime'[s] > 0 => kind[s] \in {"file", "write"}
                      /\ status'[s] # "needswork"
    BY <1>2 DEF Made, OtherKind
  <2>1. CASE s # a
    BY <2>1, WorkEffect DEF Made
  <2>2. CASE s = a
    <3>1. clock \in Nat
      BY DEF NetworkInv, TypeOK
    <3> QED
      BY <1>2, <2>2, <3>1, WorkEffect DEF Made, OtherKind
  <2> QED
    BY <2>1, <2>2
<1>5. Remembered'
  <2>1. \A s \in Step : kind[s] = "file" => ctime'[s] = ctime[s]
    BY <1>2, WorkEffect
  <2>2. \A s \in Step : Buildable(s)' <=> Buildable(s)
    BY <1>2, <2>1, BuildableKept DEF NetworkInv
  <2>3. \A s \in Step : memo'[s] = "failed" => memo[s] = "failed"
    BY <1>2, WorkEffect
  <2> QED
    BY <1>2, <1>3, <2>2, <2>3 DEF Remembered, Running
<1>6. Fresh'
  <2> SUFFICES ASSUME NEW s \in Searched, memo'[s] = "complete", FromSources(s), NEW b \in Below(s)
               PROVE  ctime'[b] < ctime'[s]
    BY <1>3 DEF Fresh
  <2>1. s \in Step /\ b \in Step /\ b # s /\ kind[b] # "write"
    BY <1>2, <1>3 DEF FromSources, Passing, IsSource, Cyclic
  <2>2. ctime'[b] = ctime[b]
    BY <2>1, WorkEffect
  <2>3. CASE s = a
    <3>1. ctime'[s] = clock + 1
      BY <1>2, <2>3, WorkEffect
    <3>2. ctime[b] \in 0..clock /\ clock \in Nat
      BY <2>1 DEF NetworkInv, TypeOK
    <3> QED
      BY <2>2, <3>1, <3>2
  <2>4. CASE s # a
    <3>1. memo[s] = "complete" /\ ctime'[s] = ctime[s]
      BY <2>1, <2>4, WorkEffect
    <3> QED
      BY <1>2, <2>2, <3>1 DEF Fresh, Running
  <2> QED
    BY <2>3, <2>4
<1>7. Blank' /\ Pending' /\ DoneMeansBuilt'
  BY <1>2 DEF Blank, Pending, DoneMeansBuilt
<1> QED
  BY <1>1, <1>4, <1>5, <1>6, <1>7

\* A crash leaves at most a file behind that is gone or torn.
LEMMA DieRun == RunInv /\ Die => RunInv'
<1> SUFFICES ASSUME RunInv, Die PROVE RunInv'
  OBVIOUS
<1> USE DEF RunInv
<1>1. NetworkInv' /\ phase' = "off" /\ UNCHANGED <<kind, status, memo, image, sound>>
  BY DieKeeps DEF Die, memoryVars
<1>2. Made'
  <2>1. CASE UNCHANGED <<clock, ctime, whole, torn>>
    BY <1>1, <2>1 DEF Made, OtherKind
  <2>2. CASE phase = "working" /\ kind[active] = "write" /\ WriteLeaves
    <3>1. active \in Step /\ memo[active] = "idle"
      BY <2>2, SearchedDown DEF Pending, NetworkInv
    <3>2. CASE ctime' = [ctime EXCEPT ![active] = 0] /\ UNCHANGED <<clock, whole, torn>>
      BY <1>1, <2>2, <3>1, <3>2 DEF Made, OtherKind, NetworkInv, TypeOK
    <3>3. CASE NewFile(FALSE) /\ torn' = torn \cup {active}
      <4>1. /\ \A s \in Step : s # active => ctime'[s] = ctime[s]
            /\ whole' = whole \ {active}
        BY <3>3 DEF NewFile, With, NetworkInv, TypeOK
      <4> QED
        BY <1>1, <2>2, <3>1, <3>3, <4>1 DEF Made, OtherKind
    <3> QED
      BY <2>2, <3>2, <3>3 DEF WriteLeaves
  <2> QED
    BY <2>1, <2>2 DEF Die
<1> QED
  BY <1>1, <1>2 DEF Blank, Pending, Remembered, Fresh, DoneMeansBuilt, Running

---------------------------------------------------------------------------
\* The theorems about the runs

\* Whatever the network, the crashes and the replaced files, what the program
\* and its files remember is justified.
THEOREM RunInvariant == Spec => []RunInv
<1>1. RunInv /\ [Next]_vars => RunInv'
  BY StutterRun, ParseRun, BeginRun, PickRun, EndRunRun, WorkRun, DieRun, RestartRun, TouchRun
     DEF Next, Process
<1> QED
  BY <1>1, RunInit, PTL DEF Spec

\* A step that reports complete has an image made in order, from the images of
\* precursors that were complete then, or work somewhere below it broke off half
\* way (ProcessingStep.cpp:453-515, WritableFileImageStep.cpp:36-191,
\* ImageCalibrationStep.cpp:133-159).
THEOREM CompleteSound == Spec => []CompleteIsSound
<1>1. RunInv => CompleteIsSound
  BY MadeIsSound DEF RunInv
<1> QED
  BY <1>1, RunInvariant, PTL

\* When process() returns, every step nothing depends on is complete, unless it
\* could not be built (ProcessorNetwork.cpp:152-198).
THEOREM DoneBuilt == Spec => []DoneMeansBuilt
<1>1. RunInv => DoneMeansBuilt
  BY DEF RunInv
<1> QED
  BY <1>1, RunInvariant, PTL

\* A terminal file that counts as complete is remembered to be fresh, or found
\* up to date by the last search.
LEMMA RunIsFresh == RunInv => OutputsFresh
<1> SUFFICES ASSUME RunInv, phase = "done", NEW t \in terminals,
                    kind[t] = "write", Status[t] = "complete",
                    \A b \in Below(t) : \/ kind[b] \in {"calib", "plain"}
                                        \/ kind[b] = "file" /\ precursors[b] = {}
             PROVE  \A b \in Below(t) : ctime[b] < ctime[t]
  BY DEF OutputsFresh
<1> USE DEF RunInv
<1>1. ~Cyclic /\ t \in Searched
  BY SearchedDown DEF Pending, NetworkInv
<1>2. FromSources(t)
  BY DEF FromSources, Passing, IsSource
<1>3. memo[t] = "complete" \/ UpToDate(t)
  BY <1>1, WriteCases
<1> QED
  BY <1>1, <1>2, <1>3, UpToDateIsFresh DEF Fresh, Running

\* When process() returns, a written file is younger than every source it was
\* made from, provided that no other file lies in between
\* (WritableFileImageStep.cpp:57-88, ProcessingStep.cpp:421-448).
THEOREM OutputsAreFresh == Spec => []OutputsFresh
  BY RunIsFresh, RunInvariant, PTL
=============================================================================
