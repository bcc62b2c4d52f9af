--------------------------- MODULE NetworkParser ---------------------------
(***************************************************************************)
(* Building a processing network from its XML description:                 *)
(* src/control/lib/processing/ProcessorParser.cpp, ParserSteps.cpp, the    *)
(* Parse*.cpp files next to them, and the links and the registry of steps  *)
(* in ProcessingStep.cpp and ProcessingStatic.cpp.                         *)
(*                                                                         *)
(* libxml2 calls startElement() and endElement() for a well nested         *)
(* document.  Both swallow every exception, so an element that is refused  *)
(* still gets its endElement() call.  The precursors and successors of a   *)
(* step are sets here: their order only decides which of several steps     *)
(* that need work comes first.                                             *)
(***************************************************************************)
EXTENDS Integers, Sequences

CONSTANTS
  MaxStep,    \* bound on the steps a document creates
  MaxExtra,   \* bound on its refused elements and <image> references
  Kind        \* the kinds of steps it creates

ASSUME ParserAssumption == MaxStep \in Nat /\ MaxExtra \in Nat

Step == 1..MaxStep
Phase == {"parse", "undefined", "loop", "working", "done", "off"}
NoKind == "none"  \* of a step that is not registered
Refused == 0  \* what an element without a step on the stack is in document

VARIABLES
  phase,       \* what the program does: parse, then see ProcessorNetwork
  born,        \* _process_id, the id of the youngest step
  kind,        \* the class of each registered step
  known,       \* _allsteps of the registry, the same steps as _steps of the network
  precursors,  \* _precursors of each step
  successors,  \* _successors of each step
  stepstack,   \* _stepstack
  document,    \* the open elements of the document, outermost first
  extra,       \* refused elements and references so far
  refused      \* history: an element was refused before it reached the stack

linkVars == <<known, precursors, successors>>
docVars == <<stepstack, document>>
parserVars == <<phase, born, kind, linkVars, docVars, extra, refused>>

Top(s) == s[Len(s)]
Pop(s) == SubSeq(s, 1, Len(s) - 1)

ParserInit ==
  /\ phase = "parse" /\ born = 0
  /\ kind = [s \in Step |-> NoKind]
  /\ known = {}
  /\ precursors = [s \in Step |-> {}] /\ successors = [s \in Step |-> {}]
  /\ stepstack = <<>> /\ document = <<>>
  /\ extra = 0 /\ refused = FALSE

\* The elements on top of which a new element may attach itself: none at the
\* outermost level, else the step below it on the stack.  pop() and push() keep
\* _parent equal to it.
Parent == IF stepstack = <<>> THEN {} ELSE {Top(stepstack)}

\* add_precursor() refuses if the step that gets the precursor is not registered.
MayAttachSlip == TRUE
MayAttach == Parent \subseteq known

\* add_precursor() for one step and a set of precursors, both ways.
LinkedSlip(prec, succ, s, P) ==
  [p |-> [prec EXCEPT ![s] = @ \cup P], s |-> succ]
Linked(prec, succ, s, P) ==
  [p |-> [prec EXCEPT ![s] = @ \cup P],
   s |-> [t \in Step |-> IF t \in P THEN succ[t] \cup {s} ELSE succ[t]]]

\* An element creates a step, pushes it and calls startCommon(), which makes it
\* a precursor of the enclosing step, registers it, and adds the steps its
\* attributes refer to by name; the "image" attribute may even name itself.
StartStep ==
  LET new == born + 1 IN
  /\ phase = "parse" /\ born < MaxStep
  /\ MayAttach
  /\ \E refs \in {{}} \cup {{r} : r \in known \cup {new}} :
       LET up == IF Parent = {}
                 THEN [p |-> precursors, s |-> successors]
                 ELSE Linked(precursors, successors, Top(stepstack), {new})
           all == Linked(up.p, up.s, new, refs)
       IN precursors' = all.p /\ successors' = all.s
  /\ born' = new
  /\ \E k \in Kind : kind' = [kind EXCEPT ![new] = k]
  /\ known' = known \cup {new}
  /\ stepstack' = Append(stepstack, new)
  /\ document' = Append(document, new)
  /\ UNCHANGED <<phase, extra, refused>>

\* The start fails between push() and the registration: a reference to a step
\* that does not exist, or an enclosing step that is not registered.
StartOrphan ==
  /\ phase = "parse" /\ born < MaxStep
  /\ MayAttach => extra < MaxExtra
  /\ extra' = IF MayAttach THEN extra + 1 ELSE extra
  /\ born' = born + 1
  /\ stepstack' = Append(stepstack, born + 1)
  /\ document' = Append(document, born + 1)
  /\ UNCHANGED <<phase, kind, linkVars, refused>>

\* An unknown element, or one without an attribute it needs, is refused before
\* push().
StartRefused ==
  /\ phase = "parse" /\ extra < MaxExtra
  /\ extra' = extra + 1
  /\ document' = Append(document, Refused)
  /\ refused' = TRUE
  /\ UNCHANGED <<phase, born, kind, linkVars, stepstack>>

\* <image ref="s">: s becomes a precursor of the top of the stack and goes onto
\* the stack again.  If the top is not registered, add_successor() throws after
\* the first of the two links is made.
StartImage ==
  /\ phase = "parse" /\ extra < MaxExtra /\ stepstack # <<>>
  /\ \E s \in known :
       LET t == Top(stepstack) IN
       /\ precursors' = [precursors EXCEPT ![t] = @ \cup {s}]
       /\ IF t \in known
          THEN /\ successors' = [successors EXCEPT ![s] = @ \cup {t}]
               /\ stepstack' = Append(stepstack, s)
               /\ document' = Append(document, s)
               /\ UNCHANGED refused
          ELSE /\ document' = Append(document, Refused)
               /\ refused' = TRUE
               /\ UNCHANGED <<successors, stepstack>>
  /\ extra' = extra + 1
  /\ UNCHANGED <<phase, born, kind, known>>

\* With an empty stack startImage() dereferences the top() of an empty
\* std::stack.
StartImageCrash ==
  /\ phase = "parse" /\ extra < MaxExtra
  /\ stepstack = <<>> /\ known # {}
  /\ phase' = "undefined"
  /\ UNCHANGED <<born, kind, linkVars, docVars, extra, refused>>

\* endCommon() takes the top off the stack, whatever element has ended; with
\* an empty stack it throws.
EndElementSlip ==
  /\ phase = "parse" /\ document # <<>>
  /\ document' = Pop(document)
  /\ stepstack' = IF Len(stepstack) < 2 THEN stepstack ELSE Pop(stepstack)
  /\ UNCHANGED <<phase, born, kind, linkVars, extra, refused>>
EndElement ==
  /\ phase = "parse" /\ document # <<>>
  /\ document' = Pop(document)
  /\ stepstack' = IF stepstack = <<>> THEN <<>> ELSE Pop(stepstack)
  /\ UNCHANGED <<phase, born, kind, linkVars, extra, refused>>

\* </process>
EndProcess ==
  /\ phase = "parse" /\ document = <<>>
  /\ phase' = "loop"
  /\ UNCHANGED <<born, kind, linkVars, docVars, extra, refused>>

ParserNext ==
  \/ StartStep \/ StartOrphan \/ StartRefused
  \/ StartImage \/ StartImageCrash \/ EndElement \/ EndProcess

ParserSpec == ParserInit /\ [][ParserNext]_parserVars

---------------------------------------------------------------------------
ParserTypeOK ==
  /\ phase \in Phase /\ refused \in BOOLEAN
  /\ born \in 0..MaxStep /\ extra \in 0..MaxExtra
  /\ kind \in [Step -> Kind \cup {NoKind}]
  /\ known \in SUBSET Step
  /\ precursors \in [Step -> SUBSET Step]
  /\ successors \in [Step -> SUBSET Step]
  /\ stepstack \in Seq(Step)
  /\ document \in Seq(Step \cup {Refused})

\* The links of registered steps are mutual, also when a start failed half way
\* (add_precursor() and add_successor() at ProcessingStep.cpp:104-145 and
\* startImage() at ParseImage.cpp:31-32): terminals() finds the steps to
\* process through the successors, status() decides through the precursors.
LinksMutual ==
  \A s, t \in known : t \in precursors[s] <=> s \in successors[t]

\* The links never point to a step that byid() does not find, which status()
\* would call through a null pointer (ProcessingStep.cpp:382, :467).
LinksRegistered ==
  \A s \in Step : precursors[s] \subseteq known /\ successors[s] \subseteq known

\* As long as no element was refused before it reached the stack, the stack is
\* the path of open elements, so that every element becomes a precursor of the
\* one that encloses it (ParserSteps.cpp:118-128, ProcessorParser.cpp:226-246).
StackIsPath == refused \/ stepstack = document
=============================================================================
