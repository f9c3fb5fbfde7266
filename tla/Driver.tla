------------------------------- MODULE Driver -------------------------------
(***************************************************************************)
(* Driver::main: the command line, and the loop that compiles one input    *)
(* after another until one of them gets through.  It composes the loader   *)
(* of module Imports with what the driver does before and after it.        *)
(*                                                                         *)
(* Every input of the command line becomes a SourceFile, and is registered *)
(* in all_sources, before the first one is parsed.  Semantic analysis and  *)
(* lowering are one step here: they throw, or the process exits with 22,   *)
(* the `todo' that NodeLower::lower_full ends in.                          *)
(***************************************************************************)
EXTENDS Imports

CONSTANT ArgLists    \* the command lines considered

\* A command line argument is the path of an input, a known option, or an
\* unknown one.
Argument == Path \cup {"--print-ast", "--unknown"}

ASSUME ArgsAssumption ==
  /\ Path \cap {"--print-ast", "--unknown"} = {}
  /\ ArgLists \subseteq Seq(Argument)

VARIABLES
  args,     \* the arguments not yet looked at
  inputs,   \* Driver::inputs
  cur,      \* how many inputs have been started
  phase     \* where in Driver::main the program is

driverVars == <<args, inputs, cur, phase>>
vars == <<program, sources, allSources, stack, climb, dirs, thrown, exitCode,
          args, inputs, cur, phase>>

Init ==
  /\ ImportsInit
  /\ args \in ArgLists
  /\ inputs = <<>>
  /\ cur = 0
  /\ phase = "arguments"

At(ph) == phase = ph /\ exitCode = NIL /\ thrown = NIL
-----------------------------------------------------------------------------
\* An option: the print flags change nothing the compilation depends on, an
\* unknown one ends the program.
ReadOption ==
  /\ At("arguments") /\ args # <<>> /\ Head(args) \notin Path
  /\ IF Head(args) = "--unknown"
     THEN Exit(-1) /\ UNCHANGED args
     ELSE args' = Tail(args) /\ UNCHANGED exitCode
  /\ UNCHANGED <<program, sources, allSources, stack, climb, dirs, thrown,
                 inputs, cur, phase>>

\* Mutant of OpenInput: a path that is registered keeps its first object.
OpenInputKeepFirst ==
  /\ At("arguments") /\ args # <<>> /\ Head(args) \in Path
  /\ Head(args) \notin Unreadable
  /\ sources' = Append(sources, NewSource(Head(args), 0))
  /\ allSources' = IF Known(Head(args)) THEN allSources
                   ELSE [allSources EXCEPT ![Head(args)] = Len(sources) + 1]
  /\ inputs' = Append(inputs, Len(sources) + 1)
  /\ args' = Tail(args)
  /\ UNCHANGED <<program, stack, climb, dirs, thrown, exitCode, cur, phase>>

\* new SourceFile(arg): registered without a look at who else has the path.
OpenInput ==
  /\ At("arguments") /\ args # <<>> /\ Head(args) \in Path
  /\ IF Head(args) \in Unreadable
     THEN Exit(1) /\ UNCHANGED <<sources, allSources, args, inputs>>
     ELSE /\ sources' = Append(sources, NewSource(Head(args), 0))
          /\ allSources' = [allSources EXCEPT ![Head(args)] = Len(sources) + 1]
          /\ inputs' = Append(inputs, Len(sources) + 1)
          /\ args' = Tail(args)
          /\ UNCHANGED exitCode
  /\ UNCHANGED <<program, stack, climb, dirs, thrown, cur, phase>>

\* The command line is read; there is at least one input, or the program ends.
ArgumentsRead ==
  /\ At("arguments") /\ args = <<>>
  /\ IF inputs = <<>> THEN Exit(-1) /\ UNCHANGED phase
                      ELSE phase' = "next" /\ UNCHANGED exitCode
  /\ UNCHANGED <<program, sources, allSources, stack, climb, dirs, thrown,
                 args, inputs, cur>>

\* The loop takes the next input: source->lex() and source->parse().
StartInput ==
  /\ At("next") /\ cur < Len(inputs)
  /\ cur' = cur + 1
  /\ phase' = "parsing"
  /\ IF sources[inputs[cur + 1]].parsedMod # NIL
     THEN UNCHANGED <<stack, thrown, exitCode>>
     ELSE CallParse(inputs[cur + 1])
  /\ UNCHANGED <<program, sources, allSources, climb, dirs, args, inputs>>

\* No input is left: every one of them failed.
AllFailed ==
  /\ At("next") /\ cur = Len(inputs)
  /\ Exit(1)
  /\ UNCHANGED <<program, sources, allSources, stack, climb, dirs, thrown, driverVars>>

\* One step of the loader.
Load == ImportsNext /\ UNCHANGED driverVars

\* Mutant of Catch: a failed input takes the registry with it.
CatchForgets ==
  /\ exitCode = NIL /\ thrown # NIL
  /\ thrown' = NIL
  /\ stack' = <<>>
  /\ phase' = "next"
  /\ allSources' = [p \in Path |-> 0]
  /\ UNCHANGED <<program, sources, climb, dirs, exitCode, args, inputs, cur>>

\* An exception unwinds every parse under way and is printed; what was
\* registered, imported or cached on the way stays.
Catch ==
  /\ exitCode = NIL /\ thrown # NIL
  /\ thrown' = NIL
  /\ stack' = <<>>
  /\ phase' = "next"
  /\ UNCHANGED <<program, sources, allSources, climb, dirs, exitCode, args, inputs, cur>>

\* The module is there: it must have a main of its own, with a result type.
CheckMain ==
  /\ At("parsing") /\ stack = <<>>
  /\ IF program[sources[inputs[cur]].path].main = "typed"
     THEN phase' = "analysis" /\ UNCHANGED exitCode
     ELSE Exit(-1) /\ UNCHANGED phase
  /\ UNCHANGED <<program, sources, allSources, stack, climb, dirs, thrown,
                 args, inputs, cur>>

\* Sema::analyze_all reports an error, or lowering is reached.
AnalysisFails ==
  /\ At("analysis")
  /\ Throw("sema_error")
  /\ UNCHANGED <<program, sources, allSources, stack, climb, dirs, exitCode, driverVars>>

LowerFull ==
  /\ At("analysis")
  /\ Exit(22)
  /\ UNCHANGED <<program, sources, allSources, stack, climb, dirs, thrown, driverVars>>

Next ==
  \/ ReadOption
  \/ OpenInput
  \/ ArgumentsRead
  \/ StartInput
  \/ AllFailed
  \/ Load
  \/ Catch
  \/ CheckMain
  \/ AnalysisFails
  \/ LowerFull

Spec     == Init /\ [][Next]_vars
FairSpec == Spec /\ WF_vars(Next)
-----------------------------------------------------------------------------
(***************************************************************************)
(* Types.                                                                  *)
(***************************************************************************)
TypeOK ==
  /\ program \in [Path -> Text]
  /\ sources \in Seq(SourceFile)
  /\ allSources \in [Path -> Nat]
  /\ stack \in Seq(Frame)
  /\ climb \in Folder \cup {NIL}
  /\ dirs \in Seq(SUBSET (Path \cup Folder))
  /\ thrown \in Exception \cup {NIL}
  /\ exitCode \in ExitCode \cup {NIL}
  /\ args \in Seq(Argument)
  /\ inputs \in Seq(Nat)
  /\ cur \in 0 .. Len(inputs)
  /\ phase \in {"arguments", "next", "parsing", "analysis"}
=============================================================================
