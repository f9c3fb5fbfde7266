--------------------------- MODULE DriverInvariant --------------------------
(***************************************************************************)
(* The inductive invariant of module Driver: what the safety properties    *)
(* rest on, in parts that are preserved together.                          *)
(***************************************************************************)
EXTENDS DriverProperties

ImportsOf(o) == sources[o].imports
Parsed(o)    == sources[o].parsedMod # NIL

\* Nothing has ever been done with object o.
Fresh(o) == ~Parsed(o) /\ ~sources[o].isNodeImported /\ ImportsOf(o) = <<>>

\* Two objects share a path only when both are inputs: a file is imported
\* only while its path is not registered.
OneObjectPerFile ==
  \A o, q \in Obj : o # q /\ sources[o].path = sources[q].path
                      => sources[o].parent = 0 /\ sources[q].parent = 0

\* The inputs are the roots of the forest, each listed once; while the command
\* line is read there is nothing else.
InputsAreRoots ==
  /\ \A i \in 1 .. Len(inputs) : inputs[i] \in Obj /\ sources[inputs[i]].parent = 0
  /\ NoRepeat(inputs)
  /\ \A i \in cur + 1 .. Len(inputs) : Fresh(inputs[i])
  /\ phase = "arguments" =>
       cur = 0 /\ \A o \in Obj : sources[o].parent = 0 /\ Fresh(o)

\* Where the program is: a parse is under way only in phase "parsing", and an
\* import statement is half done only in the innermost module.
Control ==
  /\ phase # "parsing" => stack = <<>>
  /\ phase \in {"parsing", "analysis"} => cur > 0
  /\ climb # NIL \/ dirs # <<>> =>
       stack # <<>> /\ thrown = NIL /\ Top.stmt < Len(Stmts)
  /\ climb # NIL => dirs = <<>> /\ Named \in Name

\* The call stack: the current input at the bottom, above every parse the one
\* of the import it has reached; nobody on the stack is parsed yet.
Calls ==
  /\ stack # <<>> => stack[1].src = inputs[cur]
  /\ \A k \in 1 .. Len(stack) :
        LET f == stack[k] IN
        /\ f.src \in Obj
        /\ ~Parsed(f.src)
        /\ f.stmt <= Len(program[sources[f.src].path].imports)
        /\ f.next <= Len(ImportsOf(f.src))
        /\ k < Len(stack) \/ f.next > 0
             => f.stmt = Len(program[sources[f.src].path].imports)
        /\ k < Len(stack) =>
             f.next < Len(ImportsOf(f.src)) /\ ImportsOf(f.src)[f.next + 1] = stack[k + 1].src
  /\ \A k, l \in 1 .. Len(stack) : k < l => stack[k].src < stack[l].src

\* Nothing has been done with the imports a parse has not reached.
ImportsWaiting ==
  \A k \in 1 .. Len(stack) :
    LET f == stack[k] IN
    \A i \in f.next + (IF k < Len(stack) THEN 2 ELSE 1) .. Len(ImportsOf(f.src)) :
      Fresh(ImportsOf(f.src)[i])

\* The modules being built hold parsed imports, each of them once, and none of
\* them twice among all of them; a finished module holds no file twice.
Items ==
  /\ \A k \in 1 .. Len(stack) :
        /\ NoRepeat(stack[k].items)
        /\ \A o \in Listed(stack[k].items) :
              o \in Obj /\ Parsed(o) /\ sources[o].parent # 0
  /\ \A k, l \in 1 .. Len(stack) :
        k # l => Listed(stack[k].items) \cap Listed(stack[l].items) = {}
  /\ \A o \in Obj : Parsed(o) =>
        /\ Listed(sources[o].parsedMod) \subseteq Obj
        /\ \A i, j \in 1 .. Len(sources[o].parsedMod) :
              sources[sources[o].parsedMod[i]].path = sources[sources[o].parsedMod[j]].path
                => i = j

\* The invariant that is inductive: everything the loader's correctness needs.
IInv ==
  /\ TypeOK
  /\ Forest
  /\ OneObjectPerFile
  /\ InputsAreRoots
  /\ Control
  /\ Calls
  /\ ImportsWaiting
  /\ Items
=============================================================================
