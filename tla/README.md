# Verification of the fire compiler

The repository is the front end of the fire language: a driver, a lexer, a
recursive-descent parser with an import system, semantic analysis and a stub of
a lowering pass (`src/src`, `src/include`).  This directory holds TLA+ models of
its parts, the TLC runs that check them on small instances, and TLAPS proofs
about them.  Paths below are relative to the repository (`src/Parser.cpp` is
`src/src/Parser.cpp` in `PROJECT.json`).

## The system

The compiler is one sequential process.  What makes it hard is not concurrency
but shared, mutable, global state: a registry of source files that outlives a
failed input, syntax nodes that several modules point to, nested parses that
iterate over vectors other parses could grow, and exceptions that unwind all of
it half done.

| Component | State | Operations | Interacts with | What makes it correct |
|---|---|---|---|---|
| Driver (`Driver.cpp`) | arguments, `inputs`, `cwd`, exit code | read the command line, open the inputs, compile one after another, catch | creates SourceFiles, calls lex, parse, analyze_all, lower_full | it exits; a failed input does not spoil the next |
| SourceFile and `all_sources` (`SourceFile.cpp`) | path, parent, imports, `is_node_imported`, `parsed_mod`; the registry | construct, import, import_directory, lex, parse, get_depth | called by Driver and Parser, calls Parser | one object per imported file, a forest of importers, cached results are final |
| Parser: imports (`Parser.cpp` 819-922) | current token, module being built | ps_import, ps_do_import, ps_mod | calls SourceFile::import and ::parse, which calls Parser again | no re-entrance, each file's items once, nothing missing, depth limit, search ends |
| Parser: assembly (`Parser.cpp` 924-1006) | item lists of modules and namespaces | merge_namespaces, reorder_items | nodes shared with the imported modules | nothing lost, doubled, moved, or used after delete; fully merged |
| Parser: items, statements, expressions (`Parser.cpp` 13-817) | token position and token texts | one function per construct; backtracking in ps_symbol | Lexer's token list | the tree means what the text says; backtracking leaves no trace |
| Lexer (`Lexer.cpp`, `Token.cpp`) | position, token list | lex, tokenize | reads the text of a SourceFile | every legal text is split, longest punctuator first |
| Scope tree (`Sema_Scopes.cpp`) | scopes, symbol tables, `scope_ptr`, `symbol_ptr` | one constructor per kind of scope | annotates the tree the parser built | every construct that declares names has its scope |
| Lookup and resolution (`Sema.cpp`, `Sema_NameResolver.cpp`) | `symbol_ptr` of names, visitor context | find_symbol, on_* | reads scopes | a name resolves to its innermost declaration or to none |
| Type checker (`Sema_TypeChecker.cpp`) | cached types of nodes, deduced types of variables | eval_expr_ty, eval_typename_ty, check_*, compare_arguments | reads symbols | calls and declarations agree in number and type |
| `fire::string` (`string.cpp`) | buffer, length, capacity | append, append_str, clone, move, take over | none yet | never writes past the buffer |
| Conversions (`strconv.cpp`) | none | UTF-8 to UTF-16 and back | called for literals | agree with the encodings, stay within the bounds |

`PROJECT.json` lists the components with what is modelled of each, and under
`hazards` the places in the code that are hard to test, with the properties
that cover them or the reason why none does.

## Modules

| Module | What it is |
|---|---|
| `FileTree` | the files a compilation sees, as constants; reference definitions of what an import names |
| `Imports` | SourceFile, the registry, ps_import, ps_do_import, the import loop of ps_mod |
| `Driver` | Driver::main, composed with `Imports`; `TypeOK` |
| `DriverProperties` | the safety, step and liveness properties of the loader |
| `DriverInvariant` | the inductive invariant `IInv` of its control, heap and call stack |
| `LoadingInvariant` | the inductive invariant `LoadInv` of what has been loaded |
| `DriverProofs`, `LoadingProofs` | theorems about `Driver`, from the one and from the other |
| `Lists` | what a sequence holds, whether it repeats anything |
| `ListProofs` | lemmas for all components: sequences, numbers, induction, recursive functions |
| `MCLoader` | a file tree, programs and command lines for TLC |
| `Namespaces` | splicing, merge_namespaces, reorder_items over a heap of nodes |
| `NamespacesProperties`, `NamespacesInvariant` | their properties; the inductive invariant |
| `NamespacesProofs` | theorems about `Namespaces` |
| `MCNamespaces` | every small program, for TLC |
| `Parser` | the recursive descent over a token list, as instructions still to be carried out |
| `ParserProperties`, `MCParser` | its properties; small programs, whole and damaged |
| `ParserProofs` | theorems about `Parser` |
| `Lexer` | lex and tokenize, character by character, with the punctuator table |
| `Transcoding` | strconv: counting and writing UTF-8 and UTF-16 |
| `Text` | a text through the lexer, and its literals through the conversions to their objects and back; composes `Lexer` and `Transcoding` |
| `TextProperties`, `MCText` | their properties; short texts for TLC |
| `TextInvariant`, `TextProofs` | the inductive invariant of `Text`; theorems about it |
| `SyntaxTree` | syntax trees, as far as names, scopes and types depend on them |
| `Scopes` | the constructors that build the scope tree |
| `Resolver` | find_symbol and NameResolver, composed with `Scopes` |
| `NameMeaning` | what a name means, by the tree alone |
| `LexicalScoping` | abstract: names get their meanings, or some offence ends it |
| `ResolverProperties` | the properties of `Resolver`, the refinement among them |
| `ResolverInvariant`, `ResolverProofs` | the inductive invariant of `Resolver`; theorems about it |
| `Types` | the type checker, composed with `Resolver` |
| `TypesProperties` | what an accepted program is like, and what the checker crashes on |
| `SmallTrees` | how the instances write syntax trees as terms |
| `MCResolver`, `MCTypes` | small programs about names and about types |
| `StringValue` | abstract: strings as values |
| `StringBuffer` | `fire::string` with its blocks of memory |
| `StringProperties`, `MCString` | its invariant, liveness and refinement; an instance |
| `StringProofs` | theorems about `StringBuffer` |

### The loader: `FileTree`, `Imports`, `Driver`

State and code:

- `sources` are the SourceFile objects in order of creation, an object being its
  index: `path`, `parent` (0 for null), `imports`, `isNodeImported`, `parsedMod`.
- `allSources` is the registry of `SourceFile.cpp:13`.
- `stack` is the C++ call stack of nested `SourceFile::parse` calls; a frame has
  the import statements read (`stmt`), how many of `source.imports` have been
  gone through (`next`) and the module so far (`items`).  A module is the
  sequence of the objects that contributed a block of items to it.
- `climb` is the folder the search of `ps_import` has reached, `dirs` the
  directory iterators of `import_directory`, `thrown` the exception in flight,
  `exitCode` the argument of `exit` or the result of `main`.
- `args`, `inputs`, `cur`, `phase` belong to `Driver::main`.

Actions: an import statement is one of `ImportFile`, `ImportDirectory`,
`ImportPlain` (a path that exists and is no directory: nothing happens),
`ImportMissing` (cannot_open_file is caught and the search begins) and
`ImportIllFormed`; then `Climb`, one turn of the search; `DirectoryEntry` and
`DirectoryDone`, with the entries in any order; `SpliceNext`, one turn of the
import loop, which may call `parse` in its turn; `ReadItems`, a file's own items
and the return.  The driver adds `ReadOption`, `OpenInput`, `ArgumentsRead`,
`StartInput`, `AllFailed`, `Catch`, `CheckMain`, `AnalysisFails`, `LowerFull`.

Abstractions: the text of a file is its list of import statements, the one way
in which the rest of it goes wrong (`Fault`) and whether it declares `main`.
Semantic analysis is one step that throws or not; lowering is the `todo` it is,
which exits with 22.  The file tree is a constant: nothing writes files.  Paths
are whole strings; two spellings of one file would be two paths.

### Module assembly: `Namespaces`

`items` is the heap: the list of each namespace and module node.  Modules hold
the same pointers as the modules they import, so one node may be in several
lists; `freed` are the deleted ones.  `calls` is the stack of recursive calls
with the loop position of each, the flag of `merge_namespaces` and the number of
its pass.  `SpliceModule` and `OwnItems` are ps_mod; `Merge`, `NoDuplicate`,
`ScanEnds` the first loop with its `goto`; `Reorder` the five loops of
reorder_items; `Descend` and `Return` the recursion of both functions.  In which
order modules are parsed and that each is spliced once is taken from the
loader, where `NoReentrantParse` and `MergedOnce` are proved.

### Names: `SyntaxTree`, `Scopes`, `Resolver`, `NameMeaning`, `LexicalScoping`

`program` is the tree: the kind and name of each node and the nodes below it.
For the resolver an expression is the names in it.  A scope and a symbol are named by
the node they belong to: `parent` and `symtable` are the fields of the scope of
a node, `letSymbol` and `symbolPtr` the `symbol_ptr` of declarations and names.
`todo` is the rest of the depth-first walk: the calls still to be made, each
with the context it gets by value (`cur_scope`, `loop_depth`).  `Scopes` has an
action for each constructor in use, `Resolver` one for each kind of node that
the resolver treats in a way of its own; `OnSymbol` is find_symbol with its
three exceptions and the read through a null scope, which is `thrown =
"segfault"`.

`NameMeaning` has no scopes, tables or order.  It defines on the tree what
each construct declares, where that is known and what a qualified name means.
The steps of `LexicalScoping` give some name its meaning, give up because of some offence, or finish
when nothing is left.  `ImplementsLexicalScoping` maps `symbolPtr` to `meaning`,
`thrown` to `givenUp` and `phase = "done"` to `finished`.  The places where the
code departs from what one expects of lexical scoping are named there: `Blind`
are the blocks without a scope.

### Types: `Types`

The type checker runs over the same tree after the resolver.  `ty` is the type
cached in each node, `varType` that of each variable, `printed` says that some
error has been printed only.  `todo` is again the rest of the walk.  A statement
is one action (`CheckLet`, `CheckFor`, `CheckExpr`, ...), since nothing can come
between the evaluations inside one; the operator `EvalExpr` is eval_expr_ty and
yields a record of everything that evaluation does: type, exception, whether an
error was printed, the enumerator written through `enumerator_node_out`, and the
nodes that get a type, in the order and under the conditions of the code.  The
`todo` macro is one of the exceptions.  Reads outside a vector (a missing
argument, a tuple element, a bare `List`) are `"out_of_range"`, a failed
assertion is `"assertion"`, a null pointer that is followed is `"segfault"`, all
of them ends of the run: what the build makes of them is not modelled.  The
checker, unlike the scope constructors, walks into the branches of an else-if:
a declaration there has no symbol (`CheckUnknown`), a `for` no scope to hold its
variable (`CheckFor`).

`AcceptedIsWellTyped` states the typing rules on the finished tree, with no
order, cache or context in them: a variable has the type of its latest
declaration before the name.  Of an operator it takes the left operand alone, as
the code does.  `CrashesAreKnown` lists the programs on which the checker itself
goes wrong, those that are legal and those that should be rejected; which nodes
stand in an else-if it reads from the tree, not from `parent`.

### Tokens to tree: `Parser`

`input` is the token list, `cur` the position, `split` the `>>` tokens whose text
has been cut to `>`, `made` the nodes with kind, extent and operator.  Each
function of the parser is a sequence of instructions (expect, eat, look ahead,
call, make a node); `todo` holds those still to be run, so a call pushes a
body, and the exception that ps_symbol catches unwinds to the attempt in
`todo` (`DoAttempt`, `Fail`).  `lost` records the halves of `>>` that an attempt
has left behind.  Token texts are the tokens themselves; names, fields of nodes
and attributes are left out.  `Parser` defines the tables of texts (`:>`, `@@`) as the
standard module TLC does, whose operators the prover does not know.

### Characters to tokens and objects: `Lexer`, `Transcoding`, `Text`

A text is a sequence of characters, those of one class standing for each other.
`Lex` is one turn of the loop of lex(): skipping and one token.  A literal is
then read by the parser (`ReadLiteral`), converted to UTF-16 in the two passes of
strconv, first counting (`Count`) and then writing (`Write`) unit by unit, made an
object, and converted back for display.  The bytes are numbers and the decoders
are exact.  What lies behind the data of an ObjString, which has no terminating
zero, is a nondeterministic unit (`Behind`).

### Strings: `StringBuffer`, `StringValue`

`buffer`, `length`, `bufSize` are the members of each object, `allocated`, `size`,
`data` the heap.  An appending call is several steps: each doubling of
`_buf_size`, the new buffer, or running out of memory, and the write; `target`,
`text`, `grown` are the state of the call between them.  `short` is a history
variable: the strings that clone made, or whose growth failed.  `StringValue` has
only the characters of each string.

## Runs

All runs were sized so that each finishes within a minute or so.

| Run | Bounds | Shows |
|---|---|---|
| `loader_graphs` | 6 files in 4 folders, one input, every choice of up to two imports per file out of those that make diamonds, cycles, self-imports, imports of the importer's own directory, searches and plain files; chains past the depth limit | `TypeOK`, `Forest`, `NoReentrantParse`, `MergedOnce`, `NextImportIsFresh`, `Complete`, `DepthLimited`, `ImportsFrozenWhileSpliced`, `ParsedOnce` |
| `loader_inputs` | up to three inputs, duplicated, importing each other, one outside the start folder; files that fail in the lexer, in their items, by `todo`, by an unreadable file; unknown options | the inductive invariant `IInv`, `Complete`, `CannotOpenIsReal`, `Exits` |
| `loader_search` (violation) | as `loader_graphs` | `FoundIsImported` fails: what the search finds is not imported |
| `namespaces` | every program of at most 5 items, nested up to three deep, 2 names, over 1, 2 or 3 modules (chain and star) | `TypeOK`, `NoUseAfterFree`, `ListedOnce`, `ContentsKept`, `FullyMerged`, `SourceOrderKept`, `RestartIsIdle`, `AllReturned` |
| `resolver` | 2886 modules of at most 21 nodes: a function with statements nested three deep over two names and variables, arguments and globals that share them; qualified names of two and three parts over namespaces, classes, enums, functions and variables that share names | `TypeOK`, `ScopesFollowSyntax`, `NamesShareSymbols`, `ImplementsLexicalScoping` |
| `resolver_loops`, `resolver_if` (violations) | the same | `LoopBodiesSeeLocals`, `IfVariablesHaveSymbols` fail |
| `types` | 3133 modules of at most 26 nodes: every operation over six atoms and an argument of each of eight types; enumerators of every shape called with every list of up to two arguments; declared types against initialisers; one variable declared again in one block or two; loops, ifs, namespaces; loops, declarations and other statements, alone or nested, in the branches of an else-if and of a plain if | `AcceptedIsWellTyped`, `CrashesAreKnown` |
| `parser` | chains of three operators over 14 of them; nested angle brackets with `>`, `>>` and `,` in every place; two dozen expressions of other forms; 16 items, each also cut off at and without every token | `TypeOK`, `OperatorsBindByStrength`, `TypeArgumentsWherePossible`, `BothHalvesUsed`, `OnlyLastClassUnclosed` |
| `parser_compare` (violation) | the same | `ComparisonsAsCommented` fails |
| `text` | every text of up to six characters out of `/ * a` and newline, and of up to four out of a digit, a point, `f` and a space; operators of up to five characters; literals of one or two code points, the first and last of each length, and ill-formed sequences | `TypeOK`, `TokensFollowText`, `LongestPunctuators`, `WritesWhatItCounted`, `LiteralsKept` |
| `string` | 2 strings, 4 blocks, texts of up to two characters, strings of up to 4, a first buffer of 2: every sequence of calls | `BufferInv`, `AppendsEnd`, `ImplementsStringValue` |

Why the bounds are enough.  Loader: the depth limit is the code's own 4, and the
tree has a chain of five files, so it is met and exceeded; a diamond needs four
files, a cycle through a directory three, a search over two levels three
folders; two inputs suffice for one to lose imports to the other, and the third
shows a duplicate after a failure.  Namespaces: a third duplicate, a duplicate
that brings duplicates one level down, and a namespace whose parts come from
three files all fit in five items; two names are enough to have duplicates and
something between them.  Names: shadowing needs two declarations of one name
and a third scope that sees neither of them first; every compound statement
occurs inside every kind of block and around every simple statement.  Types: an
expression is evaluated from its parts, so depth two meets each rule with each
type of part, and a few deeper ones carry an enumerator out of an inner call; a
stale type needs two declarations and a use between and after them; in an
else-if each statement occurs alone, in a block, an if or a loop of its own, and
below one else-if or two.  Parser:
three operators are the least that can be grouped wrongly on both sides; a `>>`
can be lost only between two levels of angle brackets inside a third that fails.
Text: two comments and what stands before, between and behind them are six
characters; the boundaries of the encodings are in the list of code points.
Strings: one string that grows and one that is its copy; with four blocks
memory runs out in every state in which two strings own leftovers.

Deadlock is not checked: the compiler stops, with `exitCode` set or every module
returned.  That it gets there is `Exits` and `AllReturned`.

Fairness.  The specifications with liveness assume `WF_vars(Next)` and nothing
more: a sequential program that can take a step takes it.  No action is favoured
over another; the choices left (the order of directory entries, which syntax
error) are adversarial.  `StringBuffer` assumes `WF_vars(GoOn)`: a call that has
begun goes on; whether the program makes another call is open.

`PROJECT.json` gives for each property a mutant, a small change of a definition
as a plausible bug would make it, under which TLC finds the property violated.

## What is proved

The theorems hold for all values of the constants that satisfy the assumptions
named below.  Every inductive invariant was first checked by TLC on the
instances of the runs; that of the loader is the invariant of one.

### The loader

`DriverProofs` and `LoadingProofs` assume `TreeAssumption`,
`FoldersAssumption`, `ProgramAssumption` and `ArgsAssumption`: the types of the
constants, a depth limit above zero, a `NIL` that is nothing else, and that no
folder other than the topmost lies above itself (a parent folder has a shorter
path).  Nothing is assumed about sizes; the entries of directories may even form
cycles.

`DriverProofs` proves

- `Invariant`: `Spec => []IInv`
- `TypeCorrect`, `ForestHolds`, `NeverReentered`, `NeverMergedTwice`,
  `ImportsAreFresh`: `[]TypeOK`, `[]Forest`, `[]NoReentrantParse`,
  `[]MergedOnce`, `[]NextImportIsFresh`
- `CachedOnce`, `ImportsAreFrozen`: `ParsedOnce`, `ImportsFrozenWhileSpliced`

The argument.  None of the properties is inductive alone.  That the import loop
never meets a source whose parse is under way does not follow from what is on
the stack: it holds because a path is appended to somebody's imports only at the
moment its object is created (`Forest`: the imports of `o` are exactly the
objects with parent `o`, once each), because imports happen only while the
importer is innermost and has reached none of its own imports (`Calls`,
`Control`), and because nothing is done with an import before the loop reaches
it (`ImportsWaiting`).  So every parse on the stack is younger than the one
below it, and none is met twice.  Inputs break the rule that a path has one
object, since the driver overwrites registry entries; `OneObjectPerFile` and
`InputsAreRoots` say how far: only inputs share paths, and an input is in
nobody's imports.  With that, `Items` (the modules being built are made of
imported, finished objects, disjoint from each other) gives `MergedOnce` by path
and not only by object.

The proof is laid out the same way: lemmas about what a step of each kind does
to the heap (`HeapReturns`: a parse returns; `HeapOpens`: an object is made)
and to the control state (`ControlIdle`, `ControlBusy`), one lemma per group of
actions (`DriverSteps`, `StatementSteps`, `ImportStep`, `FileSteps`,
`ClimbSteps`, `SpliceSteps`), and the theorems from `InitInv`, `NextInv` and
`StutterInv`.

`LoadingProofs` proves

- `LoadingInvariantHolds`: `Spec => []LoadInv`
- `LoadingIsComplete`: `[]Complete`, a module that the compiler accepts has the
  items of everything reachable from it by imports, less what an earlier input
  holds
- `DepthIsLimited`: `[]DepthLimited`; `FailedSearchIsReal`: `[]CannotOpenIsReal`

`LoadInv` says what has been loaded at each moment: how far the search has
climbed (`Search`) and a directory has been read (`DirectoryRead`); that what a
statement names is registered when the statement is over (`StatementsRead`) and
that nothing else has an object (`NamedByImporter`); that an object past the
limit is never used, since the exception that its maker throws is the end of the
importer (`DeepOnesUnused`); and that a module has exactly the items of the
subtree of its object (`Assembled`).  `Complete` follows because a subtree of
the forest contains what is reachable and not foreign.  The reference definitions
are least fixed points and a recursive function.  A least fixed point is used
through four lemmas (`LeastClosed`, `LeastInduction`, `LeastSame`,
`LeastUnfolds`), the depth through `DepthExists` and `DepthUnique`, which exhibit
the function that its `CHOOSE` picks.  `EveryStep` sorts the steps of the loader
into five kinds (a parse continues, starts, completes, is abandoned with all the
others, or stays) on a heap that only grows (`Grown`), and each part of `LoadInv`
is shown over these kinds instead of over the actions.

### Module assembly

`NamespacesProofs` assumes `ProgramsAssumption`: finitely many nodes, each
written in one place by the parser, and each module spliced once, which is
`MergedOnce` of the loader; the nodes numbered as the parser meets them
(`NumberedInOrder`: a module's import statements come before its items, so all
of what it imports is parsed first); and modules parsed in the order of a walk
over a forest (`ParsedInOrder`), since SourceFile::import puts a file only into
the imports of the file that names it first (`SourceFile.cpp:44-50`).

- `Invariant`: `Spec => []IInv`; `TypeCorrect`: `[]TypeOK`
- `NeverUsedAfterFree`: `[]NoUseAfterFree`; `EachListedOnce`: `[]ListedOnce`
- `OnePassSuffices`: `[]RestartIsIdle`, the `goto` of merge_namespaces never finds
  anything to merge that the first pass left
- `MergedThroughout`: `[]FullyMerged`, no module that is parsed has two namespaces
  of one name side by side, on any level
- `NothingLost`: `[]ContentsKept`
- `InSourceOrder`: `[]SourceOrderKept`

The invariant: lists in use share nothing and hold nothing deleted
(`ListsDisjoint`), nor what a module has still to contribute (`OwnItemsWaiting`);
each call goes through a list in use, reached from the item that the call below
has just passed, and no list is gone through twice (`Calls`); and behind the
position of the first loop no namespace has its name again (`Scans`).  Nodes
carry the level on which they were written; a merge joins lists of one level,
which keeps the lists acyclic and is what induction over the levels needs
(`Levels`).  For `FullyMerged` the set of nodes with nothing left to merge below
them only grows: a call adds its owner when it returns (`Merged`, `TidyNodes`).
`ContentsKept` is about paths of names and not nodes, since namespaces of one
name are merged: `HoldsAll` says that what was below two of them is below the one
that stays.

That one list is in order (`Ascending`) is not inductive: a merge appends the
duplicate's list to that of the first, so whatever is in the one, on every level,
must come before whatever is in the other.  `InOrder` says so of any two
namespaces of one name in one list (`TwinsApart`, over all that lies `Under`
them).  A splice puts the lists of two modules behind each other: `ModulesInOrder`
keeps the modules that are parsed and not yet taken over apart in the same way, in
the order of their parses, and puts the one being parsed between its imports that
are still to come and all the others.  What the modules contribute themselves is
untouched until then (`AsWritten`), and of two items of one level all of the first
was written before all of the second (`WrittenApart`).  `Under` is a least fixed
point; `UnderFacts`, `UnderUnfolds` and `UnderOwner` are all that is used of it.

### Tokens to tree

`ParserProofs` assumes `TextsAssumption`: programs are finite sequences of texts with
the end marker at their end only (the lexer puts it there), it is none of the
punctuators and literals, and the brackets are punctuators (`Token.cpp`), no literals.

- `StaysInTokens`: `Spec => []TypeOK`, the cursor never leaves the tokens, only a `>>`
  is split, a node is made only of tokens that have been read, and holds at least one
  and its operator
- `BracketsAreClosed`: `Spec => []OnlyLastClassUnclosed`, a program that is parsed
  closes every bracket it opens, but for the one of a class at its very end

The first.  That a rule never passes the end marker depends on what every rule around it does:
a node made from the token before the cursor needs that something was read, in
every alternative, since the rule began.  So the invariant is about all that is
still to be done: `Proceeds(todo, cur, 0)` says that the instructions in `todo`,
begun here, ask for no token behind the end and make nodes of what has been read
by then.  As the instructions contain instructions, and rules that contain
themselves, this is not computed but explained: there is a relation of
instructions, the number of tokens read before them and the number read behind
them, each of whose pairs is right if those of the instructions inside are
(`Sound`, `Fits`).  A union of such relations is one again (`SoundUnion`), so two
explanations combine (`ProceedsJoin`, `RunsEat`, `RunsLook`, `RunsList`); a call is
explained by how many tokens the rule reads at least (`Least`), and its body is
explained when it is called: one lemma for every rule (`SymbolRuns` to
`ModItemsRun`), the ten levels of binary operators by induction over the level
(`LevelRuns`).  `Tries` says of the attempts what `Fail` relies on: each goes back to
a token, and to nodes that lie before it, an attempt inside another to no fewer.

The second is of the same make, with another relation: of a sequence of
instructions, the brackets open before and behind it, and how it may end at the end
marker (`Goes`, `Explains`, `Does`).  Most rules close what they open (`Flat`), the
loops of a scope and of a namespace close one bracket more (`Closes`), and `BodyNet`
says it of every rule.  Three loops end at the end marker without an exception: that
of the program, and those of the members of a class before and after its constructor.
A class may hence end with its bracket open, but only at the end marker, where what
comes next is fixed (`Follows`): the class is made, and then either the program's loop
ends (`TopLeft`), or the namespace around the class finds itself not terminated
(`NamespaceLeft`).  `Position` lists these places; everywhere else what is still to
be done closes exactly what is open (`Balanced`).  An exception caught by ps_symbol
jumps over instructions and goes back to an earlier token, so `TriesBalanced` says it
of the rest behind each attempt too, for the brackets open where the attempt began.
The brackets of the tokens are counted by cardinality (`DepthNext`), and splitting a
`>>` does not change them.

### Names

`ResolverProofs` assumes `TreesAssumption`: a finite tree whose nodes the parser
makes once, hangs below one node each and before their parts, of the kinds the
grammar has in that place.

- `Invariant`: `Spec => []IInv`; `TypeCorrect`: `[]TypeOK`
- `ScopesFollow`: `[]ScopesFollowSyntax`; `SharedSymbols`: `[]NamesShareSymbols`
- `NamesResolved`: `Spec => ImplementsLexicalScoping`, the name resolver implements
  lexical scoping with the exceptions that `NameMeaning` names

The invariant has a part for each thing the resolver relies on: the scopes hang
as the constructs do (`ScopeTree`, `ScopeCalls`) and none is missing
(`ScopesComplete`); the tables hold what the constructs declare (`Tables`); a
node is visited with the scope from which exactly the constructs around it are
found (`ResolverCalls`, `RightScope`: `cur_scope` is null just inside the blocks
without a scope); what is still to be visited covers all that has no meaning yet
(`Progress`).  The core is that find_symbol, which climbs scopes, yields
`Meaning`, which looks at the tree: a simple name by induction over the parents
of scopes, a qualified one by induction over its parts.  The refinement then maps
`OnSymbol` to a step that gives a name its meaning, the exceptions to giving up,
the last visit to finishing, and every other step to a stutter.

### Characters, tokens and objects

`TextProofs` assumes `TextAssumption`: bytes are bytes, and escapes stand for
characters.

- `Invariant`: `Spec => []IInv`; `TypeCorrect`: `[]TypeOK`
- `TokensFollow`: `[]TokensFollowText`; `LongestMatch`: `[]LongestPunctuators`
- `CountedAndWritten`: `[]WritesWhatItCounted`, the second pass of a conversion
  writes exactly the units that the first has counted, whatever the bytes,
  ill-formed ones included
- `LiteralsAreKept`: `[]LiteralsKept`, a literal of well-formed UTF-8 is shown as it
  was written, through UTF-16 and back, or refused where the property says

`TokensFollow` and `LongestMatch` need that the lexer stands behind the spaces
that follow the last token (`SpacesPassed`).

`CountedAndWritten` needs that the passes go the same way: `Rest` is what the
conversion takes from a position on, and counted, or written, plus `Rest` is the
same at every step (`SameWay`).  The exception, an object that ends in the first
half of a surrogate pair, whose decoding reads behind the data, is in the property.

`LiteralsAreKept` needs to say, half-way through one conversion or the other, what
is right so far.  Neither side determines where the other stands, so the invariant
says that there are common cuts (`Common`): a set of pairs of positions, one in the
bytes and one in the units, from each of which a code point leads to the next in
its UTF-8 on one side and its UTF-16 on the other (`SameText`).  While the literal is
read (`ReadSoFar`) what has been read and what has been written have such cuts, and
what is left is well formed (`FormedFrom`); the object keeps those of the whole
literal (`ObjectKept`); while it is shown (`ShownSoFar`, `Showing`) the positions are
one of the cuts, so what is written next is what the literal has next.  The lemmas
under it are about single code points, for all of them: bytes that satisfy the
Unicode table (`Formed`) are decoded to the code point whose encoding they are
(`FormedDecodes`), and that is never half of a pair (`Scalar`); the units of such a
code point are decoded to it whatever stands behind them (`Utf16Again`), which is
why the bytes behind the data of an object cannot matter here; and 0 is decoded
from a 0 only (`Utf8Nul`), which is why an empty object means a literal that is
empty or begins with a NUL.

### Strings

`StringProofs` proves, for all sets of strings, blocks and texts and every first
buffer size above zero (`StringAssumption`):

- `BuffersAreOwned`: `Spec => []BufferInv`.  `BufferInv` is inductive as it is;
  its parts need each other.  That a write stays inside its block follows from
  the room `_buf_size` promises, which holds only for strings not in `short` and
  not between doubling and reallocation; that growing one string leaves the
  others alone follows from each block having one owner, for which the proof
  goes through what each call does to owners (`Construct`, `Move`, `Delete`).
- `StringsAreValues`: `Spec => ImplementsStringValue`, from that invariant: every
  step is one of `StringValue` or leaves all characters as they are, the failed
  allocation included, until a write overflows a block.

### Induction

The library's induction theorems have operators as parameters and cannot be used
with the provers here.  `ListProofs` has forms with sets in their place: a set of
numbers that has a least element (`LeastNumber`), a set closed under successor
(`Induction`), downwards from a bound (`FromAbove`, `Descending`), and the
existence of a recursive function from its finite approximations (`Recursion`).
Recursive functions in the model (`Depth`, `Rest`, `Quoted`, the digits of a
number) are reached through them: a solution of the recursive equation is
exhibited, so the `CHOOSE` that defines the function satisfies it.

### Only model-checked

- `Exits`, `AllReturned`, `AppendsEnd`: liveness under fairness is beyond the
  prover, and so is `ENABLED`.
- `AcceptedIsWellTyped`, `CrashesAreKnown`: `Types` has `RECURSIVE` operators (types
  and expressions nest), and the prover has no SMT in such a module.
- `OperatorsBindByStrength`, `TypeArgumentsWherePossible`, `BothHalvesUsed`: they
  compare the nodes of a whole program with a grammar over its tokens.  The invariants
  of `ParserProofs` know how far each instruction reads and which brackets it closes,
  but not which nodes it leaves for which texts.

## Findings

- `loader_search`: the search through the parent folders hands the file it has
  found back to ps_do_import with its extension on (`Parser.cpp:871`), which
  takes it for a path that exists and is no directory and does nothing.  The
  repository's `bootstrap/Parser/Node.fire:1` relies on such an import.
- `parser_compare`: `Node.hpp:57-58` says that `Bigger` is `a < b` and
  `BiggerOrEqual` is `a <= b`; ps_compare (`Parser.cpp:369-376`) makes the former of
  `<` and `<=` and the latter of `>` and `>=`, so strictness is lost.
- `resolver_loops`: the body of a `while` gets no scope (`Sema_Scopes.cpp:61`),
  so nothing declared around it is found there; `bootstrap/Lexer/Lexer.fire:20-26`
  relies on it.
- `resolver_if`: the variable of an `if` never gets its `symbol_ptr`
  (`Sema_Scopes.cpp:74`), which `Sema_TypeChecker.cpp:547` asserts.

Three more comments that the code does not follow, without a run of their own:
`Parser.cpp:959` says that enums are moved to the front, but variables and
namespaces come before them (`Grouped`); `Sema.hpp:8-9` says that name resolution
gives no errors, but find_symbol throws two and on_stmt one, and a qualified name
that begins with a variable is read through a null pointer (`FindSymbol`,
`OnBreak`); `Sema.hpp:19-21` says that operators are checked to fit the types of
their operands, but eval_expr_ty gives every operator without a rule of its own
the type of its left operand and leaves a `todo: check operators`
(`Sema_TypeChecker.cpp:433`), so `1 + "s"` is accepted and an int, and
`AcceptedIsWellTyped` calls it well typed (`WellTyped`, case Binary).

Behaviour that the properties state as it is, because nothing in the repository
says otherwise: an input whose imports were loaded by an earlier input misses
their items (`Complete`, with `foreign`); imports by directory are exempt from
the depth limit (`DepthLimited`); from an input outside the start folder a
missing import is searched for ever (`Exits`); the body of `try` and `catch` and
the branches of an else-if have no scope either, the condition of an `if` does
not see its variable, constructors are not resolved, what follows a built-in
name in a qualified name is not looked at, and a part of a qualified name that
its owner does not declare is searched for around the owner
(`ImplementsLexicalScoping`).  The type checker goes on after the errors that
`err::emitters` print, and accepts the program; too few arguments are never
reported but read past the end of a vector, as is an element a tuple does not
have; a `for` over a Vec, a List or a string in a branch of an else-if follows a
null pointer (`Sema_TypeChecker.cpp:601-607`) and a declaration there fails the
assertion of `Sema_TypeChecker.cpp:547`, as a `try` fails one anywhere, though all
of these are legal; the call of a variable of enum type follows a null pointer, and that of a
call may construct the enumerator an argument inside has named; a declared enum
type accepts no value of the enum, since the type is not stored in its node
(`AcceptedIsWellTyped`, `CrashesAreKnown`).  Half of a `>>` may be lost when type
arguments are given up (`BothHalvesUsed`); a class at the end of the file needs no
closing brace (`OnlyLastClassUnclosed`); a comment behind a comment may be read as
operators (`TokensFollowText`); an empty string literal cannot be shown
(`LiteralsKept`).  An append to a string that was moved from never ends, and one
to a copy may write behind its block (`AppendsEnd`, `BufferInv`).

## Not modelled

Error message wording, the dump of the tree, the implementations of the built-in
functions (nothing calls them) and the empty or stub files (IR, VM, Compiler)
have no state or behaviour of their own.  Of the syntax tree, `decltype`, attributes, template
parameters and the types of constructors' arguments are left out of the semantic
passes; const and reference types are never set there.  The numbers of int and
float literals go through the standard library.

## Plan

1. `Parser`: operators bind by strength (`OperatorsBindByStrength`), by a relation like
   those of `ParserProofs` that says which nodes an instruction leaves for the tokens it
   reads.
2. An abstract specification of batch loading (each input yields the closure of
   its imports less what others hold, or fails) that `Driver` implements.
