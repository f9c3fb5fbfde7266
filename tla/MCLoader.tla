------------------------------ MODULE MCLoader ------------------------------
(***************************************************************************)
(* Small file trees, programs and command lines for checking Driver.       *)
(*                                                                         *)
(*   /             Makefile's folder is /w, the compiler starts in /w      *)
(*   /w            a.fire  b.fire  Makefile                                *)
(*   /w/s          c.fire  d.fire                                          *)
(*   /w/s/t        e.fire                                                  *)
(*   /x            f.fire                                                  *)
(***************************************************************************)
EXTENDS DriverInvariant, SequencesExt

MCPath   == {"a", "b", "c", "d", "e", "f"}
MCFolder == {"/", "/w", "/w/s", "/w/s/t", "/x"}
MCName   == {"a", "b", "c", "d", "e", "s", "s/c", "t", "t/e", "Makefile", "none"}

MCFolderOf == [p \in MCPath |-> CASE p \in {"a", "b"} -> "/w"
                                  [] p \in {"c", "d"} -> "/w/s"
                                  [] p = "e" -> "/w/s/t"
                                  [] p = "f" -> "/x"]

MCUp == [d \in MCFolder |-> CASE d = "/w/s/t" -> "/w/s"
                              [] d = "/w/s" -> "/w"
                              [] OTHER -> "/"]

MCFireAt == [d \in MCFolder |-> [n \in MCName |->
  CASE d = "/w" /\ n \in {"a", "b"} -> n
    [] d = "/w" /\ n = "s/c" -> "c"
    [] d = "/w/s" /\ n \in {"c", "d"} -> n
    [] d = "/w/s" /\ n = "t/e" -> "e"
    [] d = "/w/s/t" /\ n = "e" -> n
    [] OTHER -> NIL]]

MCDirAt == [d \in MCFolder |-> [n \in MCName |->
  CASE d = "/w" /\ n = "s" -> "/w/s"
    [] d = "/w/s" /\ n = "t" -> "/w/s/t"
    [] OTHER -> NIL]]

MCPlainAt == [d \in MCFolder |-> [n \in MCName |-> d = "/w" /\ n = "Makefile"]]

MCEntries == [d \in MCFolder |->
  CASE d = "/"    -> {"/w", "/x"}
    [] d = "/w"   -> {"a", "b", "/w/s"}
    [] d = "/w/s" -> {"c", "d", "/w/s/t"}
    [] d = "/w/s/t" -> {"e"}
    [] d = "/x"   -> {"f"}]
-----------------------------------------------------------------------------
File(imps, fault, main) == [imports |-> imps, fault |-> fault, main |-> main]
Sound(imps) == File(imps, "none", "none")
Empty == Sound(<<>>)

\* Lists of at most n names out of S, none of them twice.
NoneTwice(S, n) == {l \in BoundedSeq(S, n) : NoRepeat(l)}

\* Every import graph of some shape: diamonds, cycles, a file importing
\* itself, directories that contain the importer, names found only above.
GraphPrograms ==
  {[p \in MCPath |->
      CASE p = "a" -> File(la, "none", "typed")
        [] p = "b" -> Sound(lb)
        [] p = "c" -> Sound(lc)
        [] p = "d" -> Sound(ld)
        [] p = "e" -> Sound(le)
        [] OTHER -> Empty] :
   la \in NoneTwice({"b", "s", "s/c"}, 2) \cup {<<"Makefile", "b">>},
   lb \in NoneTwice({"a", "s/c"}, 2), lc \in NoneTwice({"b", "d", "t"}, 2),
   ld \in NoneTwice({"c"}, 1), le \in NoneTwice({"c", "s", "t"}, 1)}

\* Chains up to one file longer than the limit allows.
ChainPrograms ==
  {[p \in MCPath |->
      CASE p = "a" -> File(<<"b">>, "none", "typed")
        [] p = "b" -> Sound(<<"s/c">>)
        [] p = "c" -> Sound(<<"d">>)
        [] p = "d" -> Sound(<<n>>)
        [] OTHER -> Empty] : n \in {"c", "t", "t/e"}}

MCGraphs == GraphPrograms \cup ChainPrograms
MCOneInput == {<<"a">>}

\* Programs in which files go wrong in every way a file can.
MCFaulty ==
  {[p \in MCPath |->
      CASE p = "a" -> File(la, IF ma = "none" THEN "item" ELSE "none", ma)
        [] p = "b" -> File(lb, fb, mb)
        [] p = "c" -> File(lc, fc, "typed")
        [] OTHER -> Empty] :
   la \in {<<>>, <<"b">>, <<"s/c", "b">>, <<"star">>}, ma \in {"none", "typed"},
   lb \in {<<"s/c">>, <<"none">>, <<"a", "malformed">>}, mb \in {"untyped", "typed"},
   lc \in {<<"none">>, <<"b", "d">>, <<"b", "t">>},
   fb \in {"none", "item"}, fc \in Fault}

MCManyInputs ==
  {<<>>, <<"--unknown", "a">>, <<"a", "b">>, <<"b", "--print-ast", "a">>,
   <<"c", "a", "b">>, <<"a", "f", "a">>}

\* f lies outside the folder the compiler is started in.
MCOutside ==
  {[p \in MCPath |->
      CASE p = "a" -> File(la, fa, "typed")
        [] p = "e" -> File(le, "none", "typed")
        [] p = "f" -> File(lf, "none", "typed")
        [] OTHER -> Empty] :
   la \in {<<"s">>, <<"none">>}, fa \in {"none", "item"},
   le \in {<<"none">>, <<"a">>, <<"s">>}, lf \in {<<>>, <<"none">>}}

MCTroubles     == MCFaulty \cup MCOutside
MCCommandLines == MCManyInputs \cup NoneTwice({"a", "e", "f"}, 3)
=============================================================================
