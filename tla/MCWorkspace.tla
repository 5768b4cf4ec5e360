------------------------------ MODULE MCWorkspace -----------------------------
(***************************************************************************)
(* Roots of a few files each for Workspace: plain files that are added,    *)
(* edited and deleted; ignored, generated and unnameable ones; two links   *)
(* to a directory in either order, and one to the root.                    *)
(***************************************************************************)
EXTENDS Workspace

MCFile(path, real, bytes, marks) ==
  [path |-> path, real |-> real, dir |-> FALSE, bytes |-> bytes, marks |-> marks]
MCDir(path, real, marks) == [path |-> path, real |-> real, dir |-> TRUE, bytes |-> "", marks |-> marks]

MCPlain == <<MCFile(<<"a">>, <<"a">>, "1", {}), MCFile(<<"b">>, <<"b">>, "2", {})>>
MCEdited == <<MCFile(<<"a">>, <<"a">>, "3", {})>>
MCIgnored ==
  <<MCDir(<<"n">>, <<"n">>, {"kebabignore", "gitignore"}), MCFile(<<"n", "a">>, <<"n", "a">>, "4", {}),
    MCFile(<<"b">>, <<"b">>, "2", {"code", "generated", "oversized"}),
    MCFile(<<"c">>, <<"c">>, "5", {"generated", "unnameable"})>>
\* m leads to n, and up back to the root.
MCLinked(first, second, marks) ==
  <<MCDir(<<"up">>, << >>, {}),
    MCDir(<<first>>, <<"n">>, IF first = "n" THEN marks ELSE {}),
    MCFile(<<first, "a">>, <<"n", "a">>, "4", {}),
    MCDir(<<second>>, <<"n">>, IF second = "n" THEN marks ELSE {}),
    MCFile(<<second, "a">>, <<"n", "a">>, "4", {})>>
\* n is reached first under a name that is no path; and n, which has a link out of itself, is ignored.
MCHashed ==
  <<MCDir(<<"#n">>, <<"n">>, {}), MCFile(<<"#n", "a">>, <<"n", "a">>, "4", {"unnameable"}),
    MCDir(<<"n">>, <<"n">>, {}), MCFile(<<"n", "a">>, <<"n", "a">>, "4", {})>>
MCLinkedOut ==
  <<MCDir(<<"n">>, <<"n">>, {"builtin"}), MCFile(<<"n", "a">>, <<"n", "a">>, "4", {}),
    MCFile(<<"n", "b">>, <<"m", "b">>, "5", {})>>
MCSecond == <<MCFile(<<"a">>, <<"a">>, "6", {})>>

MCArrangements ==
  ("first" :> {MCPlain, MCEdited, MCIgnored, MCHashed, MCLinkedOut} \cup
     {MCLinked("n", "m", marks) : marks \in {{}, {"builtin"}}} \cup {MCLinked("m", "n", {})})
  @@ ("second" :> {MCSecond, << >>})
MCSourceChoices == {<<"first">>, <<"first", "second">>}
MCOneSource == {<<"first">>}
MCNoExcludes == {{}}
MCExcludeSets == {{}, {<<"b">>, <<"e">>}}
MCArguments == {[bytes |-> b, fits |-> TRUE] : b \in {"e", "f"}} \cup {[bytes |-> "g", fits |-> FALSE]}
MCStdinBodies == {[wrapped |-> "w", fenced |-> FALSE], [wrapped |-> "v", fenced |-> TRUE]}
MCHalf == "e" :> "half e" @@ "w" :> "half w"

=============================================================================
