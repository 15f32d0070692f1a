---------------------------- MODULE MCCliServer ----------------------------
(***************************************************************************)
(* TLC instances of CliServer: the commands of the library under names of  *)
(* two letters, with those of an application that prints, one that has a   *)
(* mode of its own, and one whose name is the beginning of another's.      *)
(***************************************************************************)
EXTENDS CliServer

Command(name, parent, privilege, mode, callback) ==
  [name |-> name, parent |-> parent, privilege |-> privilege, mode |-> mode,
   callback |-> callback]

McTable ==
  <<Command(<<"h", "e">>, Root, 0, ModeAny, "help"),
    Command(<<"q">>, Root, 0, ModeAny, "quit"),
    Command(<<"e", "x">>, Root, 0, ModeAny, "exit"),
    Command(<<"e", "n">>, Root, 0, ModeExec, "enable"),
    Command(<<"d">>, Root, Privileged, ModeExec, "disable"),
    Command(<<"c">>, Root, Privileged, ModeExec, "none"),
    Command(<<"t">>, 6, Privileged, ModeExec, "configure"),
    Command(<<"e">>, Root, 0, ModeSub, "show"),
    Command(<<"s">>, Root, 0, ModeConfig, "submode"),
    Command(<<"s", "h">>, Root, 0, ModeExec, "show"),
    Command(<<"l", "s">>, 10, Privileged, ModeExec, "show"),
    Command(<<"l", "t">>, 10, 0, ModeExec, "show")>>

McOutput == <<{"x"}, {}, {"x", "y"}, {"z"}>>

Line(words) == [words |-> words, filters |-> <<>>, help |-> FALSE]
Asking(words) == [words |-> words, filters |-> <<>>, help |-> TRUE]
Filtered(filters) == [words |-> <<<<"s">>>>, filters |-> filters, help |-> FALSE]

CommandLines ==
  {Line(<<<<"e">>>>), Line(<<<<"e", "n">>>>), Line(<<<<"e", "x">>>>), Line(<<<<"d">>>>),
   Line(<<<<"c">>, <<"t">>>>), Line(<<<<"s">>>>), Line(<<<<"s">>, <<"l">>>>),
   Line(<<<<"s", "h">>, <<"x">>>>), Asking(<<<<"c">>, <<>>>>), Asking(<<<<"s">>>>)}

FilterLines ==
  {Filtered(<<Between("y", "z"), Match("x", TRUE), Counter>>),
   Filtered(<<Between("x", None), Broken>>), Filtered(<<Unfinished>>)}

McLines == CommandLines \cup FilterLines

(* Lines whose last filter is not complete while others are set up.        *)
LeavingLines == McLines \cup {Filtered(<<Match("x", FALSE), Unfinished>>)}

(* A question mark after a whole command.                                  *)
HelpLines == McLines \cup {Asking(<<<<"e", "x">>, <<>>>>), Asking(<<<<"e", "n">>, <<>>>>)}

OneCli == {1}
TwoClis == {1, 2}
=============================================================================
