----------------------------- MODULE CliSession -----------------------------
(***************************************************************************)
(* A session of the command line: cli_loop and the commands of the library *)
(* (cli/base_cli_lib.c), a line at a time.  A session asks for a user and  *)
(* a password, runs commands, may be given the privilege to run more, and  *)
(* ends when its user leaves or keeps silent.  How a line comes about is   *)
(* in CliLine, how it finds its command in CliTree, what its filters do    *)
(* in CliFilters.                                                          *)
(***************************************************************************)
EXTENDS CliTree, CliFilters

CONSTANTS
  Clis,            (* the structures struct cli_def                        *)
  Lines,           (* the lines that are typed at the prompt: records of   *)
                   (* words, filters, and help for a final question mark   *)
  Output,          (* what the command "show" prints                       *)
  Privileged,      (* PRIVILEGE_PRIVILEGED                                 *)
  EnablePassword,  (* BOOLEAN: to be privileged takes a password           *)
  IdleTimeout      (* the seconds a user may be silent                     *)

ASSUME SessionAssumption ==
  /\ Lines \subseteq [words : Seq(Seq(STRING)) \ {<<>>}, filters : Seq(Requests), help : BOOLEAN]
  /\ Output \in Seq(SUBSET STRING)
  /\ Privileged \in Nat \ {0}
  /\ EnablePassword \in BOOLEAN
  /\ IdleTimeout \in Nat \ {0}

VARIABLES
  cli,       (* the structures: state, privilege, mode, unique, filters    *)
  known,     (* the user name typed last is one of the users               *)
  left,      (* what was typed before a question mark is still in the line *)
  silent,    (* seconds since last_action                                  *)
  admitted,  (* history: a user and its password were given                *)
  promoted,  (* history: privilege was given since, as the library asks    *)
  intact     (* history: outputs came as their lines asked for them        *)

sessionVars == <<cli, known, left, silent, admitted, promoted, intact>>

States == {"none", "login", "password", "normal", "enablePassword", "enable"}

AtPrompt(c) == cli[c].state \in {"normal", "enable"}

-----------------------------------------------------------------------------
(* SetPrivilege that leaves the letters as they are counted.               *)
SetPrivilegeOnly(s, privilege) == [s EXCEPT !.privilege = privilege]

(* A change of privilege or mode counts the letters of the names anew.     *)
SetPrivilege(s, privilege) ==
  IF privilege = s.privilege THEN s
  ELSE [s EXCEPT !.privilege = privilege,
                 !.unique = BuildShortest(s.unique, s.mode, privilege)]

SetMode(s, mode) ==
  IF mode = s.mode THEN s
  ELSE [s EXCEPT !.mode = mode, !.unique = BuildShortest(s.unique, mode, s.privilege)]

SetBoth(s, privilege, mode) == SetMode(SetPrivilege(s, privilege), mode)

(* What the call-back of a command does to its session: those of help, of  *)
(* history and of an application that only prints do nothing to it.        *)
Exit(s) ==
  IF s.mode > ModeConfig THEN SetMode(s, ModeConfig)
  ELSE IF s.mode = ModeConfig THEN SetMode(s, ModeExec)
  ELSE SetBoth(s, 0, ModeExec)

Enable(s) ==
  IF s.privilege = Privileged THEN s
  ELSE IF EnablePassword THEN [s EXCEPT !.state = "enablePassword"]
  ELSE SetBoth(s, Privileged, ModeExec)

Called(s, callback) ==
  CASE callback = "quit" -> SetBoth(s, 0, ModeExec)
    [] callback = "exit" -> Exit(s)
    [] callback = "enable" -> Enable(s)
    [] callback = "disable" -> SetBoth(s, 0, ModeExec)
    [] callback = "configure" -> SetMode(s, ModeConfig)
    [] callback = "submode" -> SetMode(s, ModeSub)
    [] OTHER -> s

Quits(s, callback) == callback = "quit" \/ (callback = "exit" /\ s.mode = ModeExec)

OutputOf(callback) == IF callback = "show" THEN Output ELSE <<>>

-----------------------------------------------------------------------------
(* cli_init has built the tree for its own commands; those that are added  *)
(* after it have no unique_len until cli_loop begins.                      *)
Blank == [state |-> "none", privilege |-> 0, mode |-> ModeExec,
          unique |-> [c \in Cmds |-> 0], filters |-> <<>>]

InitSessions ==
  /\ cli = [c \in Clis |-> Blank]
  /\ known = [c \in Clis |-> FALSE]
  /\ left = [c \in Clis |-> FALSE]
  /\ silent = [c \in Clis |-> 0]
  /\ admitted = [c \in Clis |-> FALSE]
  /\ promoted = [c \in Clis |-> FALSE]
  /\ intact = [c \in Clis |-> TRUE]

(* cli_loop starts, on a structure whose loop is running as on any other.  *)
BeginLoop(c) ==
  /\ LET built == [cli[c] EXCEPT !.unique = BuildShortest(@, cli[c].mode, cli[c].privilege)]
     IN  cli' = [cli EXCEPT ![c] = [SetBoth(built, 0, ModeExec) EXCEPT !.state = "login"]]
  /\ silent' = [silent EXCEPT ![c] = 0]
  /\ admitted' = [admitted EXCEPT ![c] = FALSE]
  /\ promoted' = [promoted EXCEPT ![c] = FALSE]
  /\ known' = [known EXCEPT ![c] = FALSE]
  /\ left' = [left EXCEPT ![c] = FALSE]
  /\ UNCHANGED intact

(* A line that has been ended, and what of it stays for the next one.      *)
Answered(c, stays) ==
  /\ left' = [left EXCEPT ![c] = stays]
  /\ silent' = [silent EXCEPT ![c] = 0]

(* EnterName that does not clear the line.                                 *)
EnterNameKept(c, user, help) ==
  /\ cli[c].state = "login"
  /\ known' = [known EXCEPT ![c] = user]
  /\ cli' = [cli EXCEPT ![c].state = "password"]
  /\ Answered(c, TRUE)
  /\ UNCHANGED <<admitted, promoted, intact>>

(* A user name, ended by Enter or by a question mark, which is then part   *)
(* of it, as it is of no user's name.                                      *)
EnterName(c, user, help) ==
  /\ cli[c].state = "login"
  /\ known' = [known EXCEPT ![c] = user /\ ~help]
  /\ cli' = [cli EXCEPT ![c].state = "password"]
  /\ Answered(c, help)
  /\ UNCHANGED <<admitted, promoted, intact>>

(* EnterPassword that takes the password of any user.                      *)
EnterPasswordOfAny(c, right) ==
  /\ cli[c].state = "password"
  /\ cli' = [cli EXCEPT ![c].state = IF right THEN "normal" ELSE "login"]
  /\ admitted' = [admitted EXCEPT ![c] = @ \/ (known[c] /\ right)]
  /\ Answered(c, FALSE)
  /\ UNCHANGED <<known, promoted, intact>>

(* A password comes after what is left in the line.                        *)
EnterPassword(c, right) ==
  LET allowed == known[c] /\ right /\ ~left[c] IN
  /\ cli[c].state = "password"
  /\ cli' = [cli EXCEPT ![c].state = IF allowed THEN "normal" ELSE "login"]
  /\ known' = [known EXCEPT ![c] = @ /\ allowed]
  /\ admitted' = [admitted EXCEPT ![c] = @ \/ (known[c] /\ right)]
  /\ Answered(c, FALSE)
  /\ UNCHANGED <<promoted, intact>>

EnterEnablePassword(c, right) ==
  LET allowed == right /\ ~left[c] IN
  /\ cli[c].state = "enablePassword"
  /\ cli' = [cli EXCEPT ![c] =
               IF allowed THEN SetPrivilege([@ EXCEPT !.state = "enable"], Privileged)
               ELSE [@ EXCEPT !.state = "normal"]]
  /\ promoted' = [promoted EXCEPT ![c] = @ \/ right]
  /\ Answered(c, FALSE)
  /\ UNCHANGED <<known, admitted, intact>>

(* FindLine that takes no notice of a question mark.                       *)
FindLineDeaf(s, line) == Find(line.words, FALSE, s.unique, s.mode, s.privilege)

FindLine(s, line) == Find(line.words, line.help, s.unique, s.mode, s.privilege)

(* A line that finds no command, or asks for help: cli_find_command may    *)
(* have left a mode for it, and nothing else.                              *)
RunNothing(c, line, found) ==
  /\ found.cmd = 0
  /\ cli' = [cli EXCEPT ![c] = SetMode(@, found.mode)]
  /\ Answered(c, line.help)
  /\ UNCHANGED <<known, admitted, promoted, intact>>

(* A command is found and one of the filters asked for cannot be had.      *)
RunRefused(c, line, found) ==
  LET chain == Install(line.filters, cli[c].filters) IN
  /\ found.cmd # 0 /\ ~chain.runs
  /\ cli' = [cli EXCEPT ![c] = [SetMode(@, found.mode) EXCEPT !.filters = chain.chain]]
  /\ Answered(c, line.help)
  /\ UNCHANGED <<known, admitted, promoted, intact>>

(* A command runs; its filters are taken down after it.  One that quits    *)
(* ends the loop.                                                          *)
RunCommand(c, line, found) ==
  LET callback == Callback(found.cmd)
      chain == Install(line.filters, cli[c].filters)
      s == SetMode(cli[c], found.mode)
  IN  /\ found.cmd # 0 /\ chain.runs
      /\ cli' = [cli EXCEPT ![c] =
                   [Called(s, callback) EXCEPT
                      !.filters = <<>>,
                      !.state = IF Quits(s, callback) THEN "none" ELSE @]]
      /\ intact' = [intact EXCEPT ![c] = @ /\
                      Shown(chain.chain, OutputOf(callback)) = Asked(line.filters, OutputOf(callback))]
      /\ promoted' = [promoted EXCEPT ![c] =
                        CASE callback = "enable" -> @ \/ ~EnablePassword
                          [] callback \in {"disable", "quit"} -> FALSE
                          [] OTHER -> @]
      /\ Answered(c, line.help)
      /\ UNCHANGED <<known, admitted>>

EnterLine(c, line) ==
  /\ AtPrompt(c)
  /\ LET found == FindLine(cli[c], line)
     IN  RunNothing(c, line, found) \/ RunRefused(c, line, found) \/ RunCommand(c, line, found)

(* Ctrl-Z leaves every mode.                                               *)
LeaveModes(c) ==
  /\ cli[c].state # "none"
  /\ cli[c].mode # ModeExec
  /\ cli' = [cli EXCEPT ![c] = SetMode(@, ModeExec)]
  /\ silent' = [silent EXCEPT ![c] = 0]
  /\ UNCHANGED <<known, left, admitted, promoted, intact>>

(* A key that does not end a line.                                         *)
Key(c) ==
  /\ cli[c].state # "none"
  /\ silent' = [silent EXCEPT ![c] = 0]
  /\ UNCHANGED <<cli, known, left, admitted, promoted, intact>>

(* The loop ends: the client is gone, or typed Ctrl-D.                     *)
EndLoop(c) ==
  /\ cli[c].state # "none"
  /\ cli' = [cli EXCEPT ![c].state = "none"]
  /\ UNCHANGED <<known, left, silent, admitted, promoted, intact>>

(* select comes back after a second without a key.                         *)
Second(c) ==
  /\ cli[c].state # "none"
  /\ silent[c] + 1 < IdleTimeout
  /\ silent' = [silent EXCEPT ![c] = @ + 1]
  /\ UNCHANGED <<cli, known, left, admitted, promoted, intact>>

(* TimeOut with the comparison one off.                                    *)
TimeOutLater(c) == silent[c] + 1 > IdleTimeout /\ EndLoop(c)

(* The last second of the timeout; efwk_cli_idle_timeout says to quit.     *)
TimeOut(c) == silent[c] + 1 >= IdleTimeout /\ EndLoop(c)

Typed(c) ==
  \/ \E user, help \in BOOLEAN : EnterName(c, user, help)
  \/ \E right \in BOOLEAN : EnterPassword(c, right) \/ EnterEnablePassword(c, right)
  \/ \E line \in Lines : EnterLine(c, line)
  \/ LeaveModes(c) \/ Key(c)

Waited(c) == Second(c) \/ TimeOut(c)
=============================================================================
