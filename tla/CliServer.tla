----------------------------- MODULE CliServer -----------------------------
(***************************************************************************)
(* The server of the command line (cli/base_cli.c): a listener accepts     *)
(* connections and starts a thread for each, which runs a session of       *)
(* CliSession on it.  A connection is the number of its turn; its thread   *)
(* and the structure that is made for it have the same number.  The thread *)
(* is told its structure and its socket through one variable of the        *)
(* listener, and a socket is a number that is used again once it is        *)
(* closed.                                                                 *)
(***************************************************************************)
EXTENDS CliSession

CONSTANTS
  Sockets,     (* the numbers of sockets                                   *)
  Overlap      (* BOOLEAN: a connection comes while a thread reads its     *)
               (* arguments, or between its two closes                     *)

Nobody == 0

ASSUME ServerAssumption ==
  /\ Cardinality(Clis) \in Nat
  /\ Clis = 1..Cardinality(Clis)
  /\ Sockets \subseteq Nat
  /\ Overlap \in BOOLEAN

VARIABLES
  accepted,  (* connections accepted so far                                *)
  listener,  (* where the listener is                                      *)
  new,       (* the socket accept has returned                             *)
  args,      (* what the threads are told: a structure and a socket        *)
  open,      (* the connection behind each socket                          *)
  pc,        (* where each thread is                                       *)
  own        (* what each thread has read of args                          *)

serverVars == <<accepted, listener, new, args, open, pc, own>>
vars == <<sessionVars, serverVars>>

Init ==
  /\ InitSessions
  /\ accepted = 0
  /\ listener = "accept"
  /\ new = 0
  /\ args = [cli |-> 0, socket |-> 0]
  /\ open = [s \in Sockets |-> Nobody]
  /\ pc = [t \in Clis |-> "none"]
  /\ own = [t \in Clis |-> [cli |-> 0, socket |-> 0]]

-----------------------------------------------------------------------------
(* accept returns the lowest number that is free.                          *)
Accept ==
  /\ listener = "accept"
  /\ accepted < Cardinality(Clis)
  /\ Overlap \/ \A t \in Clis : pc[t] \notin {"readCli", "readSocket", "close"}
  /\ \E s \in Sockets :
       /\ open[s] = Nobody
       /\ \A r \in Sockets : open[r] = Nobody => s <= r
       /\ new' = s
       /\ open' = [open EXCEPT ![s] = accepted + 1]
  /\ accepted' = accepted + 1
  /\ listener' = "cli"
  /\ UNCHANGED <<sessionVars, args, pc, own>>

(* The new session, with the commands of the application.                  *)
SetCli ==
  /\ listener = "cli"
  /\ args' = [args EXCEPT !.cli = accepted]
  /\ listener' = "socket"
  /\ UNCHANGED <<sessionVars, accepted, new, open, pc, own>>

SetSocket ==
  /\ listener = "socket"
  /\ args' = [args EXCEPT !.socket = new]
  /\ listener' = "start"
  /\ UNCHANGED <<sessionVars, accepted, new, open, pc, own>>

StartTask ==
  /\ listener = "start"
  /\ pc' = [pc EXCEPT ![accepted] = "readCli"]
  /\ listener' = "accept"
  /\ UNCHANGED <<sessionVars, accepted, new, args, open, own>>

(* fwk_createDisposableTask fails: the result is printed, and the session  *)
(* and the connection stay as they are, with nobody to serve them.         *)
FailTask ==
  /\ listener = "start"
  /\ listener' = "accept"
  /\ UNCHANGED <<sessionVars, accepted, new, args, open, pc, own>>

Start == SetCli \/ SetSocket \/ StartTask \/ FailTask

Listen == Accept \/ Start

-----------------------------------------------------------------------------
Goto(t, from, to) == pc[t] = from /\ pc' = [pc EXCEPT ![t] = to]

ReadCli(t) ==
  /\ Goto(t, "readCli", "readSocket")
  /\ own' = [own EXCEPT ![t].cli = args.cli]
  /\ UNCHANGED <<sessionVars, accepted, listener, new, args, open>>

ReadSocket(t) ==
  /\ Goto(t, "readSocket", "begin")
  /\ own' = [own EXCEPT ![t].socket = args.socket]
  /\ UNCHANGED <<sessionVars, accepted, listener, new, args, open>>

(* No stream can be opened on a socket that is closed.                     *)
Begin(t) ==
  /\ Goto(t, "begin", IF open[own[t].socket] = Nobody THEN "close" ELSE "loop")
  /\ BeginLoop(own[t].cli)
  /\ UNCHANGED <<accepted, listener, new, args, open, own>>

(* A line from the client behind the socket.                               *)
Serve(t) ==
  /\ pc[t] = "loop"
  /\ open[own[t].socket] # Nobody
  /\ Typed(own[t].cli)
  /\ UNCHANGED <<accepted, listener, new, args, open, own>>
  /\ pc' = [pc EXCEPT ![t] = IF cli'[own[t].cli].state = "none" THEN "fclose" ELSE @]

Wait(t) ==
  /\ pc[t] = "loop"
  /\ Waited(own[t].cli)
  /\ UNCHANGED <<accepted, listener, new, args, open, own>>
  /\ pc' = [pc EXCEPT ![t] = IF cli'[own[t].cli].state = "none" THEN "fclose" ELSE @]

Leave(t) ==
  /\ Goto(t, "loop", "fclose")
  /\ EndLoop(own[t].cli)
  /\ UNCHANGED <<accepted, listener, new, args, open, own>>

(* The loop closes the stream of its client.                               *)
Fclose(t) ==
  /\ Goto(t, "fclose", "close")
  /\ open' = [open EXCEPT ![own[t].socket] = Nobody]
  /\ UNCHANGED <<sessionVars, accepted, listener, new, args, own>>

(* Close of the socket that the arguments name now.                        *)
CloseNewest(t) ==
  /\ Goto(t, "close", "cliDone")
  /\ open' = [open EXCEPT ![args.socket] = Nobody]
  /\ UNCHANGED <<sessionVars, accepted, listener, new, args, own>>

(* The thread closes the socket of that number once more.                  *)
Close(t) ==
  /\ Goto(t, "close", "cliDone")
  /\ open' = [open EXCEPT ![own[t].socket] = Nobody]
  /\ UNCHANGED <<sessionVars, accepted, listener, new, args, own>>

(* cli_done frees the structure.                                           *)
Done(t) ==
  /\ Goto(t, "cliDone", "done")
  /\ cli' = [cli EXCEPT ![own[t].cli] = Blank]
  /\ UNCHANGED <<known, left, silent, admitted, promoted, intact>>
  /\ UNCHANGED <<accepted, listener, new, args, open, own>>

Run(t) ==
  \/ ReadCli(t) \/ ReadSocket(t) \/ Begin(t)
  \/ Wait(t)
  \/ Fclose(t) \/ Close(t) \/ Done(t)

Next == Listen \/ \E t \in Clis : Run(t) \/ Serve(t) \/ Leave(t)

(* The listener and the threads go on, and select comes back after each    *)
(* second without a key.  Nobody has to connect, to type or to leave.      *)
Spec == Init /\ [][Next]_vars /\ WF_vars(Start) /\ \A t \in Clis : WF_vars(Run(t))

-----------------------------------------------------------------------------
(* The types of the state.                                                 *)
TypeOK ==
  /\ \A c \in Clis :
       /\ cli[c].state \in States
       /\ cli[c].privilege \in {0, Privileged}
       /\ cli[c].mode \in Modes
       /\ cli[c].unique \in [Cmds -> Nat]
  /\ accepted \in 0..Cardinality(Clis)
  /\ open \in [Sockets -> Clis \cup {Nobody}]

(* A session is on the connection its thread was started for, with the     *)
(* structure made for it.                                                  *)
OwnConnection ==
  \A t \in Clis : pc[t] = "loop" => own[t].cli = t /\ open[own[t].socket] = t

(* Nobody gets to the prompt, nor is asked for a further password, who did *)
(* not give a user's name and password; and a session is privileged if its *)
(* user became so as the library asks, and has not given it back.          *)
AccessEarned ==
  \A c \in Clis :
    /\ AtPrompt(c) \/ cli[c].state = "enablePassword" => admitted[c]
    /\ cli[c].privilege = Privileged => admitted[c] /\ promoted[c]

(* Whatever can be typed at the prompt, the command that would run is one  *)
(* that can be seen from the mode it runs in, and every word means its     *)
(* part of it: the letters counted at the last change are still right.     *)
RunsWhatIsMeant ==
  \A c \in Clis : AtPrompt(c) =>
    \A line \in Lines :
      \A found \in {FindLine(cli[c], line)} :
        found.cmd # 0 =>
          \A path \in {Path(found.cmd)} :
            \A k \in DOMAIN path :
              /\ Table[path[k]].privilege <= cli[c].privilege
              /\ Means(line.words[k], path[k], found.mode, cli[c].privilege)

(* The commands of configuration are below others of configuration only.   *)
ConfigBelowConfig ==
  \A c \in Cmds :
    Table[c].mode = ModeConfig /\ Table[c].parent # Root
      => Table[Table[c].parent].mode = ModeConfig

(* A name Tab offers is found when the line that it completes is run.      *)
CompletionsRun ==
  \A c \in Clis : AtPrompt(c) =>
    \A line \in Lines :
      \A d \in Completions(line.words, cli[c].unique, cli[c].mode, cli[c].privilege) :
        LET words == [line.words EXCEPT ![Len(line.words)] = Table[d].name]
        IN  \A found \in {Find(words, FALSE, cli[c].unique, cli[c].mode, cli[c].privilege)} :
              ~found.arg /\ found.mode = cli[c].mode

(* No name of a command of configuration begins one beside it that has no  *)
(* mode.                                                                   *)
NamesApart ==
  \A c, d \in Cmds :
    /\ Table[c].parent = Table[d].parent
    /\ Table[c].mode = ModeConfig /\ Table[d].mode = ModeAny
    => ~IsPrefix(Table[c].name, Table[d].name)

(* As long as the loop runs, whatever a session takes for a name that is   *)
(* shortened means that command and no other one it can see.               *)
ShortNamesTell ==
  \A c \in Clis : cli[c].state # "none" =>
    \A d \in Cmds : Reached(cli[c].mode, cli[c].privilege)[d] =>
      \A word \in Prefixes(Table[d].name) :
        Stands(word, d, cli[c].unique) => Means(word, d, cli[c].mode, cli[c].privilege)

(* The output of a command comes through the filters of its own line, and  *)
(* what they keep is what they were asked to keep.                         *)
OutputAsAsked == \A c \in Clis : intact[c]

(* On no line is a filter left incomplete behind one that is set up.       *)
FiltersFinished ==
  \A line \in Lines :
    LET bad == Fault(line.filters)
    IN  bad > 1 => line.filters[bad].kind # "unfinished"

(* Who gives the right name and the right password is let in, and who      *)
(* gives the right one for it is privileged, whatever was typed before.    *)
Admits(c) ==
  /\ cli[c].state = "password" /\ ~admitted[c] /\ admitted'[c]
       => cli'[c].state = "normal"
  /\ cli[c].state = "enablePassword" /\ ~promoted[c] /\ promoted'[c]
       => cli'[c].privilege = Privileged

RightPasswordAdmits == [][\A c \in Clis : Admits(c)]_vars

(* No line that ends in a question mark runs "enable".                     *)
HelpEnablesNobody ==
  \A c \in Clis : AtPrompt(c) =>
    \A line \in Lines :
      line.help => \A found \in {FindLine(cli[c], line)} :
                     found.cmd = 0 \/ Callback(found.cmd) # "enable"

(* To ask for help changes nothing.                                        *)
HelpChangesNothing ==
  [][\A c \in Clis : AtPrompt(c) /\ left'[c] /\ ~left[c]
       => [cli'[c] EXCEPT !.filters = <<>>] = [cli[c] EXCEPT !.filters = <<>>]]_vars

(* A client that falls silent for good is put out, and its thread ends.    *)
SilentIsPutOut ==
  \A t \in Clis :
    <>[](pc[t] = "loop" => silent[t] # 0) => (pc[t] = "loop" ~> pc[t] = "done")
=============================================================================
