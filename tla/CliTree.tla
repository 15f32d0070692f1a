------------------------------ MODULE CliTree ------------------------------
(***************************************************************************)
(* The commands of the command line and how a line finds one of them       *)
(* (cli/base_cli_lib.c).  The commands are a tree; a word may be shortened *)
(* to the letters that tell its command from the others that the session   *)
(* can see, and how many that takes is kept with each command (unique_len) *)
(* from one change of the privilege or of the mode to the next.            *)
(***************************************************************************)
EXTENDS Integers, Sequences, SequencesExt, FiniteSetsExt

CONSTANT
  Table        (* the registered commands, in the order of registration:   *)
               (* records of name, parent, privilege, mode and callback    *)

ModeAny == -1
ModeExec == 0
ModeConfig == 1
ModeSub == 2         (* a mode within it, which an application adds        *)
Modes == {ModeExec, ModeConfig, ModeSub}

Root == 0            (* the parent of the commands of the first word       *)

Cmds == DOMAIN Table

(* A name is a sequence of letters, and a command is registered after its  *)
(* parent.  No two commands of a mode share a parent and a name.           *)
ASSUME TableAssumption ==
  /\ Table \in Seq([name : Seq(STRING) \ {<<>>}, parent : Nat, privilege : Nat,
                    mode : Modes \cup {ModeAny}, callback : STRING])
  /\ \A c \in Cmds : Table[c].parent < c
  /\ \A c, d \in Cmds :
       /\ c # d
       /\ Table[c].parent = Table[d].parent
       /\ Table[c].mode = Table[d].mode
       => Table[c].name # Table[d].name

(* A list of commands: the children of p, in order.                        *)
Lists == Cmds \cup {Root}
Siblings(p) == {c \in Cmds : Table[c].parent = p}

Visible(c, mode, privilege) ==
  Table[c].mode \in {ModeAny, mode} /\ Table[c].privilege <= privilege

(* A list is come to if its parents are visible.                           *)
Reached(mode, privilege) ==
  LET reached[c \in Cmds] ==
        LET p == Table[c].parent
        IN  p = Root \/ (Visible(p, mode, privilege) /\ reached[p])
  IN  reached

(* How many letters two names begin with alike.                            *)
Alike ==
  [c \in Cmds |-> [d \in Cmds |-> Len(LongestCommonPrefix({Table[c].name, Table[d].name}))]]

(* One more than the letters a name shares with another one that can be    *)
(* seen beside it.                                                         *)
Shortest(c, mode, privilege) ==
  LET beside == {d \in Siblings(Table[c].parent) \ {c} : Visible(d, mode, privilege)}
  IN  Max({1} \cup {1 + Alike[c][d] : d \in beside})

(* What cli_build_shortest makes of the unique_len of before: it does not  *)
(* go below a command that cannot be seen.                                 *)
BuildShortest(unique, mode, privilege) ==
  LET reached == Reached(mode, privilege)
  IN  [c \in Cmds |->
         IF ~reached[c] THEN unique[c]
         ELSE IF Visible(c, mode, privilege) THEN Shortest(c, mode, privilege)
         ELSE Len(Table[c].name)]

-----------------------------------------------------------------------------
(* A word stands for a command if it is its name, shortened to no less     *)
(* than unique_len letters.                                                *)
Stands(word, c, unique) ==
  /\ IsPrefix(word, Table[c].name)
  /\ word = Table[c].name \/ Len(word) >= unique[c]

(* The commands of a list that a word stands for.                          *)
Hits(p, word, unique, privilege) ==
  {c \in Siblings(p) : Table[c].privilege <= privilege /\ Stands(word, c, unique)}

InMode(hits, mode) == {c \in hits : Table[c].mode = mode}

(* The hits that end the search at once: those of the mode of the session, *)
(* and those of any mode from the second on.                               *)
Ends(hits, mode) ==
  InMode(hits, mode)
    \cup {c \in InMode(hits, ModeAny) : \E d \in InMode(hits, ModeAny) : d < c}

(* Which hit it is, and if the session leaves a mode within configuration  *)
(* for it: the first that ends the search, or one that was remembered in   *)
(* case there is none.  0 is none.                                         *)
Chosen(hits, mode) ==
  IF Ends(hits, mode) # {} THEN [cmd |-> Min(Ends(hits, mode)), mode |-> mode]
  ELSE IF mode > ModeConfig /\ InMode(hits, ModeConfig) # {}
    THEN [cmd |-> Max(InMode(hits, ModeConfig)), mode |-> ModeConfig]
  ELSE [cmd |-> Max({0} \cup InMode(hits, ModeAny)), mode |-> mode]

Callback(c) == Table[c].callback

(* What a search ends with: the command whose call-back runs (0 is none),  *)
(* whether it failed for want of an argument or a command, and the mode    *)
(* the session is in then.                                                 *)
Runs(c, mode) ==
  [cmd |-> IF Callback(c) = "none" THEN 0 ELSE c, arg |-> FALSE, mode |-> mode]

Nothing(arg, mode) == [cmd |-> 0, arg |-> arg, mode |-> mode]

(* The letters that are kept with the commands once the search is in m.    *)
Counted(unique, mode, privilege, m) ==
  IF m = mode THEN unique ELSE BuildShortest(unique, m, privilege)

(* cli_find_command at the word i of a line: for each list of commands and *)
(* mode of the session, from what it comes to at the word after it.        *)
FindAt(words, help, unique, mode, privilege, i, after) ==
  [p \in Lists |-> [m \in Modes |->
     LET choice == Chosen(Hits(p, words[i], Counted(unique, mode, privilege, m), privilege), m)
         c == choice.cmd
         below == after[c][choice.mode]
     IN  IF help /\ i = Len(words) THEN Nothing(FALSE, m)
         ELSE IF c = 0 THEN Nothing(TRUE, m)
         ELSE IF Siblings(c) = {} \/ i = Len(words) THEN Runs(c, choice.mode)
         ELSE IF below.arg /\ Callback(c) # "none" THEN Runs(c, below.mode)
         ELSE below]]

(* The same for a line of words, of which the last one may end in a        *)
(* question mark.                                                          *)
Find(words, help, unique, mode, privilege) ==
  LET find[i \in DOMAIN words] ==
        FindAt(words, help, unique, mode, privilege, i,
               IF i = Len(words) THEN <<>> ELSE find[i + 1])
  IN  find[1][Root][mode]

(* Completions that asks for the mode and not for the privilege.           *)
CompletionsOfMode(words, unique, mode, privilege) ==
  {c \in Cmds : /\ Table[c].parent = Root /\ Len(words) = 1
                /\ Table[c].mode \in {ModeAny, mode}
                /\ IsPrefix(words[1], Table[c].name)}

(* The names that Tab offers for the last word of a line, at the word i,   *)
(* for each list of commands.                                              *)
OfferedAt(words, unique, mode, privilege, i, after) ==
  LET Fits(c) == Visible(c, mode, privilege) /\ IsPrefix(words[i], Table[c].name) IN
  [p \in Lists |->
     LET down == {c \in Siblings(p) : Fits(c) /\ Len(words[i]) >= unique[c]}
     IN  IF i = Len(words) THEN {c \in Siblings(p) : Fits(c)}
         ELSE IF down = {} THEN {} ELSE after[Min(down)]]

Completions(words, unique, mode, privilege) ==
  LET offered[i \in DOMAIN words] ==
        OfferedAt(words, unique, mode, privilege, i,
                  IF i = Len(words) THEN <<>> ELSE offered[i + 1])
  IN  offered[1][Root]

-----------------------------------------------------------------------------
(* What a line says, whatever is kept with the commands.  A name that is   *)
(* typed in full means its command, and a part of one means it if no       *)
(* other name that can be seen begins with it.                             *)
Means(word, c, mode, privilege) ==
  /\ IsPrefix(word, Table[c].name)
  /\ \/ word = Table[c].name
     \/ \A d \in Siblings(Table[c].parent) \ {c} :
          Visible(d, mode, privilege) => ~IsPrefix(word, Table[d].name)

(* The commands above c and c itself, from the first word on.              *)
Path(c) ==
  LET path[d \in Lists] ==
        IF d = Root THEN <<>> ELSE Append(path[Table[d].parent], d)
  IN  path[c]

=============================================================================
