------------------------------ MODULE CliLine ------------------------------
(***************************************************************************)
(* The line editor of cli_loop (cli/base_cli_lib.c): the buffer a line is  *)
(* typed into, its length and the cursor, what the terminal of the client  *)
(* shows of it, and the lines of before, which can be called back.  The    *)
(* loop keeps the terminal in step by hand, with spaces and backspaces,    *)
(* and keeps the length beside a buffer that is run as a C string.  What   *)
(* becomes of a line is in CliSession.                                     *)
(***************************************************************************)
EXTENDS Integers, Sequences, SequencesExt, FiniteSetsExt

CONSTANTS
  Letters,     (* what is typed; a blank is one of them                    *)
  MaxLength,   (* CLI_MAX_LINE_LENGTH                                      *)
  LineBound,   (* no line gets longer                                      *)
  MaxHistory,  (* MAX_HISTORY                                              *)
  Names,       (* the names that Tab may put in place of a word            *)
  Habits       (* what users do that the loop is not ready for             *)

Nul == "nul"
Space == "_"
Question == "?"

ASSUME LineAssumption ==
  /\ Space \in Letters /\ {Nul, Question} \cap Letters = {}
  /\ MaxLength \in Nat /\ MaxLength >= 3
  /\ MaxHistory \in Nat \ {0}
  /\ Names \subseteq Seq(Letters \ {Space}) \ {<<>>}
  /\ LineBound \in 1..MaxLength
  /\ Habits \subseteq {"edits a password", "redraws a name", "leaves modes in a line"}

VARIABLES
  asks,     (* what is asked for: "name", "password", "command", or "gone" *)
  buf,      (* cmd, l and cursor                                           *)
  term,     (* the last row of the terminal: the prompt, the cells after   *)
            (* it, and the place of its cursor                             *)
  history,  (* the lines of before, the newest last                        *)
  at,       (* in_history                                                  *)
  last      (* history: the line that was run last, other than for help    *)

lineVars == <<asks, buf, term, history, at, last>>

Cells == 0..(MaxLength - 1)

NoLine == [cmd |-> [i \in Cells |-> Nul], l |-> 0, cursor |-> 0]

(* The characters i to j - 1 of a buffer, and the C string in it.          *)
Text(cmd, i, j) == [k \in 1..(j - i) |-> cmd[i + k - 1]]
End(cmd, from) == Min({i \in Cells : i >= from /\ cmd[i] = Nul} \cup {MaxLength})
StrLen(cmd) == End(cmd, 0)
CString(cmd) == Text(cmd, 0, StrLen(cmd))

Stored(text) ==
  [cmd |-> [i \in Cells |-> IF i < Len(text) THEN text[i + 1] ELSE Nul],
   l |-> Len(text), cursor |-> Len(text)]

-----------------------------------------------------------------------------
(* The terminal: a text goes to the cells from the cursor on, a backspace  *)
(* only moves the cursor.                                                  *)
Write(t, text) ==
  [prompt |-> t.prompt,
   cells  |-> [i \in Cells |-> IF i \in t.place..(t.place + Len(text) - 1)
                                THEN text[i - t.place + 1] ELSE t.cells[i]],
   place  |-> t.place + Len(text)]

Back(t, n) == [t EXCEPT !.place = @ - n]

Spaces(n) == [k \in 1..n |-> Space]

NewRow(prompt) == [prompt |-> prompt, cells |-> [i \in Cells |-> Space], place |-> 0]

(* show_prompt and the line behind it, at the start of a line and again.   *)
Prompted(prompt, e) ==
  IF prompt # "command" THEN NewRow(prompt)
  ELSE Back(Write(NewRow(prompt), Text(e.cmd, 0, e.l)), e.l - e.cursor)

Hidden == asks = "password"

(* Of a password, nothing is echoed.                                       *)
Echo(t) == IF Hidden THEN term ELSE t

(* Cleared from where the cursor is.                                       *)
ClearedFromCursor(t, e) == Back(Write(Back(t, e.l), Spaces(e.l)), e.l)

(* cli_clear_line: over the line and back, from the end of it.             *)
Cleared(t, e) ==
  Back(Write(Back(Write(t, Spaces(e.l - e.cursor)), e.l), Spaces(e.l)), e.l)

(* It builds the last of these bytes in cmd.  What becomes of the memory   *)
(* behind cmd, for a line longer than a third of it, is left out.          *)
ClearsWithin(e) == 3 * e.l <= MaxLength

-----------------------------------------------------------------------------
LineInit ==
  /\ asks = "name"
  /\ buf = NoLine
  /\ term = NewRow("name")
  /\ history = <<>>
  /\ at = 0
  /\ last = <<>>

Editing == asks # "gone"

(* Shifted by one character less.                                          *)
ShiftedShort(e, n) ==
  [i \in Cells |-> IF i < e.cursor - n \/ i >= e.l - 1 THEN e.cmd[i]
                   ELSE e.cmd[Min({i + n, e.l, MaxLength - 1})]]

(* The n characters before the cursor go, one after the other: at the end  *)
(* of the line, or inside of it, where what follows moves up each time, of *)
(* a line that is shown, as far as the character behind its end.           *)
Shifted(e, n) ==
  [i \in Cells |-> IF i < e.cursor - n \/ i > e.l THEN e.cmd[i]
                   ELSE e.cmd[Min({i + n, e.l + 1, MaxLength - 1})]]

Cut(e, n) ==
  IF e.l = e.cursor
    THEN [i \in Cells |-> IF i \in (e.cursor - n)..(e.cursor - 1) THEN Nul ELSE e.cmd[i]]
  ELSE IF Hidden THEN e.cmd ELSE Shifted(e, n)

(* Each time what follows is shown again, a blank behind it.               *)
Erase(n) ==
  LET start == buf.cursor - n
      cmd == Cut(buf, n)
      moved == Text(cmd, start, End(cmd, start))
  IN  /\ Editing
      /\ n > 0
      /\ buf' = [cmd |-> cmd, l |-> buf.l - n, cursor |-> start]
      /\ term' = Echo(Back(Write(Back(term, n), moved \o Spaces(n)), Len(moved) + n))
      /\ UNCHANGED <<asks, history, at, last>>

(* Backspace, and Ctrl-W: the blanks before the cursor and the word before *)
(* them.                                                                   *)
EraseChar == Erase(Min({1, buf.cursor}))

WordStart ==
  LET end == Max({0} \cup {i \in 1..buf.cursor : buf.cmd[i - 1] # Space})
  IN  Max({0} \cup {i \in 1..end : buf.cmd[i - 1] = Space})

EraseWord == Erase(buf.cursor - WordStart)

(* Ctrl-U.                                                                 *)
ClearLine ==
  /\ Editing
  /\ Hidden \/ ClearsWithin(buf)
  /\ buf' = NoLine
  /\ term' = IF Hidden THEN term ELSE Cleared(term, buf)
  /\ UNCHANGED <<asks, history, at, last>>

(* Ctrl-K.                                                                 *)
KillToEnd ==
  LET rest == buf.l - buf.cursor IN
  /\ Editing
  /\ rest > 0
  /\ buf' = [buf EXCEPT !.l = buf.cursor,
                          !.cmd = [i \in Cells |-> IF i \in buf.cursor..(buf.l - 1)
                                                     THEN Nul ELSE @[i]]]
  /\ term' = Echo(Back(Write(term, Spaces(rest)), rest))
  /\ UNCHANGED <<asks, history, at, last>>

(* Ctrl-L, which shows the prompt of the commands whatever is asked for.   *)
Redraw ==
  /\ Editing /\ ~Hidden
  /\ asks = "name" => "redraws a name" \in Habits
  /\ term' = Prompted("command", buf)
  /\ UNCHANGED <<asks, buf, history, at, last>>

(* Ctrl-Z, when there is a mode to leave: the length and the cursor stay.  *)
LeaveAllModes ==
  /\ asks = "command"
  /\ buf.l > 0 => "leaves modes in a line" \in Habits
  /\ ClearsWithin(buf)
  /\ buf' = [buf EXCEPT !.cmd = NoLine.cmd]
  /\ term' = Prompted("command", buf')
  /\ UNCHANGED <<asks, history, at, last>>

-----------------------------------------------------------------------------
(* Tab at the end of a line.  One name fits: it is put in place of the     *)
(* last word.  More do: they are listed and the line is shown again.       *)
Complete(name) ==
  LET start == Max({0} \cup {i \in 1..buf.l : buf.cmd[i - 1] = Space})
      typed == Text(buf.cmd, start, buf.l)
  IN  /\ asks = "command"
      /\ buf.cursor = buf.l
      /\ IsPrefix(typed, name)
      /\ start + Len(name) + 1 <= LineBound
      /\ start + Len(name) + 1 < MaxLength
      /\ buf' = Stored(Text(buf.cmd, 0, start) \o name \o <<Space>>)
      /\ term' = Write(Back(term, buf.l - start), name \o <<Space>>)
      /\ UNCHANGED <<asks, history, at, last>>

ListNames ==
  /\ asks = "command"
  /\ buf.cursor = buf.l
  /\ term' = Prompted("command", buf)
  /\ UNCHANGED <<asks, buf, history, at, last>>

(* A line of before, in place of the one that is typed.                    *)
Recall(k) ==
  /\ asks = "command"
  /\ ClearsWithin(buf)
  /\ k + 1 \in DOMAIN history
  /\ at' = k
  /\ buf' = Stored(history[k + 1])
  /\ term' = Write(Cleared(term, buf), history[k + 1])
  /\ UNCHANGED <<asks, history, last>>

(* Up: the one before, and the newest before the first.  Down: the one     *)
(* after, and the first after the newest.                                  *)
Up == Recall(IF at = 0 THEN Len(history) - 1 ELSE at - 1)

Down == Recall(IF at + 1 >= Len(history) THEN 0 ELSE at + 1)

(* Ctrl-B, Ctrl-F, Ctrl-A and Ctrl-E.                                      *)
Moves(to, t) ==
  /\ Editing
  /\ to # buf.cursor
  /\ Hidden => "edits a password" \in Habits
  /\ buf' = [buf EXCEPT !.cursor = to]
  /\ term' = t
  /\ UNCHANGED <<asks, history, at, last>>

Left == buf.cursor > 0 /\ Moves(buf.cursor - 1, Echo(Back(term, 1)))

Right ==
  /\ buf.cursor < buf.l
  /\ Moves(buf.cursor + 1, Echo(Write(term, <<buf.cmd[buf.cursor]>>)))

ToStart ==
  /\ asks = "name" => "redraws a name" \in Habits
  /\ Moves(0, Echo([prompt |-> "command", cells |-> term.cells, place |-> 0]))

ToEnd ==
  /\ buf.cursor < buf.l
  /\ Moves(buf.l, Echo(Write(term, Text(buf.cmd, buf.cursor, buf.l))))

-----------------------------------------------------------------------------
(* A character at the end of the line; one that has no place is written to *)
(* the last cell all the same.                                             *)
AppendLetter(c) ==
  LET cmd == [buf.cmd EXCEPT ![buf.cursor] = c] IN
  /\ Editing
  /\ buf.cursor = buf.l
  /\ buf.l < LineBound
  /\ IF buf.l < MaxLength - 1
       THEN /\ buf' = [cmd |-> cmd, l |-> buf.l + 1, cursor |-> buf.cursor + 1]
            /\ term' = Echo(Write(term, <<c>>))
       ELSE /\ buf' = [buf EXCEPT !.cmd = cmd]
            /\ UNCHANGED term
  /\ UNCHANGED <<asks, history, at, last>>

(* A character inside of it, which is echoed even of a password.           *)
Insert(c) ==
  LET l == IF buf.l >= MaxLength - 2 THEN buf.l - 1 ELSE buf.l
      cmd == [i \in Cells |-> IF i = buf.cursor THEN c
                              ELSE IF i \in (buf.cursor + 1)..(l + 1) THEN buf.cmd[i - 1]
                              ELSE buf.cmd[i]]
      rest == l - buf.cursor + 1
      shown == Back(Write(term, Text(cmd, buf.cursor, l + 1)), rest)
  IN  /\ Editing
      /\ buf.cursor < buf.l
      /\ buf.l < LineBound
      /\ buf' = [cmd |-> cmd, l |-> l + 1, cursor |-> buf.cursor + 1]
      /\ term' = IF Hidden THEN shown ELSE Write(shown, <<c>>)
      /\ UNCHANGED <<asks, history, at, last>>

(* AddHistory that adds no line that is there already.                     *)
AddHistoryOnce(text) ==
  IF \E k \in DOMAIN history : history[k] = text THEN history
  ELSE IF Len(history) = MaxHistory THEN Append(Tail(history), text)
  ELSE Append(history, text)

(* cli_add_history: once if it comes again, unless the history is full.    *)
AddHistory(text) ==
  IF Len(history) = MaxHistory THEN Append(Tail(history), text)
  ELSE IF history # <<>> /\ Last(history) = text THEN history
  ELSE Append(history, text)

(* The next line, for what is asked for then.                              *)
NextLine(next, e) ==
  /\ asks' = next
  /\ buf' = e
  /\ term' = Prompted(next, e)
  /\ at' = 0

(* Enter: a line that is empty is asked for again; a password may be.  The *)
(* line "history", which is not added to it, is left out.                  *)
Enter(next) ==
  /\ Editing
  /\ next \in CASE asks = "name" -> IF buf.l = 0 THEN {"name"} ELSE {"password"}
                [] asks = "password" -> {"name", "command"}
                [] asks = "command" -> IF buf.l = 0 THEN {"command"}
                                       ELSE {"command", "password", "gone"}
  /\ NextLine(next, NoLine)
  /\ IF asks = "command" /\ buf.l > 0
       THEN history' = AddHistory(CString(buf.cmd)) /\ last' = CString(buf.cmd)
       ELSE UNCHANGED <<history, last>>

(* A question mark at the end of a line ends it, and the line is run with  *)
(* it; what was typed before it is there again for the next one.  At the   *)
(* end of a name: see CliSession.                                          *)
Help(next) ==
  /\ asks = "command"
  /\ next \in IF buf.l = 0 THEN {"command"} ELSE {"command", "password", "gone"}
  /\ buf.cursor = buf.l
  /\ buf.l < MaxLength - 1
  /\ NextLine(next, buf)
  /\ UNCHANGED <<history, last>>

(* Ctrl-D leaves from an empty line, and ends one that is not shown.       *)
EndOfInput ==
  \/ asks \in {"name", "command"} /\ buf.l = 0 /\ NextLine("gone", NoLine)
       /\ UNCHANGED <<history, last>>
  \/ asks = "password" /\ \E next \in {"name", "command"} : Enter(next)

LineNext ==
  \/ EraseChar \/ EraseWord \/ ClearLine \/ KillToEnd \/ Redraw \/ LeaveAllModes
  \/ \E name \in Names : Complete(name)
  \/ ListNames \/ Up \/ Down
  \/ Left \/ Right \/ ToStart \/ ToEnd
  \/ \E c \in Letters : AppendLetter(c) \/ Insert(c)
  \/ \E next \in {"name", "password", "command", "gone"} : Enter(next) \/ Help(next)
  \/ EndOfInput

LineSpec == LineInit /\ [][LineNext]_lineVars

-----------------------------------------------------------------------------
(* The line that is edited is the one that is run: the string in the       *)
(* buffer ends where the length says, and the cursor is in it.             *)
LineIsWhole ==
  /\ buf.l \in 0..(MaxLength - 1)
  /\ buf.cursor \in 0..buf.l
  /\ StrLen(buf.cmd) = buf.l

(* The terminal shows the prompt for what is asked, behind it the line and *)
(* nothing else, with its cursor at the cursor; of a password, nothing.    *)
ScreenShowsLine ==
  Editing =>
    LET shown == IF Hidden THEN NoLine ELSE buf
    IN  /\ term.prompt = asks
        /\ term.place = shown.cursor
        /\ \A i \in Cells : term.cells[i] = IF i < shown.l THEN shown.cmd[i] ELSE Space

(* Up on a line that has just begun brings the line that was run last.     *)
UpBringsTheLast ==
  [][at = 0 /\ buf = NoLine /\ Up => CString(buf'.cmd) = last]_lineVars
=============================================================================
