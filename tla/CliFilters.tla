----------------------------- MODULE CliFilters -----------------------------
(***************************************************************************)
(* The filters a command's output goes through (cli/base_cli_lib.c).  A    *)
(* line "show | begin x | count" asks for a chain of filters, which hangs  *)
(* at the session while the command runs.  A line of output is the set of  *)
(* the patterns that are in it; the empty set is a blank line.             *)
(***************************************************************************)
EXTENDS Naturals, FiniteSets, Sequences, SequencesExt

None == "none"

(* What can follow a bar: a filter that is set up; one whose set-up fails  *)
(* (no such filter, no argument, no such pattern); or one that is not      *)
(* complete (nothing at all, or a name that may be two).                   *)
Match(pattern, invert) == [kind |-> "match", from |-> pattern, to |-> None, invert |-> invert]
Between(from, to) == [kind |-> "range", from |-> from, to |-> to, invert |-> FALSE]
Counter == [kind |-> "count", from |-> None, to |-> None, invert |-> FALSE]
Broken == [kind |-> "broken", from |-> None, to |-> None, invert |-> FALSE]
Unfinished == [kind |-> "unfinished", from |-> None, to |-> None, invert |-> FALSE]

Requests ==
  [kind : {"match", "range", "count", "broken", "unfinished"},
   from : STRING, to : STRING, invert : BOOLEAN]

(* A filter that has just been set up: no line matched, none counted.      *)
Fresh(request) == [asks |-> request, matched |-> FALSE, count |-> 0]

(* Where the words after the bars stop being filters; 0 is nowhere.        *)
Fault(requests) ==
  SelectInSeq(requests, LAMBDA r : r.kind \in {"broken", "unfinished"})

(* What hangs at the session when the call-back is to run, and whether it  *)
(* runs.  "left" is what hung there before.  A filter that cannot be set   *)
(* up ends the line and the chain is taken down; one that is not complete  *)
(* makes cli_find_command return as it is.                                 *)
Install(requests, left) ==
  LET bad == Fault(requests)
      chain == [k \in 1..(IF bad = 0 THEN Len(requests) ELSE bad - 1) |-> Fresh(requests[k])]
  IN  IF requests = <<>> THEN [chain |-> left, runs |-> TRUE]
      ELSE IF bad = 0 THEN [chain |-> chain, runs |-> TRUE]
      ELSE IF requests[bad].kind = "broken" THEN [chain |-> <<>>, runs |-> FALSE]
      ELSE [chain |-> IF bad = 1 THEN left ELSE chain, runs |-> FALSE]

-----------------------------------------------------------------------------
(* Opened that only looks at the lines before.                             *)
OpenedBefore(f, line) == f.matched

(* Whether a range is open at a line.                                      *)
Opened(f, line) == f.matched \/ f.asks.from \in line

Passes(f, line) ==
  CASE f.asks.kind = "match" -> (f.asks.from \in line) # f.asks.invert
    [] f.asks.kind = "range" -> Opened(f, line)
    [] f.asks.kind = "count" -> FALSE

After(f, line) ==
  CASE f.asks.kind = "match" -> f
    [] f.asks.kind = "range" ->
         [f EXCEPT !.matched = Opened(f, line) /\ f.asks.to \notin line]
    [] f.asks.kind = "count" -> [f EXCEPT !.count = @ + (IF line = {} THEN 0 ELSE 1)]

(* A line goes to one filter after the other until one keeps it.           *)
Reaches(chain, line, k) == \A j \in 1..(k - 1) : Passes(chain[j], line)

PrintLine(printed, line) ==
  LET chain == printed.chain IN
  [chain |-> [k \in DOMAIN chain |->
                IF Reaches(chain, line, k) THEN After(chain[k], line) ELSE chain[k]],
   shown |-> IF Reaches(chain, line, Len(chain) + 1)
               THEN Append(printed.shown, [line |-> line]) ELSE printed.shown]

(* What the lines of an output have made of a chain, after so many.        *)
Printing(chain, output) ==
  LET printed[n \in 0..Len(output)] ==
        IF n = 0 THEN [chain |-> chain, shown |-> <<>>]
        ELSE PrintLine(printed[n - 1], output[n])
  IN  printed

(* What is said of some of the numbers, in their order, up to each.        *)
InOrder(some, said) ==
  LET list[n \in 0..Len(said)] ==
        IF n = 0 THEN <<>>
        ELSE IF n \in some THEN Append(list[n - 1], said[n])
        ELSE list[n - 1]
  IN  list

(* The counts, which are printed as the chain is taken down.               *)
Counts(chain) ==
  InOrder({k \in DOMAIN chain : chain[k].asks.kind = "count"},
          [k \in DOMAIN chain |-> [count |-> chain[k].count]])[Len(chain)]

(* What the client sees of the output of a command.                        *)
Shown(chain, output) ==
  LET printed == Printing(chain, output)[Len(output)]
  IN  printed.shown \o Counts(printed.chain)

-----------------------------------------------------------------------------
(* What a filter asks for, of the lines of an output that come to it: the  *)
(* ones at which the pattern is or is not; those from an opening line to   *)
(* the closing one; none, and how many were not blank.                     *)
Kept(r, come, output) ==
  CASE r.kind = "match" -> {n \in come : (r.from \in output[n]) # r.invert}
    [] r.kind = "range" ->
         {n \in come :
            \E j \in come : /\ j <= n /\ r.from \in output[j]
                            /\ \A i \in come \cap j..(n - 1) : r.to \notin output[i]}
    [] r.kind = "count" -> {}

Total(r, come, output) ==
  IF r.kind = "count" THEN Cardinality({n \in come : output[n] # {}}) ELSE 0

(* Filters in a row: the lines that come past the first so many of them.   *)
Past(requests, output) ==
  LET past[k \in 0..Len(requests)] ==
        IF k = 0 THEN DOMAIN output ELSE Kept(requests[k], past[k - 1], output)
  IN  past

Asked(requests, output) ==
  LET past == Past(requests, output)
      lines == InOrder(past[Len(requests)], [n \in DOMAIN output |-> [line |-> output[n]]])
      counts == InOrder({k \in DOMAIN requests : requests[k].kind = "count"},
                        [k \in DOMAIN requests |->
                           [count |-> Total(requests[k], past[k - 1], output)]])
  IN  lines[Len(output)] \o counts[Len(requests)]
=============================================================================
