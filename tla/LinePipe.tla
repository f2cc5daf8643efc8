------------------------------- MODULE LinePipe -------------------------------
(***************************************************************************)
(* What the program promises its user of the lines: those that are read    *)
(* from the ports are shown, each once, in the order of the reads.         *)
(***************************************************************************)
EXTENDS Sequences

CONSTANT Lines

VARIABLES pipe,   \* the lines read and not yet shown
          shown   \* the lines shown

Init == pipe = <<>> /\ shown = <<>>

Read(line) == pipe' = Append(pipe, line) /\ shown' = shown

Show ==
    /\ pipe # <<>>
    /\ pipe' = Tail(pipe)
    /\ shown' = Append(shown, Head(pipe))

Next == Show \/ \E line \in Lines : Read(line)

Spec == Init /\ [][Next]_<<pipe, shown>>
=============================================================================
