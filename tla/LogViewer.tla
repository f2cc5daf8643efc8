------------------------------ MODULE LogViewer ------------------------------
(***************************************************************************)
(* class LogViewer: the log that the user sees.  The receiver of Model     *)
(* appends lines with update(), which drops the oldest above c_size; each  *)
(* frame of the GUI draws the queue under its lock, and handles the mouse  *)
(* and Ctrl+C there.  The selection is a pair of row numbers, which the    *)
(* viewer keeps from frame to frame while the queue moves under them.      *)
(***************************************************************************)
EXTENDS Integers, Sequences

CONSTANTS c_size,    \* lines retained
          MaxLines   \* bound: lines received

ASSUME ViewerAssumption == c_size \in Nat \ {0} /\ MaxLines \in Nat

Line == 1..MaxLines  \* the n-th line received is n

VARIABLES lines,      \* m_Q
          receiver,   \* where the receiver is in update()
          received,   \* number of calls of update()
          selection,  \* m_selectionAnchor and m_selectionCursor, -1 for none
          isDragging, \* m_isDragging
          clicked,    \* history: the line of the last click that moved the anchor
          clipboard

selected == <<selection, isDragging, clicked, clipboard>>
logVars == <<lines, receiver, received, selected>>

Log == INSTANCE TSQueue WITH Threads <- {"receiver"}, Items <- Line, queue <- lines

Row == 0 .. Len(lines.deq) - 1
At(row) == lines.deq[row + 1]
None == [anchor |-> -1, cursor |-> -1]

LogInit ==
    /\ Log!Init
    /\ receiver = "idle" /\ received = 0
    /\ selection = None /\ isDragging = FALSE
    /\ clicked = 0 /\ clipboard = <<>>

-----------------------------------------------------------------------------
(* update()                                                                *)

Update ==
    /\ receiver = "idle" /\ received < MaxLines
    /\ received' = received + 1
    /\ Log!PushBack("receiver", received')
    /\ receiver' = "notify"
    /\ UNCHANGED selected

NotifyUpdate ==
    /\ receiver = "notify"
    /\ Log!NotifyOne("receiver")
    /\ receiver' = "count"
    /\ UNCHANGED <<received, selected>>

TooMany(count) == count > c_size

Count ==
    /\ receiver = "count"
    /\ receiver' = IF TooMany(Len(lines.deq)) THEN "drop" ELSE "idle"
    /\ UNCHANGED <<lines, received, selected>>

\* Mutant: drops the line that has just come.
DropNewest ==
    /\ receiver = "drop"
    /\ Log!PopBack("receiver")
    /\ receiver' = "count"
    /\ UNCHANGED <<received, selected>>

DropOldest ==
    /\ receiver = "drop"
    /\ Log!PopFront("receiver")
    /\ receiver' = "count"
    /\ UNCHANGED <<received, selected>>

-----------------------------------------------------------------------------
(* DrawPlot(): a frame, all of it under the lock of the queue.             *)

Low(s) == IF s.anchor < s.cursor THEN s.anchor ELSE s.cursor
High(s) == IF s.anchor < s.cursor THEN s.cursor ELSE s.anchor

\* Rows of the selection s that the queue has.
Covered(s) == {row \in Row : s.anchor >= 0 /\ Low(s) <= row /\ row <= High(s)}

\* Drops a selection that no longer fits.
FittingAlways == selection  \* Mutant: no such test.

Fitting == IF \E row \in {selection.anchor, selection.cursor} : row >= Len(lines.deq)
           THEN None ELSE selection

\* The lines that copySelectionToClipboard() takes.
Copied(s) ==
    SubSeq(lines.deq, Low(s) + 1,
           IF High(s) < Len(lines.deq) THEN High(s) + 1 ELSE Len(lines.deq))

\* A frame ends: copySelectionToClipboard() if Ctrl+C was pressed.
EndFrame(s, dragging, released, copy) ==
    /\ selection' = s
    /\ isDragging' = (dragging /\ ~released)
    /\ clipboard' = IF copy /\ s.anchor >= 0 /\ s.cursor >= 0
                    THEN Copied(s) ELSE clipboard
    /\ UNCHANGED <<lines, receiver, received>>

\* A row is clicked; Shift keeps the anchor.
Click(row, shift, copy) ==
    /\ EndFrame([anchor |-> IF shift THEN Fitting.anchor ELSE row, cursor |-> row],
                TRUE, FALSE, copy)
    /\ clicked' = IF shift THEN clicked ELSE At(row)

\* The mouse is dragged over a row.
Drag(row, copy) ==
    /\ isDragging
    /\ EndFrame([Fitting EXCEPT !.cursor = row], TRUE, FALSE, copy)
    /\ UNCHANGED clicked

\* No row is clicked or dragged over; the button may be released.
Idle(released, copy) ==
    /\ EndFrame(Fitting, isDragging, released, copy)
    /\ UNCHANGED clicked

Frame ==
    \E copy \in BOOLEAN :
        \/ \E row \in Row, shift \in BOOLEAN : Click(row, shift, copy)
        \/ \E row \in Row : Drag(row, copy)
        \/ \E released \in BOOLEAN : Idle(released, copy)

Receiver == Update \/ NotifyUpdate \/ Count \/ DropOldest

LogNext == Receiver \/ Frame

LogSpec == LogInit /\ [][LogNext]_logVars

-----------------------------------------------------------------------------
LogTypeOK ==
    /\ Log!TypeOK
    /\ receiver \in {"idle", "notify", "count", "drop"} /\ received \in 0..MaxLines
    /\ selection \in [anchor : -1..c_size, cursor : -1..c_size]
    /\ isDragging \in BOOLEAN
    /\ clicked \in Line \cup {0} /\ clipboard \in Seq(Line)

\* The log shows the newest lines received, without a gap, all of them up to c_size
\* and never more than one above it, in every frame.
LogIsLatest ==
    LET shown == Len(lines.deq) IN
    /\ lines.deq = [i \in 1..shown |-> received - shown + i]
    /\ shown <= c_size + 1
    /\ shown >= IF received < c_size THEN received ELSE c_size

\* What Ctrl+C copies is what the selection, as the frame leaves it, covers.
CopyIsHighlight ==
    [][clipboard' # clipboard =>
          /\ Covered(selection)' # {}
          /\ {clipboard'[i] : i \in 1..Len(clipboard')}
                = {At(row) : row \in Covered(selection)'}]_logVars

-----------------------------------------------------------------------------
\* "A plain click selects just this line": the anchor stays with the line clicked.
ClickSelectsLine == selection.anchor >= 0 => At(selection.anchor) = clicked
=============================================================================
