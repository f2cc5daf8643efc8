----------------------------- MODULE MCLogViewer -----------------------------
(* A small instance of LogViewer: a log of three lines that overflows three  *)
(* times.                                                                    *)
EXTENDS LogViewer

MCSize == 3
MCLines == 6
=============================================================================
