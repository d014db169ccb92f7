----------------------------- MODULE BoundedLog -----------------------------
(***************************************************************************)
(* _BoundedLogWriter (backend/app/runtime/processes.py): the daemon's lines *)
(* are appended to a file that is renamed to its one backup when the next   *)
(* line would not fit.  The controller may be killed between any two steps  *)
(* and opens the files again, as a next start does.                         *)
(*                                                                          *)
(* A line is a number and a size with its newline; what a write that is cut *)
(* off leaves on disk are whole lines.                                      *)
(***************************************************************************)
EXTENDS Naturals, Sequences, FiniteSetsExt, SequencesExt

CONSTANTS
    MaxBytes,    \* max_bytes
    LineSizes,   \* sizes of the lines a daemon writes
    MaxOld,      \* bound: lines in a log from before there was a limit
    MaxWritten   \* bound: lines of a behaviour, the old ones included

ASSUME BoundedLogAssumption ==
    /\ MaxBytes \in Nat \ {0} /\ LineSizes \subseteq Nat \ {0}
    /\ MaxOld \in Nat /\ MaxWritten \in Nat

VARIABLES
    file,     \* the lines of the current file
    backup,   \* the lines of the backup, none when there is no backup
    size,     \* self.size
    line,     \* the line that is being written
    tail,     \* the lines a trim has read, in memory only until they are rewritten
    step,     \* where the writer is; "closed" when there is none, "none" at first
    saved,    \* history: every line that was on disk, in order; begun again where
              \* an interrupted trim has lost lines
    longest   \* history: the longest line that was written or, last of all, cut off

log == <<file, backup, size, line, tail, step, saved, longest>>

NoLine == [number |-> 0, size |-> 0]

\* Lines of the given sizes, numbered from 1.
Numbered(sizes) == [i \in DOMAIN sizes |-> [number |-> i, size |-> sizes[i]]]
Bytes(lines) == SumFunction([i \in DOMAIN lines |-> lines[i].size])

LogInit ==
    /\ file = <<>> /\ backup = <<>> /\ size = 0 /\ line = NoLine /\ tail = <<>>
    /\ step = "none" /\ saved = <<>> /\ longest = 0

\* What an earlier controller, perhaps one without a limit, has left.
FindLog ==
    /\ step = "none"
    /\ \E sizes \in BoundedSeq(LineSizes, MaxOld) : file' = Numbered(sizes)
    /\ saved' = file'
    /\ step' = "closed"
    /\ UNCHANGED <<backup, size, line, tail, longest>>

\* __init__; a log over the limit is trimmed.
Open ==
    /\ step = "closed"
    /\ size' = Bytes(file)
    /\ step' = IF Bytes(file) > MaxBytes THEN "trim" ELSE "ready"
    /\ UNCHANGED <<file, backup, line, saved, tail, longest>>

\* _trim_existing keeps the lines whose preceding newline is within the last
\* max_bytes.
KeptTail(lines) ==
    LET from == {i \in DOMAIN lines : Bytes(SubSeq(lines, i, Len(lines))) < MaxBytes}
    IN  IF from = {} THEN <<>> ELSE SubSeq(lines, Min(from), Len(lines))

\* For the history: the newest line that is cut off, with the newline before it.
CutOff(lines) == lines[Len(lines) - Len(KeptTail(lines))].size + 1

\* The end of the file is read and the file truncated ...
Truncate ==
    /\ step = "trim"
    /\ tail' = KeptTail(file) /\ file' = <<>>
    /\ longest' = Max({longest, CutOff(file)})
    /\ step' = "rewrite"
    /\ UNCHANGED <<backup, size, line, saved>>

\* ... and the tail written again.
Rewrite ==
    /\ step = "rewrite"
    /\ file' = tail /\ size' = Bytes(tail) /\ tail' = <<>>
    /\ step' = "ready"
    /\ UNCHANGED <<backup, line, saved, longest>>

\* The controller ends, or the write fails, before all of the tail is on disk
\* again: the rest of it, its newest lines, is lost.  Nothing holds it but the
\* controller's memory.
LoseTail ==
    /\ step = "rewrite"
    /\ \E n \in 0 .. Len(tail) : file' = SubSeq(tail, 1, n)
    /\ saved' = file'
    /\ step' = "closed" /\ size' = 0 /\ line' = NoLine /\ tail' = <<>>
    /\ UNCHANGED <<backup, longest>>

\* The condition before _rotate.
NeedsRotation(bytes) == size # 0 /\ size + bytes > MaxBytes

\* write_line: a line over the limit is cut to its end.
WriteLine ==
    /\ step = "ready" /\ Len(saved) < MaxWritten
    /\ \E bytes \in LineSizes :
         LET payload == Min({bytes, MaxBytes})
         IN  /\ line' = [number |-> Len(saved) + 1, size |-> payload]
             /\ longest' = Max({longest, payload})
             /\ step' = IF NeedsRotation(payload) THEN "unlink" ELSE "write"
    /\ UNCHANGED <<file, backup, size, saved, tail>>

\* _rotate: the stream is closed and the backup removed, ...
Unlink ==
    /\ step = "unlink"
    /\ backup' = <<>>
    /\ step' = "replace"
    /\ UNCHANGED <<file, size, line, saved, tail, longest>>

\* ... the file becomes the backup, ...
Replace ==
    /\ step = "replace"
    /\ backup' = file /\ file' = <<>>
    /\ step' = "reopen"
    /\ UNCHANGED <<size, line, saved, tail, longest>>

\* Mutant: the count goes on over the rotation.
ReopenCounting ==
    /\ step = "reopen"
    /\ step' = "write"
    /\ UNCHANGED <<file, backup, size, line, saved, tail, longest>>

\* ... and a new file is opened.
Reopen ==
    /\ step = "reopen"
    /\ size' = 0
    /\ step' = "write"
    /\ UNCHANGED <<file, backup, line, saved, tail, longest>>

\* The line is written and flushed.
Flush ==
    /\ step = "write"
    /\ file' = Append(file, line) /\ saved' = Append(saved, line)
    /\ size' = size + line.size
    /\ step' = "ready"
    /\ UNCHANGED <<backup, line, tail, longest>>

\* close, an OSError in any other step (after which the line is given up and the
\* log closed), or the end of the controller.
Close ==
    /\ step \notin {"none", "closed", "rewrite"}
    /\ step' = "closed" /\ size' = 0 /\ line' = NoLine /\ tail' = <<>>
    /\ UNCHANGED <<file, backup, saved, longest>>

LogNext ==
    \/ FindLog \/ Open \/ Truncate \/ Rewrite \/ LoseTail \/ WriteLine
    \/ Unlink \/ Replace \/ Reopen \/ Flush \/ Close

LogSpec == LogInit /\ [][LogNext]_log

-----------------------------------------------------------------------------
\* The backup and the file together, and in a trim the lines in its memory, are the
\* end of what was saved, without a hole; neither is over the limit once the log has
\* been opened; and lines go, in a rotation or in the cut of an old log, only when
\* what is left and one more line would be over the limit.  This holds wherever the
\* writer is interrupted, with one exception: a trim interrupted between truncate
\* and the end of its write loses lines that fit, and what it left is then what
\* counts as saved.
LogIsRecent ==
    LET kept == backup \o file \o tail
    IN  /\ IsSuffix(kept, saved)
        /\ Bytes(backup) <= MaxBytes
        /\ step \notin {"none", "closed", "trim"} => Bytes(file) <= MaxBytes
        /\ Len(kept) < Len(saved) => Bytes(kept) + longest > MaxBytes
=============================================================================
