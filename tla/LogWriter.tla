----------------------------- MODULE LogWriter -----------------------------
(***************************************************************************)
(* The rotating log (RotatingFileWriter, internal/logger/logger.go) over a *)
(* directory that outlives the process.  A line is its number in the order *)
(* of the calls of Write that stored one; a file is the set of its lines:  *)
(* number 0 is path, number i is path.i.  Every call of the system is one  *)
(* step, so that the process may die between any two of them, and may fail *)
(* where the code goes on after a failure.                                 *)
(***************************************************************************)
EXTENDS Naturals

CONSTANTS
  Top,      \* the largest number of a file (bounds log_max_files)
  Lines,    \* lines stored in all (bounds the run)
  Lengths   \* lengths of lines

ASSUME LogAssumption == Top \in Nat \ {0} /\ Lines \in Nat /\ Lengths \subseteq Nat

Slots == 0..Top

VARIABLES
  there,    \* the files that exist
  lines,    \* what is in each of them
  bytes,    \* the length of path
  file,     \* w.file: "none" before Setup, "open", "closed"
  size,     \* w.size
  maxSize,  \* w.maxSize
  maxFiles, \* w.maxFiles
  call,     \* where Write is
  i,        \* the loop of rotate
  p,        \* the length of the line being written
  next,     \* number of the next line
  stuck     \* a file could not be moved out of the way in this rotation

disk == <<there, lines, bytes>>
writer == <<file, size, maxSize, maxFiles>>
logVars == <<disk, writer, call, i, p, next, stuck>>

LogInit ==
  /\ there = {} /\ lines = [n \in Slots |-> {}] /\ bytes = 0
  /\ file = "none" /\ size = 0 /\ maxSize = 0 /\ maxFiles = 0
  /\ call = "idle" /\ i = 0 /\ p = 0 /\ next = 0
  /\ stuck = FALSE

(* os.OpenFile creates path or appends to it; Stat tells its length.       *)
Opens ==
  /\ file' = "open"
  /\ there' = there \cup {0}
  /\ size' = bytes
  /\ UNCHANGED <<lines, bytes>>

(* os.Rename replaces what is there under the new name.                    *)
Renames(src) ==
  /\ src \in there
  /\ there' = (there \ {src}) \cup {src + 1}
  /\ lines' = [lines EXCEPT ![src] = {}, ![src + 1] = lines[src]]
  /\ bytes' = IF src = 0 THEN 0 ELSE bytes

-----------------------------------------------------------------------------
(* NewRotatingFileWriter, without the open.                                *)
Configured(mb, files) ==
  /\ maxSize' = IF mb < 1 THEN 10 ELSE mb
  /\ maxFiles' = IF files < 1 THEN 5 ELSE files

WriteBegins ==
  /\ file # "none" /\ call = "idle"
  /\ next < Lines
  /\ p' \in Lengths
  /\ \/ /\ size + p' <= maxSize
        /\ call' = "store"
        /\ UNCHANGED <<writer, i>>
     \/ /\ size + p' > maxSize               \* rotate
        /\ call' = "shift"
        /\ i' = maxFiles - 1
        /\ file' = "closed"
        /\ UNCHANGED <<size, maxSize, maxFiles>>
  /\ UNCHANGED <<disk, next, stuck>>

(* Mutant: the loop runs down to zero.                                     *)
ShiftToZero ==
  /\ call = "shift"
  /\ \/ Renames(i) /\ UNCHANGED stuck
     \/ stuck' = (stuck \/ i \in there) /\ UNCHANGED disk
  /\ i' = i - 1
  /\ UNCHANGED <<writer, call, p, next>>

(* path.i becomes path.(i+1); an error is ignored.                         *)
Shift ==
  /\ call = "shift" /\ i >= 1
  /\ \/ Renames(i) /\ UNCHANGED stuck
     \/ stuck' = (stuck \/ i \in there) /\ UNCHANGED disk
  /\ i' = i - 1
  /\ UNCHANGED <<writer, call, p, next>>

(* Mutant: the loop ends before path.1.                                    *)
MovePathEarly ==
  /\ call = "shift" /\ i <= 1
  /\ \/ Renames(0) /\ call' = "oldest"
     \/ call' = "open" /\ UNCHANGED disk
  /\ UNCHANGED <<writer, i, p, next, stuck>>

MovePath ==
  /\ call = "shift" /\ i = 0
  /\ \/ Renames(0) /\ call' = "oldest"
     \/ call' = "open" /\ UNCHANGED disk
  /\ UNCHANGED <<writer, i, p, next, stuck>>

RemoveOldest ==
  /\ call = "oldest"
  /\ \/ /\ there' = there \ {maxFiles + 1}
        /\ lines' = [lines EXCEPT ![maxFiles + 1] = {}]
     \/ UNCHANGED <<there, lines>>
  /\ call' = "open"
  /\ UNCHANGED <<bytes, writer, i, p, next, stuck>>

(* When path cannot be opened, w.file and w.size stay what they were: a    *)
(* closed file, and the size that led here.                                *)
Reopen ==
  /\ call = "open"
  /\ \/ Opens /\ UNCHANGED <<maxSize, maxFiles>>
     \/ UNCHANGED <<disk, writer>>
  /\ call' = "store"
  /\ UNCHANGED <<i, p, next, stuck>>

Store ==
  /\ call = "store"
  /\ \/ /\ file = "open"
        /\ lines' = [lines EXCEPT ![0] = @ \cup {next}]
        /\ bytes' = bytes + p
        /\ size' = size + p
        /\ next' = next + 1
     \/ UNCHANGED <<lines, bytes, size, next>>
  /\ call' = "idle" /\ p' = 0 /\ stuck' = FALSE
  /\ UNCHANGED <<there, file, maxSize, maxFiles, i>>

Write == WriteBegins \/ Shift \/ MovePath \/ RemoveOldest \/ Reopen \/ Store

(* CloseLog; Write takes the same lock.                                    *)
CloseLog ==
  /\ call = "idle"
  /\ file' = IF file = "none" THEN "none" ELSE "closed"
  /\ UNCHANGED <<disk, size, maxSize, maxFiles, call, i, p, next, stuck>>

(* The process is gone, wherever it was.                                   *)
LogDies ==
  /\ file' = "none" /\ size' = 0 /\ maxSize' = 0 /\ maxFiles' = 0
  /\ call' = "idle" /\ i' = 0 /\ p' = 0 /\ stuck' = FALSE
  /\ UNCHANGED <<disk, next>>

-----------------------------------------------------------------------------
LogTypeOK ==
  /\ there \subseteq Slots /\ lines \in [Slots -> SUBSET Nat] /\ bytes \in Nat
  /\ file \in {"none", "open", "closed"}
  /\ size \in Nat /\ maxSize \in Nat /\ maxFiles \in 0..(Top - 1)
  /\ file # "none" => maxFiles > 0
  /\ call \in {"idle", "shift", "oldest", "open", "store"}
  /\ i \in 0..Top /\ p \in Nat /\ next \in Nat /\ stuck \in BOOLEAN

(* "Количество старых файлов логов для хранения" (config.go:267): while    *)
(* every old file could be moved out of the way, a rotation destroys only  *)
(* lines older than all that are left in path and its maxFiles successors, *)
(* wherever earlier processes died and whatever else failed                *)
(* (logger.go:81-98).                                                      *)
OldestGoFirst ==
  [][~stuck' =>
       \A l \in UNION {lines[n] : n \in Slots} :
         \/ \E n \in Slots : l \in lines'[n]
         \/ \A n \in 0..maxFiles : \A m \in lines'[n] : l < m]_logVars
=============================================================================
