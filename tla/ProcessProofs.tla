--------------------------- MODULE ProcessProofs ---------------------------
(***************************************************************************)
(* Proofs about Process and LogWriter: whatever fails and wherever the     *)
(* process dies, the files of the log stay in order, and a rotation        *)
(* destroys the oldest lines only.                                         *)
(***************************************************************************)
EXTENDS Process, Induction, SequenceTheorems

(* A file that is not there holds nothing.                                 *)
NothingElsewhere == \A n \in Slots : n \notin there => lines[n] = {}

(* The higher its number, the older a file; nothing is newer than next.    *)
InOrder ==
  /\ \A m, n \in Slots : m < n => \A k \in lines[m], l \in lines[n] : l < k
  /\ \A n \in Slots : \A l \in lines[n] : l < next

(* The file is closed while rotate runs; the place above the next file to  *)
(* be moved is free, or the last one, or some file could not be moved.     *)
Rotating ==
  /\ call # "idle" => file # "none"
  /\ call \in {"shift", "oldest", "open"} => file = "closed"
  /\ file = "open" => 0 \in there
  /\ file # "none" => run \in {"listen", "serve", "leave"}
  /\ call = "shift" =>
       /\ i <= maxFiles - 1
       /\ stuck \/ i + 1 = maxFiles \/ (i + 1) \notin there

LogInv == LogTypeOK /\ NothingElsewhere /\ InOrder /\ Rotating

-----------------------------------------------------------------------------
(* The constants of the log.                                               *)
LEMMA TopIsNat == Top \in Nat /\ Top >= 1 /\ Lengths \subseteq Nat
BY LogAssumption

(* Zero is a number of a file and of a pass.                               *)
LEMMA ZeroFits == 0 \in 0..(Top - 1) /\ 0 \in 0..Top
BY TopIsNat

(* What a rename leaves behind.                                            *)
LEMMA Moved ==
  ASSUME LogTypeOK, NothingElsewhere, InOrder,
         NEW src \in Slots, src + 1 \in Slots, Renames(src), next' = next
  PROVE  /\ there' \subseteq Slots /\ lines' \in [Slots -> SUBSET Nat] /\ bytes' \in Nat
         /\ NothingElsewhere' /\ InOrder'
<1>0. src \in Nat /\ src + 1 \in Nat BY TopIsNat DEF Slots
<1>1. /\ lines \in [Slots -> SUBSET Nat] /\ bytes \in Nat /\ there \subseteq Slots
      /\ next \in Nat
  BY DEF LogTypeOK
<1>2. /\ lines' = [lines EXCEPT ![src] = {}, ![src + 1] = lines[src]]
      /\ there' = (there \ {src}) \cup {src + 1}
      /\ bytes' = IF src = 0 THEN 0 ELSE bytes
  BY DEF Renames
<1>3. \A n \in Slots : lines'[n] = IF n = src + 1 THEN lines[src]
                                   ELSE IF n = src THEN {} ELSE lines[n]
  BY <1>0, <1>1, <1>2
<1>4. there' \subseteq Slots /\ lines' \in [Slots -> SUBSET Nat] /\ bytes' \in Nat
  BY <1>0, <1>1, <1>2
<1>5. NothingElsewhere'
  BY <1>0, <1>2, <1>3 DEF NothingElsewhere
<1>6. InOrder'
  <2>1. ASSUME NEW m \in Slots, NEW n \in Slots, m < n,
               NEW k \in lines'[m], NEW l \in lines'[n]
        PROVE  l < k
    <3>0. m \in Nat /\ n \in Nat BY TopIsNat DEF Slots
    <3>1. PICK a \in Slots : k \in lines[a] /\ (a = m \/ (a = src /\ m = src + 1)) /\ m # src
      BY <1>0, <1>3, <2>1
    <3>2. PICK b \in Slots : l \in lines[b] /\ (b = n \/ (b = src /\ n = src + 1)) /\ n # src
      BY <1>0, <1>3, <2>1
    <3>3. a < b
      <4>1. a \in Nat /\ b \in Nat BY TopIsNat DEF Slots
      <4>2. CASE b = n
        BY <4>1, <4>2, <1>0, <2>1, <3>0, <3>1
      <4>3. CASE b = src /\ n = src + 1
        BY <4>1, <4>3, <1>0, <2>1, <3>0, <3>1
      <4> QED BY <4>2, <4>3, <3>2
    <3> QED BY <3>1, <3>2, <3>3 DEF InOrder
  <2>2. ASSUME NEW n \in Slots, NEW l \in lines'[n] PROVE l < next'
    BY <2>2, <1>0, <1>3 DEF InOrder
  <2> QED BY <2>1, <2>2 DEF InOrder
<1> QED BY <1>4, <1>5, <1>6

(* The steps that leave files as they are, or create path.                 *)
LEMMA Created ==
  ASSUME LogTypeOK, NothingElsewhere, InOrder, Opens, next' = next
  PROVE  /\ there' \subseteq Slots /\ lines' \in [Slots -> SUBSET Nat]
         /\ bytes' \in Nat /\ size' \in Nat
         /\ NothingElsewhere' /\ InOrder'
<1>1. 0 \in Slots BY TopIsNat DEF Slots
<1> QED BY <1>1 DEF LogTypeOK, NothingElsewhere, InOrder, Opens

(* WriteBegins keeps the invariant (logger.go:66-84).                      *)
LEMMA WriteBeginsKeeps ==
  ASSUME LogInv, WriteBegins, UNCHANGED iniVars
  PROVE  LogInv'
<1> USE DEF LogInv, WriteBegins, iniVars, disk, writer
<1>1. /\ maxFiles \in 0..(Top - 1) /\ maxFiles > 0 /\ Top \in Nat /\ p' \in Nat
  BY TopIsNat DEF LogTypeOK
<1>2. maxFiles \in Nat /\ maxFiles - 1 \in 0..Top BY <1>1
<1>3. LogTypeOK'
  BY <1>1, <1>2 DEF LogTypeOK
<1>4. NothingElsewhere' /\ InOrder'
  BY DEF NothingElsewhere, InOrder
<1>5. Rotating'
  BY <1>1, <1>2 DEF Rotating
<1> QED BY <1>3, <1>4, <1>5

(* Shift keeps the invariant (logger.go:84-88).                            *)
LEMMA ShiftKeeps ==
  ASSUME LogInv, Shift, UNCHANGED iniVars
  PROVE  LogInv'
<1> USE DEF Shift, iniVars, writer
<1>1. /\ maxFiles \in 0..(Top - 1) /\ maxFiles > 0 /\ Top \in Nat
      /\ i \in 0..Top /\ i >= 1 /\ i <= maxFiles - 1
  BY TopIsNat DEF LogInv, LogTypeOK, Rotating
<1>2. /\ i \in Nat /\ maxFiles \in Nat /\ i \in Slots /\ i + 1 \in Slots
      /\ i - 1 \in 0..Top /\ (i - 1) + 1 = i
  BY <1>1 DEF Slots
<1>3. CASE Renames(i) /\ UNCHANGED stuck
  <2>1. /\ there' \subseteq Slots /\ lines' \in [Slots -> SUBSET Nat] /\ bytes' \in Nat
        /\ NothingElsewhere' /\ InOrder'
    BY <1>2, <1>3, Moved DEF LogInv
  <2>2. LogTypeOK' BY <1>1, <1>2, <1>3, <2>1 DEF LogInv, LogTypeOK
  <2>3. i \notin there' BY <1>2, <1>3 DEF Renames
  <2>4. Rotating' BY <1>1, <1>2, <2>3 DEF LogInv, Rotating
  <2> QED BY <2>1, <2>2, <2>4 DEF LogInv
<1>4. CASE stuck' = (stuck \/ i \in there) /\ UNCHANGED disk
  <2>1. LogTypeOK' BY <1>1, <1>2, <1>4 DEF LogInv, LogTypeOK, disk
  <2>2. NothingElsewhere' /\ InOrder'
    BY <1>4 DEF LogInv, NothingElsewhere, InOrder, disk
  <2>3. stuck' \/ i \notin there'
    <3>1. CASE i \in there BY <3>1, <1>4
    <3>2. CASE i \notin there BY <3>2, <1>4 DEF disk
    <3> QED BY <3>1, <3>2
  <2>4. Rotating' BY <1>1, <1>2, <2>3 DEF LogInv, Rotating
  <2> QED BY <2>1, <2>2, <2>4 DEF LogInv
<1> QED BY <1>3, <1>4

(* MovePath keeps the invariant (logger.go:90-92).                         *)
LEMMA MovePathKeeps ==
  ASSUME LogInv, MovePath, UNCHANGED iniVars
  PROVE  LogInv'
<1> USE DEF MovePath, iniVars, writer
<1>1. 0 \in Slots /\ 0 + 1 \in Slots BY TopIsNat DEF Slots
<1>2. CASE Renames(0) /\ call' = "oldest"
  <2>1. /\ there' \subseteq Slots /\ lines' \in [Slots -> SUBSET Nat] /\ bytes' \in Nat
        /\ NothingElsewhere' /\ InOrder'
    BY <1>1, <1>2, Moved DEF LogInv
  <2>2. LogTypeOK' BY <1>2, <2>1 DEF LogInv, LogTypeOK
  <2>3. Rotating' BY <1>2 DEF LogInv, Rotating
  <2> QED BY <2>1, <2>2, <2>3 DEF LogInv
<1>3. CASE call' = "open" /\ UNCHANGED disk
  BY <1>3 DEF LogInv, LogTypeOK, NothingElsewhere, InOrder, Rotating, disk
<1> QED BY <1>2, <1>3

(* RemoveOldest keeps the invariant (logger.go:94-95).                     *)
LEMMA RemoveOldestKeeps ==
  ASSUME LogInv, RemoveOldest, UNCHANGED iniVars
  PROVE  LogInv'
<1> USE DEF RemoveOldest, iniVars, writer
<1>1. lines \in [Slots -> SUBSET Nat] BY DEF LogInv, LogTypeOK
<1>2. \A n \in Slots : lines'[n] = lines[n] \/ lines'[n] = {}
  BY <1>1
<1>3. LogTypeOK' BY <1>1 DEF LogInv, LogTypeOK
<1>4. NothingElsewhere' BY <1>1 DEF LogInv, NothingElsewhere
<1>5. InOrder' BY <1>2 DEF LogInv, InOrder
<1>6. Rotating' BY DEF LogInv, Rotating
<1> QED BY <1>3, <1>4, <1>5, <1>6 DEF LogInv

(* Reopen keeps the invariant (logger.go:90-98).                           *)
LEMMA ReopenKeeps ==
  ASSUME LogInv, Reopen, UNCHANGED iniVars
  PROVE  LogInv'
<1> USE DEF Reopen, iniVars
<1>1. CASE Opens /\ UNCHANGED <<maxSize, maxFiles>>
  <2>1. /\ there' \subseteq Slots /\ lines' \in [Slots -> SUBSET Nat]
        /\ bytes' \in Nat /\ size' \in Nat
        /\ NothingElsewhere' /\ InOrder'
    BY <1>1, Created DEF LogInv
  <2>2. LogTypeOK' BY <1>1, <2>1 DEF LogInv, LogTypeOK, Opens, Rotating
  <2>3. Rotating' BY <1>1 DEF LogInv, Rotating, Opens
  <2> QED BY <2>1, <2>2, <2>3 DEF LogInv
<1>2. CASE UNCHANGED <<disk, writer>>
  BY <1>2 DEF LogInv, LogTypeOK, NothingElsewhere, InOrder, Rotating, disk, writer
<1> QED BY <1>1, <1>2

(* Store keeps the invariant (logger.go:70-79).                            *)
LEMMA StoreKeeps ==
  ASSUME LogInv, Store, UNCHANGED iniVars
  PROVE  LogInv'
<1> USE DEF Store, iniVars
<1>0. /\ lines \in [Slots -> SUBSET Nat] /\ next \in Nat /\ p \in Nat
      /\ bytes \in Nat /\ size \in Nat /\ 0 \in Slots
  BY TopIsNat DEF LogInv, LogTypeOK, Slots
<1>1. Rotating' BY DEF LogInv, Rotating
<1>2. CASE /\ file = "open"
           /\ lines' = [lines EXCEPT ![0] = @ \cup {next}]
           /\ bytes' = bytes + p /\ size' = size + p /\ next' = next + 1
  <2>1. \A n \in Slots : lines'[n] = IF n = 0 THEN lines[0] \cup {next} ELSE lines[n]
    BY <1>0, <1>2
  <2>2. LogTypeOK'
    <3>1. lines[0] \cup {next} \in SUBSET Nat BY <1>0
    <3>2. lines' \in [Slots -> SUBSET Nat] BY <1>0, <1>2, <3>1
    <3>3. bytes' \in Nat /\ size' \in Nat /\ next' \in Nat BY <1>0, <1>2
    <3> QED BY <3>2, <3>3 DEF LogInv, LogTypeOK
  <2>3. NothingElsewhere'
    <3>1. 0 \in there' BY <1>2 DEF LogInv, Rotating
    <3> QED BY <2>1, <3>1 DEF LogInv, NothingElsewhere
  <2>4. InOrder'
    <3>1. ASSUME NEW m \in Slots, NEW n \in Slots, m < n,
                 NEW k \in lines'[m], NEW l \in lines'[n]
          PROVE  l < k
      <4>1. n # 0 /\ l \in lines[n] BY <2>1, <3>1, TopIsNat DEF Slots
      <4>2. k \in lines[m] \/ k = next BY <2>1, <3>1
      <4> QED BY <4>1, <4>2, <3>1 DEF LogInv, InOrder
    <3>2. ASSUME NEW n \in Slots, NEW l \in lines'[n] PROVE l < next'
      <4>1. l \in Nat BY <2>2 DEF LogTypeOK
      <4>2. l = next \/ l < next BY <2>1, <3>2 DEF LogInv, InOrder
      <4> QED BY <4>1, <4>2, <1>0, <1>2
    <3> QED BY <3>1, <3>2 DEF InOrder
  <2> QED BY <1>1, <2>2, <2>3, <2>4 DEF LogInv
<1>3. CASE UNCHANGED <<lines, bytes, size, next>>
  BY <1>0, <1>1, <1>3 DEF LogInv, LogTypeOK, NothingElsewhere, InOrder
<1> QED BY <1>2, <1>3

(* Every step of a Write keeps the invariant (logger.go:66-98).            *)
LEMMA WriteKeeps ==
  ASSUME LogInv, Logs
  PROVE  LogInv'
BY WriteBeginsKeeps, ShiftKeeps, MovePathKeeps, RemoveOldestKeeps, ReopenKeeps,
   StoreKeeps DEF Logs, Write

(* Setup opens the log of a process that had none.                         *)
LEMMA SetsUpKeeps ==
  ASSUME LogInv, SetsUpLog
  PROVE  LogInv'
<1> USE DEF SetsUpLog
<1>0. file = "none" /\ call = "idle" BY DEF LogInv, Rotating
<1>1. CASE config.log_file = Empty /\ UNCHANGED logVars
  BY <1>0, <1>1 DEF LogInv, LogTypeOK, NothingElsewhere, InOrder, Rotating,
                    logVars, disk, writer
<1>2. CASE /\ config.log_max_files \in 1..(Top - 1) /\ config.log_max_size \in Nat
           /\ Configured(config.log_max_size, config.log_max_files)
           /\ Opens /\ UNCHANGED <<call, i, p, next, stuck>>
  <2>1. /\ there' \subseteq Slots /\ lines' \in [Slots -> SUBSET Nat]
        /\ bytes' \in Nat /\ size' \in Nat
        /\ NothingElsewhere' /\ InOrder'
    BY <1>2, Created DEF LogInv
  <2>2. maxFiles' \in 1..(Top - 1) /\ maxSize' \in Nat
    BY <1>2, TopIsNat DEF Configured
  <2>3. maxFiles' \in 0..(Top - 1) /\ maxFiles' > 0
    BY <2>2, TopIsNat
  <2>4. LogTypeOK' BY <1>2, <2>1, <2>2, <2>3 DEF LogInv, LogTypeOK, Opens
  <2>5. Rotating' BY <1>0, <1>2 DEF Rotating, Opens
  <2> QED BY <2>1, <2>4, <2>5 DEF LogInv
<1> QED BY <1>1, <1>2

(* So do the steps that leave the log alone.                               *)
LEMMA RestKeeps ==
  ASSUME LogInv, UNCHANGED logVars,
         file # "none" => run' \in {"listen", "serve", "leave"}
  PROVE  LogInv'
BY DEF LogInv, LogTypeOK, NothingElsewhere, InOrder, Rotating, logVars, disk, writer

(* Every step of the process keeps the invariant.                          *)
LEMMA ProcKeeps == LogInv /\ [ProcNext]_procVars => LogInv'
<1> SUFFICES ASSUME LogInv, [ProcNext]_procVars PROVE LogInv'
  OBVIOUS
<1>0. file # "none" => run \in {"listen", "serve", "leave"}
  BY DEF LogInv, Rotating
<1>1. CASE Starts \/ Loads \/ LoadFails \/ SaveOpens \/ SaveWrites
  <2>1. run \in {"off", "load", "create", "write"} /\ UNCHANGED logVars
    BY <1>1 DEF Starts, Loads, LoadFails, SaveOpens, SaveWrites
  <2> QED BY <1>0, <2>1, RestKeeps
<1>7. CASE Edit \/ Validates \/ Serves
  <2>1. UNCHANGED logVars /\ (run' = run \/ run = "check" \/ run' = "serve")
    BY <1>7 DEF Edit, Validates, Serves
  <2> QED BY <1>0, <2>1, RestKeeps
<1>2. CASE SetsUpLog BY <1>2, SetsUpKeeps
<1>3. CASE Stops
  BY <1>3 DEF Stops, CloseLog, LogInv, LogTypeOK, NothingElsewhere, InOrder,
              Rotating, disk, writer
<1>4. CASE Logs BY <1>4, WriteKeeps
<1>5. CASE Dies
  <2>1. LogTypeOK'
    BY <1>5, ZeroFits DEF Dies, LogDies, LogInv, LogTypeOK, disk
  <2>2. NothingElsewhere' /\ InOrder'
    BY <1>5 DEF Dies, LogDies, LogInv, NothingElsewhere, InOrder, disk
  <2>3. Rotating'
    BY <1>5 DEF Dies, LogDies, Rotating
  <2> QED BY <2>1, <2>2, <2>3 DEF LogInv
<1>6. CASE UNCHANGED procVars
  BY <1>0, <1>6, RestKeeps DEF procVars, iniVars
<1> QED BY <1>1, <1>2, <1>3, <1>4, <1>5, <1>6, <1>7 DEF ProcNext

(* It holds on an empty directory.                                         *)
LEMMA ProcStarts == ProcInit => LogInv
<1> SUFFICES ASSUME ProcInit PROVE LogInv
  OBVIOUS
<1> USE DEF ProcInit, LogInit
<1>1. \A n \in Slots : lines[n] = {} BY DEF Slots
<1>2. LogTypeOK BY ZeroFits DEF LogTypeOK
<1>3. NothingElsewhere /\ InOrder BY <1>1 DEF NothingElsewhere, InOrder
<1>4. Rotating BY DEF Rotating
<1> QED BY <1>2, <1>3, <1>4 DEF LogInv

(* Every variable of the log keeps its type, and its files stay in order,  *)
(* for every bound, file and fault (logger.go:44-98, main.go:50-104).      *)
THEOREM LogInvariant == ProcSpec => []LogInv
BY ProcStarts, ProcKeeps, PTL DEF ProcSpec

-----------------------------------------------------------------------------
(* A step destroys nothing, or only lines older than all that is left.     *)
Spares ==
  \A l \in UNION {lines[n] : n \in Slots} :
    \/ \E n \in Slots : l \in lines'[n]
    \/ \A n \in 0..maxFiles : \A m \in lines'[n] : l < m

(* What is moved covers a free place, or the last one.                     *)
LEMMA MoveSpares ==
  ASSUME LogInv, NEW src \in Slots, Renames(src), src + 1 <= maxFiles,
         src + 1 = maxFiles \/ src + 1 \notin there
  PROVE  Spares
<1>0. /\ maxFiles \in Nat /\ maxFiles <= Top - 1 /\ Top \in Nat /\ src \in Nat
      /\ lines \in [Slots -> SUBSET Nat]
  BY TopIsNat DEF LogInv, LogTypeOK, Slots
<1>1. src + 1 \in Slots /\ 0..maxFiles \subseteq Slots BY <1>0 DEF Slots
<1>2. \A n \in Slots : lines'[n] = IF n = src + 1 THEN lines[src]
                                   ELSE IF n = src THEN {} ELSE lines[n]
  BY <1>0, <1>1 DEF Renames
<1>3. ASSUME NEW a \in Slots, NEW l \in lines[a], a # src + 1
      PROVE  \E n \in Slots : l \in lines'[n]
  <2>1. CASE a = src BY <1>1, <1>2, <1>3, <2>1
  <2>2. CASE a # src BY <1>2, <1>3, <2>2
  <2> QED BY <2>1, <2>2
<1>4. ASSUME NEW l \in lines[src + 1], src + 1 = maxFiles,
             NEW n \in 0..maxFiles, NEW m \in lines'[n]
      PROVE  l < m
  <2>1. n \in Slots /\ n \in Nat /\ n <= src + 1 BY <1>0, <1>1, <1>4
  <2>2. CASE n = src + 1
    <3>1. m \in lines[src] /\ src < src + 1 BY <1>0, <1>1, <1>2, <1>4, <2>2
    <3> QED BY <3>1, <1>1, <1>4 DEF LogInv, InOrder
  <2>3. CASE n # src + 1
    <3>1. m \in lines[n] /\ n < src + 1 BY <1>0, <1>2, <1>4, <2>1, <2>3
    <3> QED BY <3>1, <2>1, <1>1, <1>4 DEF LogInv, InOrder
  <2> QED BY <2>2, <2>3
<1>5. CASE src + 1 \notin there
  <2>1. lines[src + 1] = {} BY <1>1, <1>5 DEF LogInv, NothingElsewhere
  <2> QED BY <2>1, <1>3 DEF Spares
<1>6. CASE src + 1 = maxFiles
  BY <1>3, <1>4, <1>6 DEF Spares
<1> QED BY <1>5, <1>6

(* The removal meets the oldest lines only (logger.go:94-95).              *)
LEMMA RemovalSpares ==
  ASSUME LogInv, RemoveOldest
  PROVE  Spares
<1>0. /\ maxFiles \in Nat /\ maxFiles <= Top - 1 /\ Top \in Nat
      /\ lines \in [Slots -> SUBSET Nat]
  BY TopIsNat DEF LogInv, LogTypeOK
<1>1. maxFiles + 1 \in Slots /\ 0..maxFiles \subseteq Slots BY <1>0 DEF Slots
<1>2. \A n \in Slots : n # maxFiles + 1 => lines'[n] = lines[n]
  BY <1>0, <1>1 DEF RemoveOldest
<1>3. ASSUME NEW l \in lines[maxFiles + 1], NEW n \in 0..maxFiles, NEW m \in lines'[n]
      PROVE  l < m
  <2>1. n \in Slots /\ n < maxFiles + 1 BY <1>0, <1>1
  <2>2. m \in lines[n] BY <1>0, <1>2, <1>3, <2>1
  <2> QED BY <1>1, <1>3, <2>1, <2>2 DEF LogInv, InOrder
<1> QED BY <1>2, <1>3 DEF Spares

(* Every step spares newer lines unless a rename failed.                   *)
LEMMA StepSpares == LogInv /\ [ProcNext]_procVars => (stuck' \/ Spares)
<1> SUFFICES ASSUME LogInv, [ProcNext]_procVars, ~stuck' PROVE Spares
  OBVIOUS
<1>0. lines \in [Slots -> SUBSET Nat] /\ 0 \in Slots
  BY TopIsNat DEF LogInv, LogTypeOK, Slots
<1>1. CASE UNCHANGED lines BY <1>1 DEF Spares
<1>2. CASE Shift
  <2>1. CASE Renames(i) /\ UNCHANGED stuck
    <3>1. /\ i \in Slots /\ i + 1 <= maxFiles
          /\ i + 1 = maxFiles \/ i + 1 \notin there
      <4>1. i \in Slots /\ i \in Nat /\ maxFiles \in Nat /\ i <= maxFiles - 1
        BY <1>2, TopIsNat DEF LogInv, LogTypeOK, Rotating, Shift, Slots
      <4> QED BY <4>1, <1>2, <2>1 DEF LogInv, Rotating, Shift
    <3> QED BY <2>1, <3>1, MoveSpares
  <2>2. CASE UNCHANGED disk BY <2>2, <1>1 DEF disk
  <2> QED BY <1>2, <2>1, <2>2 DEF Shift
<1>3. CASE MovePath
  <2>1. CASE Renames(0)
    <3>1. 0 + 1 <= maxFiles /\ (0 + 1 = maxFiles \/ 0 + 1 \notin there)
      <4>1. i = 0 /\ maxFiles \in Nat /\ 0 <= maxFiles - 1 /\ ~stuck
        BY <1>3, TopIsNat DEF LogInv, LogTypeOK, Rotating, MovePath
      <4> QED BY <4>1, <1>3 DEF LogInv, Rotating, MovePath
    <3> QED BY <1>0, <2>1, <3>1, MoveSpares
  <2>2. CASE UNCHANGED disk BY <2>2, <1>1 DEF disk
  <2> QED BY <1>3, <2>1, <2>2 DEF MovePath
<1>4. CASE RemoveOldest BY <1>4, RemovalSpares
<1>5. CASE Store
  <2>1. CASE lines' = [lines EXCEPT ![0] = @ \cup {next}]
    BY <1>0, <2>1 DEF Spares
  <2> QED BY <1>1, <1>5, <2>1 DEF Store
<1>6. CASE \/ WriteBegins \/ Reopen \/ SetsUpLog \/ Stops \/ Dies \/ Edit \/ Starts
           \/ Loads \/ LoadFails \/ SaveOpens \/ SaveWrites \/ Validates \/ Serves
           \/ UNCHANGED procVars
  <2>1. UNCHANGED lines
    BY <1>6 DEF WriteBegins, Reopen, Opens, SetsUpLog, Stops, CloseLog, Dies, LogDies,
                Edit, Starts, Loads, LoadFails, SaveOpens, SaveWrites, Validates,
                Serves, procVars, logVars, disk
  <2> QED BY <1>1, <2>1
<1> QED BY <1>2, <1>3, <1>4, <1>5, <1>6 DEF ProcNext, Logs, Write

(* A rotation destroys only lines older than all it leaves, for every      *)
(* log_max_files, through every crash and fault (logger.go:81-98).         *)
THEOREM LogDestroysOldest == ProcSpec => OldestGoFirst
<1>1. LogInv /\ [ProcNext]_procVars =>
        [~stuck' =>
           \A l \in UNION {lines[n] : n \in Slots} :
             \/ \E n \in Slots : l \in lines'[n]
             \/ \A n \in 0..maxFiles : \A m \in lines'[n] : l < m]_logVars
  BY StepSpares DEF Spares
<1> QED BY <1>1, LogInvariant, PTL DEF ProcSpec, OldestGoFirst

-----------------------------------------------------------------------------
(* The configuration: what reading a file makes of it.                     *)

(* A configuration has every key.                                          *)
IsConfig(c) == c = [k \in Keys |-> c[k]]

(* The defaults have every key, the given secret, flags and DCs            *)
(* (config.go:40-68).                                                      *)
LEMMA DefaultIsConfig ==
  ASSUME NEW s
  PROVE  /\ IsConfig(DefaultConfig(s)) /\ DefaultConfig(s).secret = s
         /\ \A k \in Flags : DefaultConfig(s)[k] \in BOOLEAN
         /\ DefaultConfig(s).dc_ip # {}
<1> DEFINE c == DefaultConfig(s)
<1>1. c = [k \in Keys |-> c[k]] BY DEF DefaultConfig
<1>2. c.secret = s /\ c.dc_ip = {2, 4}
  <2>1. "secret" \in Keys /\ "dc_ip" \in Keys BY DEF Keys
  <2>2. Default("secret", s) = s /\ Default("dc_ip", s) = {2, 4}
    BY DEF Default, Words, Numbers, Flags
  <2> QED BY <2>1, <2>2 DEF DefaultConfig
<1>3. ASSUME NEW k \in Flags PROVE c[k] \in BOOLEAN
  <2>1. k \in Keys /\ k \notin Words /\ k \notin Numbers /\ k # "secret" /\ k # "dc_ip"
    BY DEF Keys, Words, Numbers, Flags
  <2>2. c[k] = DefaultFlags[k] BY <2>1 DEF DefaultConfig, Default
  <2>3. DefaultFlags[k] \in BOOLEAN
    <3> DEFINE R == [force_test_dc : BOOLEAN, log_to_console : BOOLEAN, verbose : BOOLEAN,
                     cf_auto_update : BOOLEAN, cf_first : BOOLEAN]
    <3>1. DefaultFlags \in R BY DEF DefaultFlags
    <3>2. ASSUME NEW f \in R PROVE f[k] \in BOOLEAN BY DEF Flags
    <3> HIDE DEF R
    <3> QED BY <3>1, <3>2
  <2> QED BY <2>2, <2>3
<1> HIDE DEF c
<1>4. {2, 4} # {} OBVIOUS
<1>5. IsConfig(c) BY <1>1 DEF IsConfig
<1> QED BY <1>2, <1>3, <1>4, <1>5 DEF c

(* Two defaults differ in the secret only.                                 *)
LEMMA DefaultsAgree ==
  ASSUME NEW s, NEW t, NEW k \in Keys, k # "secret"
  PROVE  DefaultConfig(s)[k] = DefaultConfig(t)[k]
<1>1. Default(k, s) = Default(k, t) BY DEF Default, Keys
<1> QED BY <1>1 DEF DefaultConfig

(* What a setting makes of a configuration, key by key.                    *)
Follows(e, c, st) ==
  /\ IsConfig(e)
  /\ \A k \in Keys :
       e[k] = IF k = st.key /\ Takes(k, st.text) THEN Value(k, st.text) ELSE c[k]

(* One setting (config.go:145-224).                                        *)
LEMMA OneSetting ==
  ASSUME NEW c, IsConfig(c), NEW st
  PROVE  Follows(setValue(c, st), c, st)
<1>1. DOMAIN c = Keys BY DEF IsConfig
<1>2. CASE st.key \in Keys /\ Takes(st.key, st.text)
  <2>1. setValue(c, st) = [c EXCEPT ![st.key] = Value(st.key, st.text)]
    BY <1>1, <1>2 DEF setValue
  <2>2. DOMAIN [c EXCEPT ![st.key] = Value(st.key, st.text)] = Keys
    BY <1>1
  <2>3. \A k \in Keys : [c EXCEPT ![st.key] = Value(st.key, st.text)][k]
                         = IF k = st.key THEN Value(st.key, st.text) ELSE c[k]
    BY <1>1
  <2>4. IsConfig([c EXCEPT ![st.key] = Value(st.key, st.text)])
    BY <1>1 DEF IsConfig
  <2> QED BY <1>2, <2>1, <2>3, <2>4 DEF Follows
<1>3. CASE ~(st.key \in Keys /\ Takes(st.key, st.text))
  <2>1. setValue(c, st) = c BY <1>1, <1>3 DEF setValue
  <2> QED BY <1>3, <2>1 DEF Follows
<1> QED BY <1>2, <1>3

(* The configurations L between the settings s of a file read into c.      *)
Chain(L, c, s) ==
  /\ L[0] = c
  /\ \A n \in 1..Len(s) : Follows(L[n], L[n - 1], s[n])
  /\ \A n \in 0..Len(s) : IsConfig(L[n])

(* Loaded is defined: there is a configuration after every setting, and it *)
(* comes from the one before (config.go:95-143).                           *)
LEMMA LoadedSteps ==
  ASSUME NEW c, IsConfig(c), NEW s, Len(s) \in Nat
  PROVE  Chain(Loaded(c, s), c, s)
<1> DEFINE N == Len(s)
           V == {c[k] : k \in Keys} \cup {Value(s[n].key, s[n].text) : n \in 1..N}
           S == [Keys -> V]
           g == [x \in (1..N) \X S |-> setValue(x[2], s[x[1]])]
           Fits(h) == h = [n \in 0..N |-> IF n = 0 THEN c ELSE setValue(h[n - 1], s[n])]
<1>1. c \in S
  <2>1. c = [k \in Keys |-> c[k]] BY DEF IsConfig
  <2>2. \A k \in Keys : c[k] \in V OBVIOUS
  <2> HIDE DEF V
  <2> QED BY <2>1, <2>2
<1>2. ASSUME NEW n \in 1..N, NEW d \in S PROVE setValue(d, s[n]) \in S
  <2>1. IsConfig(d)
    <3> HIDE DEF V
    <3> QED BY DEF IsConfig
  <2>2. Value(s[n].key, s[n].text) \in V OBVIOUS
  <2>3. \A k \in Keys : d[k] \in V
    <3> HIDE DEF V
    <3> QED OBVIOUS
  <2> DEFINE e == setValue(d, s[n])
  <2>4. e = [k \in Keys |-> e[k]] /\ \A k \in Keys : e[k] \in V
    <3> HIDE DEF V
    <3>1. /\ IsConfig(setValue(d, s[n]))
          /\ \A k \in Keys :
               setValue(d, s[n])[k] = IF k = s[n].key /\ Takes(k, s[n].text)
                                      THEN Value(k, s[n].text) ELSE d[k]
      BY <2>1, OneSetting DEF Follows
    <3> QED BY <2>2, <2>3, <3>1 DEF IsConfig
  <2> HIDE DEF V, e
  <2>5. e \in S BY <2>4
  <2> QED BY <2>5 DEF e
<1>3. g \in [(1..N) \X S -> S]
  <2> HIDE DEF S
  <2> QED BY <1>2
<1>4. PICK f : Passes(f, S, c, N, g)
  <2> HIDE DEF S, g
  <2> QED BY <1>1, <1>3, LoopRecursion
<1>5. \A n \in 1..N : f[n] = setValue(f[n - 1], s[n])
  <2>1. ASSUME NEW n \in 1..N PROVE f[n] = setValue(f[n - 1], s[n])
    <3>1. n - 1 \in 0..N OBVIOUS
    <3>2. f[n - 1] \in S /\ f[n] = g[<<n, f[n - 1]>>]
      <4> HIDE DEF S, g
      <4> QED BY <1>4, <3>1 DEF Passes
    <3>3. g[<<n, f[n - 1]>>] = setValue(f[n - 1], s[n])
      <4> HIDE DEF S
      <4> QED BY <3>2
    <3> HIDE DEF S, g
    <3> QED BY <3>2, <3>3
  <2> QED BY <2>1
<1>6. Fits(f)
  <2> HIDE DEF S, g
  <2>1. f \in [0..N -> S] /\ f[0] = c BY <1>4 DEF Passes
  <2>2. ASSUME NEW n \in 0..N PROVE f[n] = IF n = 0 THEN c ELSE setValue(f[n - 1], s[n])
    <3>1. n # 0 => n \in 1..N OBVIOUS
    <3> QED BY <1>5, <2>1, <3>1
  <2> QED BY <2>1, <2>2
<1>7. Loaded(c, s) = CHOOSE h : Fits(h) BY DEF Loaded
<1>8. Fits(Loaded(c, s))
  <2> HIDE DEF Fits
  <2> QED BY <1>6, <1>7
<1> DEFINE L == Loaded(c, s)
<1>9. L[0] = c /\ \A n \in 1..N : L[n] = setValue(L[n - 1], s[n])
  <2>1. L = [n \in 0..N |-> IF n = 0 THEN c ELSE setValue(L[n - 1], s[n])] BY <1>8
  <2> HIDE DEF L
  <2>2. 0 \in 0..N /\ \A n \in 1..N : n \in 0..N /\ n # 0 OBVIOUS
  <2> QED BY <2>1, <2>2
<1>10. \A n \in 0..N : IsConfig(L[n])
  <2> DEFINE T == {n \in 0..N : IsConfig(L[n])}
  <2> HIDE DEF L
  <2>1. 0 \in T BY <1>9
  <2>2. ASSUME NEW n \in 0..(N - 1), n \in T PROVE n + 1 \in T
    <3>1. n + 1 \in 1..N /\ n + 1 \in 0..N /\ (n + 1) - 1 = n OBVIOUS
    <3>2. IsConfig(setValue(L[n], s[n + 1])) BY <2>2, OneSetting DEF Follows
    <3> QED BY <1>9, <3>1, <3>2
  <2>3. \A n \in 0..N : n \in T
    <3> HIDE DEF T
    <3> QED BY <2>1, <2>2, LoopInduction
  <2> QED BY <2>3
<1>11. ASSUME NEW n \in 1..N PROVE Follows(L[n], L[n - 1], s[n])
  <2> HIDE DEF L
  <2>1. n - 1 \in 0..N OBVIOUS
  <2> QED BY <1>9, <1>10, <2>1, OneSetting
<1> HIDE DEF L
<1>12. Chain(L, c, s) BY <1>9, <1>10, <1>11 DEF Chain
<1> QED BY <1>12 DEF L

(* Of the secret only 32 hex digits are taken, as they are.                *)
LEMMA SecretTaken ==
  ASSUME NEW t
  PROVE  (Takes("secret", t) <=> t.form = "hex") /\ Value("secret", t) = t.says
BY DEF Takes, Value, Words, Numbers, Flags

(* A configuration with a secret never loses it, whatever file is read     *)
(* (config.go:154-165): the branch of main.go:133 is dead.                 *)
LEMMA SecretKept ==
  ASSUME NEW c, IsConfig(c), c.secret \in Nat \ {NoSecret}, NEW s, IsFile(s)
  PROVE  IsConfig(Load(c, s)) /\ Load(c, s).secret \in Nat \ {NoSecret}
<1> DEFINE N == Len(s)
           L == Loaded(c, s)
           T == {n \in 0..N : L[n].secret \in Nat \ {NoSecret}}
<1>1. N \in Nat /\ "secret" \in Keys BY DEF IsFile, Keys
<1>2. Chain(L, c, s) BY <1>1, LoadedSteps
<1>3. 0 \in T BY <1>1, <1>2 DEF Chain
<1>4. ASSUME NEW n \in 0..(N - 1), n \in T PROVE n + 1 \in T
  <2> HIDE DEF L
  <2>1. n + 1 \in 1..N /\ n + 1 \in 0..N /\ (n + 1) - 1 = n BY <1>1
  <2>2. Follows(L[n + 1], L[n], s[n + 1]) BY <1>2, <2>1 DEF Chain
  <2>3. s[n + 1].key = "secret" /\ s[n + 1].text.form = "hex" =>
          s[n + 1].text.says \in Nat \ {NoSecret}
    BY <2>1 DEF IsFile
  <2>4. L[n + 1]["secret"] \in Nat \ {NoSecret}
    BY <1>1, <1>4, <2>2, <2>3, SecretTaken DEF Follows
  <2> QED BY <2>1, <2>4
<1>5. \A n \in 0..N : n \in T
  <2> HIDE DEF T
  <2> QED BY <1>1, <1>3, <1>4, LoopInduction
<1>6. N \in 0..N BY <1>1
<1> QED BY <1>2, <1>5, <1>6 DEF Load, Chain

(* Two configurations that differ in the secret only are the same after a  *)
(* file that holds one.                                                    *)
LEMMA LoadAgrees ==
  ASSUME NEW c, NEW d, IsConfig(c), IsConfig(d),
         \A k \in Keys \ {"secret"} : c[k] = d[k],
         NEW s, IsFile(s), Stored(s) # NoSecret
  PROVE  Load(c, s) = Load(d, s)
<1> DEFINE N == Len(s)
           L == Loaded(c, s)
           M == Loaded(d, s)
           Usable(m) == s[m].key = "secret" /\ s[m].text.form = "hex"
           Same(n) == /\ \A k \in Keys \ {"secret"} : L[n][k] = M[n][k]
                      /\ (\E m \in 1..n : Usable(m)) => L[n]["secret"] = M[n]["secret"]
           T == {n \in 0..N : Same(n)}
<1>1. N \in Nat /\ "secret" \in Keys /\ DOMAIN s = 1..N BY DEF IsFile, Keys
<1>2. Chain(L, c, s) BY <1>1, LoadedSteps
<1>3. Chain(M, d, s) BY <1>1, LoadedSteps
<1> HIDE DEF L, M
<1>4. 0 \in T BY <1>1, <1>2, <1>3 DEF Chain
<1>5. ASSUME NEW n \in 0..(N - 1), n \in T PROVE n + 1 \in T
  <2>1. n + 1 \in 1..N /\ n + 1 \in 0..N /\ (n + 1) - 1 = n BY <1>1
  <2>2. Follows(L[n + 1], L[n], s[n + 1]) BY <1>2, <2>1 DEF Chain
  <2>3. Follows(M[n + 1], M[n], s[n + 1]) BY <1>3, <2>1 DEF Chain
  <2>4. \A k \in Keys \ {"secret"} : L[n + 1][k] = M[n + 1][k]
    BY <1>5, <2>2, <2>3 DEF Follows
  <2>5. ASSUME NEW m \in 1..(n + 1), Usable(m) PROVE L[n + 1]["secret"] = M[n + 1]["secret"]
    <3>1. CASE m = n + 1 BY <1>1, <2>2, <2>3, <2>5, <3>1, SecretTaken DEF Follows
    <3>2. CASE m # n + 1
      <4>1. m \in 1..n BY <1>1, <3>2
      <4>2. L[n]["secret"] = M[n]["secret"] BY <1>5, <2>5, <4>1
      <4> QED BY <1>1, <2>2, <2>3, <4>2 DEF Follows
    <3> QED BY <3>1, <3>2
  <2> QED BY <2>1, <2>4, <2>5
<1>6. \A n \in 0..N : n \in T
  <2> HIDE DEF T
  <2> QED BY <1>1, <1>4, <1>5, LoopInduction
<1>7. N \in 0..N BY <1>1
<1>8. \E m \in 1..N : Usable(m) BY <1>1 DEF Stored
<1>9. \A k \in Keys : L[N][k] = M[N][k] BY <1>6, <1>7, <1>8
<1>10. L[N] = M[N]
  <2>1. IsConfig(L[N]) /\ IsConfig(M[N]) BY <1>2, <1>3, <1>7 DEF Chain
  <2>2. L[N] = [k \in Keys |-> L[N][k]] /\ M[N] = [k \in Keys |-> M[N][k]]
    BY <2>1 DEF IsConfig
  <2> QED BY <1>9, <2>2
<1> QED BY <1>10 DEF Load, L, M

-----------------------------------------------------------------------------
(* What is saved is read back.                                             *)

(* Every key is written, once.                                             *)
LEMMA OrderHasAll ==
  /\ Len(SaveOrder) = 19 /\ DOMAIN SaveOrder = 1..19
  /\ \A k \in Keys : \E n \in 1..19 : SaveOrder[n] = k
  /\ \A n \in 1..19 : SaveOrder[n] \in Keys
<1>1. SaveOrder \in Seq(Keys) /\ Len(SaveOrder) = 19
  BY DEF SaveOrder, Keys, Words, Numbers, Flags
<1>2. ASSUME NEW k \in Keys PROVE \E n \in 1..19 : SaveOrder[n] = k
  <2>1. /\ SaveOrder[1] = "host" /\ SaveOrder[2] = "port" /\ SaveOrder[3] = "secret"
        /\ SaveOrder[4] = "buffer_size" /\ SaveOrder[5] = "pool_size"
        /\ SaveOrder[6] = "force_test_dc" /\ SaveOrder[7] = "mask_domain"
        /\ SaveOrder[8] = "fake_tls_domain" /\ SaveOrder[9] = "log_file"
        /\ SaveOrder[10] = "log_max_size" /\ SaveOrder[11] = "log_max_files"
        /\ SaveOrder[12] = "log_to_console" /\ SaveOrder[13] = "verbose"
        /\ SaveOrder[14] = "cf_domains" /\ SaveOrder[15] = "cf_auto_update"
        /\ SaveOrder[16] = "cf_update_url" /\ SaveOrder[17] = "cf_update_interval"
        /\ SaveOrder[18] = "cf_first" /\ SaveOrder[19] = "dc_ip"
    BY DEF SaveOrder
  <2> QED BY <2>1 DEF Keys, Words, Numbers, Flags
<1>3. ASSUME NEW q \in Seq(Keys)
      PROVE  DOMAIN q = 1..Len(q) /\ \A n \in 1..Len(q) : q[n] \in Keys
  OBVIOUS
<1>4. DOMAIN SaveOrder = 1..Len(SaveOrder) /\ \A n \in 1..Len(SaveOrder) : SaveOrder[n] \in Keys
  BY <1>1, <1>3
<1> QED BY <1>1, <1>2, <1>4

(* The entries of a saved file (config.go:238-300).                        *)
LEMMA SavedEntries ==
  ASSUME NEW c
  PROVE  /\ DOMAIN Saved(c) = 1..19 /\ Len(Saved(c)) = 19
         /\ \A n \in 1..19 : /\ Saved(c)[n].key = SaveOrder[n]
                            /\ Saved(c)[n].text = Written(SaveOrder[n], c[SaveOrder[n]])
<1> DEFINE Entry(n) == [key |-> SaveOrder[n], text |-> Written(SaveOrder[n], c[SaveOrder[n]])]
           E == {Entry(n) : n \in 1..19}
<1>1. Saved(c) = [n \in 1..19 |-> Entry(n)] BY OrderHasAll DEF Saved
<1>2. Saved(c) \in [1..19 -> E] BY <1>1
<1>3. DOMAIN Saved(c) = 1..19 /\ \A n \in 1..19 : Saved(c)[n] = Entry(n)
  <2> HIDE DEF Entry
  <2> QED BY <1>1
<1>4. Saved(c) \in Seq(E)
  <2> HIDE DEF E
  <2> QED BY <1>2, SeqDef
<1>5. Len(Saved(c)) = 19
  <2> HIDE DEF E
  <2>1. Len(Saved(c)) \in Nat /\ DOMAIN Saved(c) = 1..Len(Saved(c)) BY <1>4, LenProperties
  <2> QED BY <1>3, <2>1
<1> QED BY <1>3, <1>5

(* What is written of a value is taken as that value.                      *)
LEMMA WrittenIsTaken ==
  ASSUME NEW k \in Keys, NEW v, k \in Flags => v \in BOOLEAN, k = "dc_ip" => v # {}
  PROVE  Takes(k, Written(k, v)) /\ Value(k, Written(k, v)) = v
<1> USE DEF Takes, Value, Written
<1>1. CASE k \in Words
  <2>1. k \notin Numbers /\ k \notin Flags /\ k # "dc_ip" /\ k # "secret"
    BY <1>1 DEF Words, Numbers, Flags
  <2>2. Written(k, v) = v BY <1>1, <2>1
  <2> QED BY <1>1, <2>1, <2>2
<1>2. CASE k \in Numbers
  <2>1. k \notin Words /\ k \notin Flags /\ k # "dc_ip" /\ k # "secret"
    BY <1>2 DEF Words, Numbers, Flags
  <2>2. Written(k, v) = Text("num", v) BY <1>2, <2>1
  <2> QED BY <1>2, <2>1, <2>2 DEF Text
<1>3. CASE k \in Flags
  <2>1. k \notin Words /\ k \notin Numbers /\ k # "dc_ip" /\ k # "secret"
    BY <1>3 DEF Words, Numbers, Flags
  <2>2. Written(k, v) = IF v THEN Text("yes", 0) ELSE Word("false") BY <1>3, <2>1
  <2>3. CASE v = TRUE BY <1>3, <2>1, <2>2, <2>3 DEF Text
  <2>4. CASE v = FALSE BY <1>3, <2>1, <2>2, <2>4 DEF Text, Word
  <2> QED BY <1>3, <2>3, <2>4
<1>4. CASE k = "secret"
  <2>1. k \notin Words /\ k \notin Numbers /\ k \notin Flags /\ k # "dc_ip"
    BY <1>4 DEF Words, Numbers, Flags
  <2>2. Written(k, v) = Text("hex", v) BY <1>4, <2>1
  <2> QED BY <1>4, <2>1, <2>2 DEF Text
<1>5. CASE k = "dc_ip"
  <2>1. k \notin Words /\ k \notin Numbers /\ k \notin Flags /\ k # "secret"
    BY <1>5 DEF Words, Numbers, Flags
  <2>2. Written(k, v) = Text("list", v) BY <1>5, <2>1
  <2> QED BY <1>5, <2>1, <2>2 DEF Text
<1> QED BY <1>1, <1>2, <1>3, <1>4, <1>5 DEF Keys

(* A saved configuration with a secret is a file, and so is any part of it *)
(* that a write cut short leaves.                                          *)
LEMMA SavedIsFile ==
  ASSUME NEW c, c.secret \in Nat \ {NoSecret}
  PROVE  IsFile(Saved(c)) /\ \A n \in 0..18 : IsFile(SubSeq(Saved(c), 1, n))
<1> DEFINE S == Saved(c)
           Fits(e) == e.key = "secret" /\ e.text.form = "hex" =>
                        e.text.says \in Nat \ {NoSecret}
<1>1. \A n \in 1..19 : Fits(S[n])
  <2> SUFFICES ASSUME NEW n \in 1..19, S[n].key = "secret"
               PROVE  S[n].text.says \in Nat \ {NoSecret}
    OBVIOUS
  <2>0. S[n].key = SaveOrder[n] /\ S[n].text = Written(SaveOrder[n], c[SaveOrder[n]])
    BY SavedEntries
  <2>1. S[n].text = Written("secret", c["secret"])
    <3> HIDE DEF S
    <3> QED BY <2>0
  <2>2. Written("secret", c["secret"]) = Text("hex", c["secret"])
    BY DEF Written, Words, Numbers, Flags
  <2> HIDE DEF S
  <2> QED BY <2>1, <2>2 DEF Text
<1>2. DOMAIN S = 1..19 /\ Len(S) = 19 BY SavedEntries
<1> HIDE DEF S
<1>3. IsFile(S) BY <1>1, <1>2 DEF IsFile
<1>4. ASSUME NEW n \in 0..18 PROVE IsFile(SubSeq(S, 1, n))
  <2>1. SubSeq(S, 1, n) = [m \in 1..n |-> S[m]]
    OBVIOUS
  <2>2. Len(SubSeq(S, 1, n)) = n
    OBVIOUS
  <2>3. \A m \in 1..n : m \in 1..19 OBVIOUS
  <2> QED BY <1>1, <2>1, <2>2, <2>3 DEF IsFile
<1> QED BY <1>3, <1>4 DEF S

(* What SaveToFile writes, LoadFromFile reads back, whatever the process   *)
(* had before: flags are flags and some DC has an address (config.go).     *)
THEOREM SavedIsReadBack ==
  ASSUME NEW c, IsConfig(c), NEW d, IsConfig(d),
         \A k \in Flags : d[k] \in BOOLEAN, d.dc_ip # {}
  PROVE  Load(c, Saved(d)) = d
<1> DEFINE S == Saved(d)
           L == Loaded(c, S)
           T == {n \in 0..19 : \A m \in 1..n : L[n][SaveOrder[m]] = d[SaveOrder[m]]}
<1>1. Len(S) = 19 BY SavedEntries
<1>2. Chain(L, c, S)
  <2> HIDE DEF S
  <2> QED BY <1>1, LoadedSteps
<1>3. \A n \in 1..19 : S[n].key = SaveOrder[n] /\ S[n].text = Written(SaveOrder[n], d[SaveOrder[n]])
  BY SavedEntries
<1> HIDE DEF S, L
<1>4. 0 \in T OBVIOUS
<1>5. ASSUME NEW n \in 0..18, n \in T PROVE n + 1 \in T
  <2>1. n + 1 \in 1..19 /\ (n + 1) - 1 = n OBVIOUS
  <2>2. Follows(L[n + 1], L[n], S[n + 1]) BY <1>1, <1>2, <2>1 DEF Chain
  <2> DEFINE k == SaveOrder[n + 1]
  <2>3. k \in Keys BY <2>1, OrderHasAll
  <2>4. S[n + 1].key = k /\ S[n + 1].text = Written(k, d[k]) BY <1>3, <2>1
  <2>5. k = "dc_ip" => d[k] # {} OBVIOUS
  <2> HIDE DEF k
  <2>6. Takes(k, Written(k, d[k])) /\ Value(k, Written(k, d[k])) = d[k]
    BY <2>3, <2>5, WrittenIsTaken
  <2>7. L[n + 1][k] = d[k] BY <2>2, <2>3, <2>4, <2>6 DEF Follows
  <2>8. ASSUME NEW m \in 1..n PROVE L[n + 1][SaveOrder[m]] = d[SaveOrder[m]]
    <3>1. SaveOrder[m] \in Keys BY OrderHasAll
    <3>2. L[n][SaveOrder[m]] = d[SaveOrder[m]] BY <1>5
    <3>3. CASE SaveOrder[m] = k BY <2>7, <3>3
    <3>4. CASE SaveOrder[m] # k BY <2>2, <2>4, <3>1, <3>2, <3>4 DEF Follows
    <3> QED BY <3>3, <3>4
  <2>9. \A m \in 1..(n + 1) : m \in 1..n \/ m = n + 1 OBVIOUS
  <2>10. \A m \in 1..(n + 1) : L[n + 1][SaveOrder[m]] = d[SaveOrder[m]]
    BY <2>7, <2>8, <2>9 DEF k
  <2> QED BY <2>1, <2>10
<1>6. \A n \in 0..19 : n \in T
  <2>1. 19 \in Nat /\ 19 - 1 = 18 OBVIOUS
  <2> HIDE DEF T
  <2> QED BY <1>4, <1>5, <2>1, LoopInduction
<1>7. \A k \in Keys : L[19][k] = d[k]
  <2>1. \A m \in 1..19 : L[19][SaveOrder[m]] = d[SaveOrder[m]] BY <1>6
  <2> QED BY <2>1, OrderHasAll
<1>8. L[19] = d
  <2>1. IsConfig(L[19]) BY <1>1, <1>2 DEF Chain
  <2>2. L[19] = [k \in Keys |-> L[19][k]] /\ d = [k \in Keys |-> d[k]]
    BY <2>1 DEF IsConfig
  <2> QED BY <1>7, <2>2
<1> QED BY <1>1, <1>8 DEF Load, L, S

-----------------------------------------------------------------------------
(* The invariant of the configuration and its file.                        *)

Fresh(c) == \E n \in Nat \ {NoSecret} : c = DefaultConfig(n)
Comes(c, s) == \E n \in Nat \ {NoSecret} : c = Load(DefaultConfig(n), s)

RunTyped ==
  /\ run \in {"off", "load", "create", "write", "check", "setup", "listen",
              "serve", "leave"}
  /\ drawn \in 0..(Draws + 1)
  /\ whole \in BOOLEAN

FilesFit == IsFile(ini.settings) /\ IsFile(past.ini.settings)

(* There is a secret as soon as there is a process.                        *)
ConfigFits ==
  /\ IsConfig(config) /\ config.secret \in Nat
  /\ run # "off" => config.secret # NoSecret

(* A file is read into fresh defaults, and only fresh defaults are saved.  *)
Defaults ==
  /\ run \in {"load", "create", "write"} => Fresh(config)
  /\ run = "load" => drawn <= Draws

(* A run that failed in nothing has what its file says.                    *)
FromFile == run \in {"check", "setup", "listen"} /\ whole => Comes(config, ini.settings)
PastFromFile == past.whole => Comes(past.config, past.ini.settings)

ConfInv ==
  RunTyped /\ FilesFit /\ ConfigFits /\ Defaults /\ FromFile /\ PastFromFile

(* No file, and an empty one, are files without settings.                  *)
LEMMA EmptyIsFile == IsFile(<<>>) /\ IsFile(NoFile.settings) /\ IsFile(File(<<>>).settings)
<1>1. DOMAIN <<>> = 1..0 /\ Len(<<>>) = 0 OBVIOUS
<1>2. IsFile(<<>>) BY <1>1 DEF IsFile
<1> QED BY <1>2 DEF NoFile, File

(* The defaults are a configuration with the drawn secret.                 *)
LEMMA FreshFits ==
  ASSUME NEW n \in Nat
  PROVE  IsConfig(DefaultConfig(n)) /\ DefaultConfig(n).secret = n
BY DefaultIsConfig

(* The steps that leave configuration and file alone.                      *)
LEMMA RunGoesOn ==
  ASSUME ConfInv, UNCHANGED <<ini, config, drawn, whole, past>>, run # "off",
         run' \in {"check", "setup", "listen"} => run \in {"check", "setup", "listen"},
         run' \in {"check", "setup", "listen", "serve", "leave"}
  PROVE  ConfInv'
BY DEF ConfInv, RunTyped, FilesFit, ConfigFits, Defaults, FromFile, PastFromFile

(* Edit keeps the invariant.                                               *)
LEMMA EditKeeps == ASSUME ConfInv, Edit PROVE ConfInv'
<1> USE DEF Edit
<1>1. IsFile(ini'.settings)
  <2>1. CASE ini' = NoFile BY <2>1, EmptyIsFile
  <2>2. ASSUME NEW f \in Files, ini' = File(f) PROVE IsFile(ini'.settings)
    BY <2>2, ProcessAssumption DEF File
  <2> QED BY <2>1, <2>2
<1> QED BY <1>1 DEF ConfInv, RunTyped, FilesFit, ConfigFits, Defaults, FromFile, PastFromFile

(* Starts keeps the invariant (main.go:107-115).                           *)
LEMMA StartsKeeps == ASSUME ConfInv, Starts PROVE ConfInv'
<1> USE DEF Starts
<1>1. drawn' \in Nat \ {NoSecret} /\ drawn' <= Draws /\ run' \in {"create", "load"}
  BY ProcessAssumption DEF ConfInv, RunTyped, NoSecret
<1>2. config' = DefaultConfig(drawn') /\ whole' = TRUE /\ ini' = ini /\ past' = past OBVIOUS
<1>3. IsConfig(config') /\ config'.secret = drawn' BY <1>1, <1>2, FreshFits
<1>4. Fresh(config') BY <1>1, <1>2 DEF Fresh
<1>5. RunTyped' /\ drawn' <= Draws BY <1>1, <1>2, ProcessAssumption DEF RunTyped
<1> QED BY <1>1, <1>2, <1>3, <1>4, <1>5
        DEF ConfInv, FilesFit, ConfigFits, Defaults, FromFile, PastFromFile

(* A file is read into a configuration with a secret, and the result has   *)
(* one: main.go:133 is never true.                                         *)
LEMMA LoadsKeeps == ASSUME ConfInv, Loads PROVE ConfInv' /\ run' = "check"
<1> DEFINE loaded == Load(config, ini.settings)
<1>1. PICK n \in Nat \ {NoSecret} : config = DefaultConfig(n)
  BY DEF Loads, ConfInv, Defaults, Fresh
<1>2. IsConfig(loaded) /\ loaded.secret \in Nat \ {NoSecret}
  <2>1. IsConfig(config) /\ config.secret \in Nat \ {NoSecret} /\ IsFile(ini.settings)
    BY DEF Loads, ConfInv, ConfigFits, FilesFit
  <2> QED BY <2>1, SecretKept
<1>3. Comes(loaded, ini.settings) BY <1>1 DEF Comes
<1>4. /\ config' = loaded /\ drawn' = drawn /\ run' = "check"
      /\ UNCHANGED <<ini, whole, past>>
  <2> HIDE DEF loaded
  <2> QED BY <1>2 DEF Loads, loaded
<1> HIDE DEF loaded
<1> QED BY <1>2, <1>3, <1>4
        DEF ConfInv, RunTyped, FilesFit, ConfigFits, Defaults, FromFile, PastFromFile

(* LoadFails keeps the invariant (main.go:126-130).                        *)
LEMMA LoadFailsKeeps == ASSUME ConfInv, LoadFails PROVE ConfInv'
<1> USE DEF LoadFails
<1>1. drawn + 1 \in Nat \ {NoSecret} /\ drawn + 1 \in 0..(Draws + 1)
  BY ProcessAssumption DEF ConfInv, RunTyped, Defaults, NoSecret
<1>2. IsConfig(config') /\ config'.secret = drawn + 1 BY <1>1, FreshFits
<1> QED BY <1>1, <1>2 DEF ConfInv, RunTyped, FilesFit, ConfigFits, Defaults, FromFile, PastFromFile

(* SaveOpens keeps the invariant (main.go:111-122).                        *)
LEMMA SaveOpensKeeps == ASSUME ConfInv, SaveOpens PROVE ConfInv'
<1> USE DEF SaveOpens
<1>1. IsFile(ini'.settings) BY EmptyIsFile DEF ConfInv, FilesFit
<1> QED BY <1>1 DEF ConfInv, RunTyped, FilesFit, ConfigFits, Defaults, FromFile, PastFromFile

(* What was saved is what the next run will read.                          *)
LEMMA SaveWritesKeeps == ASSUME ConfInv, SaveWrites PROVE ConfInv'
<1> USE DEF SaveWrites
<1>1. PICK n \in Nat \ {NoSecret} : config = DefaultConfig(n)
  BY DEF ConfInv, Defaults, Fresh
<1>2. config.secret \in Nat \ {NoSecret} BY DEF ConfInv, ConfigFits
<1>3. IsFile(Saved(config)) /\ \A m \in 0..18 : IsFile(SubSeq(Saved(config), 1, m))
  BY <1>2, SavedIsFile
<1>4. IsFile(ini'.settings)
  <2>1. CASE ini' = File(Saved(config)) BY <1>3, <2>1 DEF File
  <2>2. ASSUME NEW m \in 0..(Len(SaveOrder) - 1), ini' = File(SubSeq(Saved(config), 1, m))
        PROVE  IsFile(ini'.settings)
    <3>1. m \in 0..18 BY OrderHasAll
    <3> QED BY <1>3, <2>2, <3>1 DEF File
  <2> QED BY <2>1, <2>2
<1>5. whole' => Comes(config, ini'.settings)
  <2> SUFFICES ASSUME whole' PROVE Comes(config, ini'.settings) OBVIOUS
  <2>1. ini'.settings = Saved(config) BY DEF File
  <2>2. Load(DefaultConfig(n), Saved(config)) = config
    <3>1. \A k \in Flags : config[k] \in BOOLEAN BY <1>1, DefaultIsConfig
    <3>2. config.dc_ip # {} BY <1>1, DefaultIsConfig
    <3>3. IsConfig(config) BY <1>1, DefaultIsConfig
    <3>4. IsConfig(DefaultConfig(n)) BY DefaultIsConfig
    <3> QED BY <3>1, <3>2, <3>3, <3>4, SavedIsReadBack
  <2> QED BY <2>1, <2>2 DEF Comes
<1> QED BY <1>4, <1>5 DEF ConfInv, RunTyped, FilesFit, ConfigFits, Defaults, FromFile, PastFromFile

(* Serves keeps the invariant (main.go:58-70).                             *)
LEMMA ServesKeeps == ASSUME ConfInv, Serves PROVE ConfInv'
<1> USE DEF Serves
<1>1. past'.ini = ini /\ past'.config = config /\ past'.whole = whole OBVIOUS
<1>2. FilesFit' /\ PastFromFile'
  BY <1>1 DEF ConfInv, FilesFit, FromFile, PastFromFile
<1> QED BY <1>2 DEF ConfInv, RunTyped, ConfigFits, Defaults, FromFile

(* Dies keeps the invariant (main.go:53-67).                               *)
LEMMA DiesKeeps == ASSUME ConfInv, Dies PROVE ConfInv'
<1> USE DEF Dies
<1>1. NoSecret \in Nat BY DEF NoSecret
<1>2. IsConfig(Blank) /\ Blank.secret = NoSecret BY <1>1, FreshFits DEF Blank
<1> QED BY <1>1, <1>2 DEF ConfInv, RunTyped, FilesFit, ConfigFits, Defaults, FromFile, PastFromFile

(* It holds before the first run.                                          *)
LEMMA ConfStarts == ProcInit => ConfInv
<1> SUFFICES ASSUME ProcInit PROVE ConfInv OBVIOUS
<1> USE DEF ProcInit
<1>1. NoSecret \in Nat BY DEF NoSecret
<1>2. IsConfig(Blank) /\ Blank.secret = NoSecret BY <1>1, FreshFits DEF Blank
<1>3. past.ini = NoFile /\ past.whole = FALSE OBVIOUS
<1>4. RunTyped
  <2>1. run = "off" /\ drawn = 0 /\ whole = FALSE OBVIOUS
  <2>2. 0 \in 0..(Draws + 1) BY ProcessAssumption
  <2>3. drawn \in 0..(Draws + 1) BY <2>1, <2>2
  <2>4. whole \in BOOLEAN BY <2>1
  <2> HIDE DEF ProcInit
  <2> QED BY <2>1, <2>3, <2>4 DEF RunTyped
<1>5. FilesFit /\ PastFromFile BY <1>3, EmptyIsFile DEF FilesFit, PastFromFile
<1>6. ConfigFits BY <1>1, <1>2 DEF ConfigFits
<1> QED BY <1>4, <1>5, <1>6 DEF ConfInv, Defaults, FromFile

(* Every step keeps the invariant.                                         *)
LEMMA ConfKeeps == ConfInv /\ [ProcNext]_procVars => ConfInv'
<1> SUFFICES ASSUME ConfInv, [ProcNext]_procVars PROVE ConfInv' OBVIOUS
<1>1. CASE Validates \/ SetsUpLog \/ Stops
  <2>1. /\ UNCHANGED <<ini, config, drawn, whole, past>> /\ run # "off"
        /\ run' \in {"check", "setup", "listen"} => run \in {"check", "setup", "listen"}
        /\ run' \in {"check", "setup", "listen", "serve", "leave"}
    BY <1>1 DEF Validates, SetsUpLog, Stops
  <2> QED BY <2>1, RunGoesOn
<1>2. CASE Logs \/ UNCHANGED procVars
  BY <1>2 DEF Logs, procVars, iniVars, ConfInv, RunTyped, FilesFit, ConfigFits, Defaults,
              FromFile, PastFromFile
<1> QED BY <1>1, <1>2, EditKeeps, StartsKeeps, LoadsKeeps, LoadFailsKeeps, SaveOpensKeeps,
           SaveWritesKeeps, ServesKeeps, DiesKeeps DEF ProcNext

(* Secrets, files and runs are what they are taken for, for every file a   *)
(* user may leave, and the configuration of a run that failed in nothing   *)
(* comes from its file (main.go:107-142, config.go:95-300).                *)
THEOREM ConfInvariant == ProcSpec => []ConfInv
BY ConfStarts, ConfKeeps, PTL DEF ProcSpec

(* The types of the process, its configuration and its log.                *)
THEOREM ProcTypeCorrect == ProcSpec => []ProcTypeOK
<1>1. LogInv /\ ConfInv => ProcTypeOK
  BY DEF LogInv, Rotating, ConfInv, RunTyped, ConfigFits, ProcTypeOK
<1> QED BY <1>1, LogInvariant, ConfInvariant, PTL

(* A run over the file of the run before has its whole configuration: the  *)
(* links that users were given go on working, whichever run wrote the file *)
(* and wherever runs in between died (main.go:107-142, config.go:95-300).  *)
THEOREM ConfigurationKept == ProcSpec => ConfigKept
<1>1. ASSUME ConfInv, run = "listen", whole, past.whole, ini = past.ini,
             Stored(ini.settings) # NoSecret
      PROVE  config = past.config
  <2>1. PICK m \in Nat \ {NoSecret} : config = Load(DefaultConfig(m), ini.settings)
    BY <1>1 DEF ConfInv, FromFile, Comes
  <2>2. PICK n \in Nat \ {NoSecret} : past.config = Load(DefaultConfig(n), ini.settings)
    BY <1>1 DEF ConfInv, PastFromFile, Comes
  <2>3. IsConfig(DefaultConfig(m)) /\ IsConfig(DefaultConfig(n)) BY FreshFits
  <2>4. \A k \in Keys \ {"secret"} : DefaultConfig(m)[k] = DefaultConfig(n)[k]
    BY DefaultsAgree
  <2>5. IsFile(ini.settings) BY <1>1 DEF ConfInv, FilesFit
  <2> QED BY <1>1, <2>1, <2>2, <2>3, <2>4, <2>5, LoadAgrees
<1>2. ConfInv /\ [ProcNext]_procVars =>
        [run = "listen" /\ run' = "serve" /\ whole /\ past.whole
         /\ ini = past.ini /\ Stored(ini.settings) # NoSecret
         => config = past.config]_procVars
  BY <1>1
<1> QED BY <1>2, ConfInvariant, PTL DEF ProcSpec, ConfigKept
=============================================================================
