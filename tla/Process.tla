------------------------------ MODULE Process ------------------------------
(***************************************************************************)
(* The process from its start to its end, over and over (main and          *)
(* loadOrCreateConfig in cmd/main.go): what the configuration file and the *)
(* log carry from one run to the next, while the user edits the file, calls*)
(* fail and the process dies anywhere.                                     *)
(***************************************************************************)
EXTENDS Config, LogWriter

CONSTANTS
  Files,   \* what a user may leave in config.ini
  Draws    \* no run starts once so many secrets are drawn (bounds the runs)

ASSUME ProcessAssumption == (\A f \in Files : IsFile(f)) /\ Draws \in Nat

VARIABLES
  ini,     \* config.ini
  run,     \* where main is; "off": there is no process
  config,  \* cfg
  drawn,   \* secrets drawn so far; no two are the same
  whole,   \* no read or write of config.ini failed in this run
  past     \* ini, config and whole of the last run, as it began to serve

iniVars == <<ini, run, config, drawn, whole, past>>
procVars == <<iniVars, logVars>>

NoFile == [exists |-> FALSE, settings |-> <<>>]
File(settings) == [exists |-> TRUE, settings |-> settings]

Blank == DefaultConfig(NoSecret)

ProcInit ==
  /\ LogInit
  /\ ini = NoFile
  /\ run = "off"
  /\ config = Blank
  /\ drawn = 0
  /\ whole = FALSE
  /\ past = [ini |-> NoFile, config |-> Blank, whole |-> FALSE]

-----------------------------------------------------------------------------
(* The user edits, replaces or deletes config.ini.                         *)
Edit ==
  /\ run \in {"off", "serve"}
  /\ ini' \in {NoFile} \cup {File(f) : f \in Files}
  /\ UNCHANGED <<run, config, drawn, whole, past, logVars>>

(* Mutant: the secret is drawn anew after the file has been written.       *)
SaveWritesThenDraws ==
  /\ run = "write"
  /\ run' = "check"
  /\ ini' = File(Saved(config))
  /\ config' = [config EXCEPT !.secret = drawn + 1]
  /\ drawn' = drawn + 1
  /\ UNCHANGED <<whole, past, logVars>>

(* DefaultConfig draws a secret, and the run without a file another one.   *)
Starts ==
  /\ run = "off"
  /\ whole' = TRUE
  /\ \/ /\ ini = NoFile
        /\ drawn' = drawn + 2
        /\ run' = "create"
     \/ /\ ini # NoFile
        /\ drawn' = drawn + 1
        /\ run' = "load"
  /\ drawn' <= Draws
  /\ config' = DefaultConfig(drawn')
  /\ UNCHANGED <<ini, past, logVars>>

(* The file is read; only a secret that is still empty would be replaced   *)
(* and saved.                                                              *)
Loads ==
  /\ run = "load"
  /\ LET loaded == Load(config, ini.settings) IN
       IF loaded.secret = NoSecret
       THEN /\ config' = [loaded EXCEPT !.secret = drawn + 1]
            /\ drawn' = drawn + 1
            /\ run' = "create"
       ELSE /\ config' = loaded
            /\ drawn' = drawn
            /\ run' = "check"
  /\ UNCHANGED <<ini, whole, past, logVars>>

(* The file cannot be read: the defaults, with a secret of their own.      *)
LoadFails ==
  /\ run = "load"
  /\ run' = "check"
  /\ config' = DefaultConfig(drawn + 1)
  /\ drawn' = drawn + 1
  /\ whole' = FALSE
  /\ UNCHANGED <<ini, past, logVars>>

(* os.WriteFile truncates, then writes.  A file that was cut short ends    *)
(* between two settings here.                                              *)
SaveOpens ==
  /\ run = "create"
  /\ \/ run' = "write" /\ ini' = File(<<>>) /\ UNCHANGED whole
     \/ run' = "check" /\ whole' = FALSE /\ UNCHANGED ini
  /\ UNCHANGED <<config, drawn, past, logVars>>

SaveWrites ==
  /\ run = "write"
  /\ run' = "check"
  /\ \/ ini' = File(Saved(config)) /\ UNCHANGED whole
     \/ /\ \E n \in 0..(Len(SaveOrder) - 1) :
             ini' = File(SubSeq(Saved(config), 1, n))
        /\ whole' = FALSE
  /\ UNCHANGED <<config, drawn, past, logVars>>

Validates ==
  /\ run = "check"
  /\ Valid(config)
  /\ run' = "setup"
  /\ UNCHANGED <<ini, config, drawn, whole, past, logVars>>

(* logger.Setup, once per process; Top bounds log_max_files.               *)
SetsUpLog ==
  /\ run = "setup"
  /\ run' = "listen"
  /\ \/ /\ config.log_file = Empty
        /\ UNCHANGED logVars
     \/ /\ config.log_file # Empty
        /\ config.log_max_files \in 1..(Top - 1) /\ config.log_max_size \in Nat
        /\ Configured(config.log_max_size, config.log_max_files)
        /\ Opens
        /\ UNCHANGED <<call, i, p, next, stuck>>
  /\ UNCHANGED <<ini, config, drawn, whole, past>>

Serves ==
  /\ run = "listen"
  /\ run' = "serve"
  /\ past' = [ini |-> ini, config |-> config, whole |-> whole]
  /\ UNCHANGED <<ini, config, drawn, whole, logVars>>

(* A signal: server.Stop, then CloseLog; some goroutines go on logging.    *)
Stops ==
  /\ run = "serve"
  /\ run' = "leave"
  /\ CloseLog
  /\ UNCHANGED <<ini, config, drawn, whole, past>>

Logs ==
  /\ Write
  /\ UNCHANGED iniVars

(* main returns, log.Fatalf ends it at any failure of Validate, Setup or   *)
(* Listen, or the process is killed.                                       *)
Dies ==
  /\ run # "off"
  /\ run' = "off"
  /\ config' = Blank
  /\ whole' = FALSE
  /\ LogDies
  /\ UNCHANGED <<ini, drawn, past>>

ProcNext ==
  \/ Edit \/ Starts \/ Loads \/ LoadFails \/ SaveOpens \/ SaveWrites
  \/ Validates \/ SetsUpLog \/ Serves \/ Stops
  \/ Logs
  \/ Dies

ProcSpec == ProcInit /\ [][ProcNext]_procVars

-----------------------------------------------------------------------------
ProcTypeOK ==
  /\ LogTypeOK
  /\ run \in {"off", "load", "create", "write", "check", "setup", "listen",
              "serve", "leave"}
  /\ drawn \in 0..(Draws + 1)
  /\ whole \in BOOLEAN
  /\ config.secret \in Nat
  /\ file # "none" => run \in {"listen", "serve", "leave"}

(* The last usable secret of a file, if it has one.                        *)
Stored(settings) ==
  LET usable == {n \in DOMAIN settings : settings[n].key = "secret" /\ settings[n].text.form = "hex"}
  IN IF usable = {} THEN NoSecret
     ELSE settings[CHOOSE n \in usable : \A m \in usable : m <= n].text.says

(* Links keep working: a run over the file of the run before has the whole *)
(* configuration of that run, whichever of the two wrote the file and      *)
(* wherever runs in between died, when neither failed to read or write the *)
(* file and it holds a secret (main.go:107-142, config.go:95-300).         *)
ConfigKept ==
  [][ run = "listen" /\ run' = "serve" /\ whole /\ past.whole
      /\ ini = past.ini /\ Stored(ini.settings) # NoSecret
      => config = past.config ]_procVars

(* "Если secret пустой в файле - генерируем и сохраняем" (main.go:132):    *)
(* a run that failed in nothing has its secret in the file.                *)
SecretSaved ==
  run = "serve" /\ whole /\ ini = past.ini => Stored(ini.settings) = config.secret
=============================================================================
