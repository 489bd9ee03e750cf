------------------------------- MODULE Config -------------------------------
(***************************************************************************)
(* Where daemon and client have their configuration from                   *)
(* (internal/app/config.go, parseArgs, the unit's EnvironmentFile): the    *)
(* file /etc/nasmon/nasmon.env, which is edited at any time; the process   *)
(* environment, in which systemd puts what it reads in the file when it    *)
(* starts the daemon; defaults; the client's argument.                     *)
(*                                                                         *)
(* A text is absent, empty, garbage or an integer: a number of seconds, or *)
(* which path.  A duration is a signed number of Bits bits.                *)
(*                                                                         *)
(* systemd's grammar is not parseEnvFile's: it takes away backslashes and  *)
(* quotes inside a value, which the code keeps, and joins a line that ends *)
(* in a backslash with the next, which the code reads on its own.          *)
(***************************************************************************)
EXTENDS Integers

CONSTANTS
  Numbers,                 \* integers that are written
  Absent, Empty, Garbage,  \* other texts; garbage is not a number
  Damaged,                 \* a file with a line without "="
  NoEnvironment,           \* no daemon is being started
  Down, Failed, Panicked,  \* what a process may be instead of configured
  Second,                  \* in units of a duration
  Bits,                    \* of a duration
  MaxArgument,             \* 3600
  MaxEdit                  \* bound: edits of the file

Durations == {"MAIN_INTERVAL", "STATE_INTERVAL"}

ConfigKeys == Durations \cup {"NAS_STATE_FILE"}

\* In seconds, and one path.
Default == [MAIN_INTERVAL |-> 2, STATE_INTERVAL |-> 5, NAS_STATE_FILE |-> 1]

\* Durations are in -Half .. Half - 1.
Half == 2 ^ (Bits - 1)

InRange(n) == n * Second < Half

ASSUME ConfigAssumption ==
  /\ Numbers \subseteq Int /\ {Absent, Empty, Garbage} \cap Int = {}
  /\ {Damaged, NoEnvironment, Down, Failed, Panicked}
       \cap [ConfigKeys -> Int \cup {Absent, Empty, Garbage}] = {}
  /\ Failed # Panicked
  /\ Bits \in Nat \ {0} /\ Half \in Nat \ {0}
  /\ Second \in Nat \ {0} /\ MaxEdit \in Nat
  /\ MaxArgument \in Nat \ {0} /\ InRange(MaxArgument)
  /\ \A k \in ConfigKeys : InRange(Default[k])

VARIABLES
  envFile,     \* the file's values as the code reads them, or Damaged
  systemdFile, \* as systemd reads them
  environment, \* what systemd has made for a daemon it starts
  daemonHas,   \* the daemon's configuration
  clientHas,   \* the client's
  overrides,   \* history: keys the client has from its shell; "argument"
  edits,
  sinceEdit    \* history: of "environment", "daemon", "client", those made since the last edit

fileVars == <<envFile, systemdFile>>
configVars == <<fileVars, environment, daemonHas, clientHas, overrides, edits, sinceEdit>>

Texts == Numbers \cup {Absent, Empty, Garbage}

Unset == [k \in ConfigKeys |-> Absent]

\* What a line may be for the code and for systemd: the same; garbage with a
\* number in it; a line that systemd has joined with the one before.
Readings ==
  {<<t, t>> : t \in Texts} \cup {<<Garbage, n>> : n \in Numbers} \cup {<<t, Absent>> : t \in Texts}

ConfigInit ==
  /\ envFile = Unset /\ systemdFile = Unset /\ environment = NoEnvironment
  /\ daemonHas = Down /\ clientHas = Down
  /\ overrides = {} /\ edits = 0 /\ sinceEdit = {}

\* combinedLookup: what is empty in the environment still hides the file's.
Lookup(env, file, k) ==
  IF env[k] # Absent THEN env[k] ELSE IF file[k] # Absent THEN file[k] ELSE Empty

\* n * time.Second
Seconds(n) == ((n * Second + Half) % (2 * Half)) - Half

\* Faulty variant: zero is a number.
EnvDurationZero(text, k) ==
  IF text \in {Empty, Garbage} THEN Seconds(Default[k])
  ELSE IF text < 0 THEN Seconds(Default[k]) ELSE Seconds(text)

\* envDuration
EnvDuration(text, k) ==
  IF text \in {Empty, Garbage} THEN Seconds(Default[k])
  ELSE IF text < 1 THEN Seconds(Default[k]) ELSE Seconds(text)

\* configFromLookup; any text is a path.
FromLookup(env, file) ==
  [k \in ConfigKeys |->
     LET text == Lookup(env, file, k) IN
       IF k \in Durations THEN EnvDuration(text, k)
       ELSE IF text = Empty THEN Default[k] ELSE text]

\* A file that is missing has no values.
ParseEnvFile == IF envFile = Damaged THEN Failed ELSE envFile

LoadConfig(env) ==
  IF ParseEnvFile = Failed THEN Failed ELSE FromLookup(env, ParseEnvFile)

\* time.NewTicker panics if its interval is not positive.  That of STATE_INTERVAL
\* has one second instead (publishUpdates).
Ticking(cfg) ==
  IF cfg = Failed THEN Failed
  ELSE IF cfg["MAIN_INTERVAL"] <= 0 THEN Panicked ELSE cfg

-----------------------------------------------------------------------------

Edit ==
  /\ edits < MaxEdit
  /\ edits' = edits + 1
  /\ \/ envFile' = Damaged /\ systemdFile' = Unset
     \/ \E k \in ConfigKeys, t \in Readings :
          /\ envFile' = [IF envFile = Damaged THEN Unset ELSE envFile EXCEPT ![k] = t[1]]
          /\ systemdFile' = [systemdFile EXCEPT ![k] = t[2]]
  /\ sinceEdit' = {}
  /\ UNCHANGED <<environment, daemonHas, clientHas, overrides>>

\* systemd reads its EnvironmentFile and starts the daemon, which will not
\* get further with a damaged file.
SystemdStarts ==
  /\ environment = NoEnvironment
  /\ environment' = systemdFile
  /\ daemonHas' = Down
  /\ sinceEdit' = (sinceEdit \cup {"environment"}) \ {"daemon"}
  /\ UNCHANGED <<fileVars, clientHas, overrides, edits>>

\* nasmond's main up to app.Start.
DaemonLoads ==
  /\ environment # NoEnvironment
  /\ daemonHas' = Ticking(LoadConfig(environment))
  /\ environment' = NoEnvironment
  /\ sinceEdit' = IF "environment" \in sinceEdit
                  THEN (sinceEdit \ {"environment"}) \cup {"daemon"} ELSE sinceEdit
  /\ UNCHANGED <<fileVars, clientHas, overrides, edits>>

\* parseArgs
WithArgument(cfg, n) ==
  IF cfg = Failed \/ n < 1 THEN Failed
  ELSE [cfg EXCEPT !.MAIN_INTERVAL = Seconds(IF n > MaxArgument THEN MaxArgument ELSE n)]

\* Faulty variant: with an argument nothing else is loaded.
ClientArgumentFirst ==
  /\ clientHas = Down
  /\ \E n \in Numbers :
       clientHas' = Ticking(WithArgument(FromLookup(Unset, Unset), n))
  /\ overrides' = {"argument"}
  /\ sinceEdit' = sinceEdit \cup {"client"}
  /\ UNCHANGED <<fileVars, environment, daemonHas, edits>>

\* nasmon, from a shell that may set one of the values.  One client is enough:
\* clients share nothing.
ClientStarts ==
  /\ clientHas = Down
  /\ \E k \in ConfigKeys, t \in Texts :
       LET env == [Unset EXCEPT ![k] = t]
           set == IF t = Absent THEN {} ELSE {k}
       IN \/ /\ clientHas' = Ticking(LoadConfig(env))
             /\ overrides' = set
          \/ \E n \in Numbers :
               /\ clientHas' = Ticking(WithArgument(LoadConfig(env), n))
               /\ overrides' = set \cup {"argument"}
  /\ sinceEdit' = sinceEdit \cup {"client"}
  /\ UNCHANGED <<fileVars, environment, daemonHas, edits>>

ConfigNext == Edit \/ SystemdStarts \/ DaemonLoads \/ ClientStarts

ConfigSpec == ConfigInit /\ [][ConfigNext]_configVars

-----------------------------------------------------------------------------
(* Properties *)

Runs(cfg) == cfg \notin {Down, Failed, Panicked}

Loaded == [MAIN_INTERVAL : Int, STATE_INTERVAL : Int,
           NAS_STATE_FILE : Numbers \cup {Garbage, 1}]

\* The types of the variables; who runs has a positive interval to tick.
ConfigTypeOK ==
  /\ envFile = Damaged \/ envFile \in [ConfigKeys -> Texts]
  /\ systemdFile \in [ConfigKeys -> Texts]
  /\ environment = NoEnvironment \/ environment \in [ConfigKeys -> Texts]
  /\ Runs(daemonHas) => daemonHas \in Loaded /\ daemonHas.MAIN_INTERVAL > 0
  /\ Runs(clientHas) => clientHas \in Loaded /\ clientHas.MAIN_INTERVAL > 0
  /\ overrides \subseteq ConfigKeys \cup {"argument"} /\ edits \in 0 .. MaxEdit
  /\ sinceEdit \subseteq {"environment", "daemon", "client"}

\* What the client does not override.
Shared == {k \in ConfigKeys \ overrides : k # "MAIN_INTERVAL" \/ "argument" \notin overrides}

\* config.go:189 "This keeps nasmond and nasmon on the same state path,
\* intervals and host settings even when the client is launched from a shell":
\* once both were started after the last edit of the file they agree on what
\* the client does not override and systemd does not read in another way; what
\* systemd has not read they agree on too.  A file that keeps the one from
\* starting keeps the other.
SameConfiguration ==
  {"daemon", "client"} \subseteq sinceEdit =>
    /\ Runs(daemonHas) /\ Runs(clientHas) =>
         \A k \in Shared :
           systemdFile[k] \in {Absent, envFile[k]} => clientHas[k] = daemonHas[k]
    /\ daemonHas = Failed => clientHas = Failed

\* The same sentence as it stands: they agree on all that the client does not
\* override.  It does not hold: where systemd reads a line in its own way the
\* daemon takes that reading from its environment, and the client the file's.
OneConfiguration ==
  {"daemon", "client"} \subseteq sinceEdit /\ Runs(daemonHas) /\ Runs(clientHas) =>
    \A k \in Shared : clientHas[k] = daemonHas[k]

\* Nothing that is written in the file, but a number of seconds for MAIN_INTERVAL
\* that does not fit into a duration, makes the daemon's tickers panic, and no
\* argument makes the client's.
PanicsOutOfRange ==
  /\ "daemon" \in sinceEdit /\ daemonHas = Panicked =>
       \E n \in {envFile["MAIN_INTERVAL"], systemdFile["MAIN_INTERVAL"]} :
         n \in Int /\ ~InRange(n)
  /\ clientHas = Panicked => "argument" \notin overrides
=============================================================================
