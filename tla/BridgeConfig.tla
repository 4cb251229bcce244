------------------------------ MODULE BridgeConfig ------------------------------
(***************************************************************************)
(* The parameters of the command line tool (tez-bridge-lib/config): every  *)
(* command is a process with its own paramValues, and all of them share    *)
(* one config file.  Configstore reads and writes the whole file for every *)
(* key it sets, and once more when it is constructed, so commands that run *)
(* at the same time can undo each other's writes.                          *)
(***************************************************************************)
EXTENDS FiniteSets

CONSTANTS
  Terminals,   \* where the operator runs commands, one at a time in each
  Params,      \* the names of the parameters
  Texts,       \* the values other than the empty one
  Default      \* the declared default of each parameter, "" if it has none

Missing == "missing"
Values == Texts \cup {""}
NodeUrl == "eth-node-url"
LocalNode == "ws://localhost:9545"

ASSUME ConfigAssumption ==
  /\ NodeUrl \in Params
  /\ LocalNode \in Texts
  /\ Missing \notin Values
  /\ Default \in [Params -> Values]

VARIABLES
  env,         \* process.env, as far as it names parameters
  configFile,  \* what the config file says of each parameter
  cmd          \* the command each terminal runs

Entry(value, type) == [value |-> value, type |-> type]
Unset == Entry(Missing, "unset")
Files == [Params -> Values \cup {Missing}]
ParamValues == [Params -> [value : Values \cup {Missing},
                           type : {"unset", "env", "arg", "config"}]]
NoFile == [n \in Params |-> "none"]

IsSet(pv) == {n \in Params : pv[n] # Unset}

(* setParam *)
SetParam(pv, name, value) == [pv EXCEPT ![name] = Entry(value, "config")]

(* The modules a command loads set the URL of the Ethereum node before any *)
(* argument is read, whatever the file says.                               *)
Loaded == SetParam([n \in Params |-> Unset], NodeUrl, LocalNode)

(* _processArg: called only for the arguments that are given.              *)
ProcessArg(file, name, value) ==
  IF env[name] # Missing THEN Entry(env[name], "env")
  ELSE IF value # "" THEN Entry(value, "arg")
  ELSE Entry(file[name], "config")

(* An argument of a parameter that has a value already, or an empty one    *)
(* that nothing else gives a value, ends the command.                      *)
Refused(file, given) ==
  \E n \in Params :
    /\ given[n] # Missing
    /\ \/ n \in IsSet(Loaded)
       \/ given[n] = "" /\ env[n] = Missing /\ file[n] = Missing

Parsed(file, given) ==
  [n \in Params |-> IF given[n] # Missing THEN ProcessArg(file, n, given[n])
                    ELSE Loaded[n]]

(* maybeGetParam of a declared parameter *)
GetParam(pv, name) ==
  IF pv[name] # Unset THEN pv[name].value
  ELSE IF configFile[name] # Missing THEN configFile[name]
  ELSE Default[name]

MutArgsNoDaemon(pv) ==
  [n \in Params |-> IF pv[n].type = "env" THEN pv[n].value ELSE Missing]

(* getArgsNoDaemon: the arguments for the process that runs the service    *)
ArgsNoDaemon(pv) ==
  [n \in Params |-> IF pv[n].type = "arg" THEN pv[n].value ELSE Missing]

-----------------------------------------------------------------------------
Idle == [run |-> "none", pc |-> "idle", given |-> [n \in Params |-> Missing],
         pv |-> [n \in Params |-> Unset], left |-> {}, read |-> NoFile,
         todo |-> <<>>]

ConfigInit ==
  /\ env \in [Params -> Texts \cup {Missing}]
  /\ configFile \in Files
  /\ cmd = [t \in Terminals |-> Idle]

(* The process starts: the constructor of Configstore reads the file ...   *)
Issue(t, run, given) ==
  /\ cmd[t] = Idle
  /\ cmd' = [cmd EXCEPT ![t] = [Idle EXCEPT !.run = run, !.pc = "loading",
                                            !.given = given,
                                            !.read = configFile]]
  /\ UNCHANGED <<env, configFile>>

(* ... and writes back what it read.  Then the arguments are processed.    *)
Load(t) ==
  LET file == cmd[t].read
      given == cmd[t].given
  IN
  /\ cmd[t].pc = "loading"
  /\ configFile' = file
  /\ cmd' = [cmd EXCEPT ![t] =
               IF Refused(file, given) THEN Idle
               ELSE [@ EXCEPT !.pc = "start", !.read = NoFile,
                              !.pv = Parsed(file, given)]]
  /\ UNCHANGED env

(* saveConfig: every parameter that has a value, whatever its paramType,   *)
(* the URL of the node first as it was set first.                          *)
Saving(c, pv) == [c EXCEPT !.pc = "saving", !.pv = pv, !.left = IsSet(pv)]

ReadFile(t) ==
  /\ cmd[t].pc = "saving" /\ cmd[t].read = NoFile
  /\ cmd' = [cmd EXCEPT ![t].read = configFile]
  /\ UNCHANGED <<env, configFile>>

(* A command ends when all is saved, except that the callbacks of pm2 that *)
(* start ganache has registered run after this.                            *)
Written(c, n) ==
  IF c.left # {n} THEN [c EXCEPT !.read = NoFile, !.left = @ \ {n}]
  ELSE IF c.run = "start ganache" THEN [c EXCEPT !.read = NoFile, !.left = {},
                                                 !.pc = "saved"]
  ELSE Idle

MutWith(file, n, value) == IF file[n] = Missing THEN [file EXCEPT ![n] = value] ELSE file
With(file, n, value) == [file EXCEPT ![n] = value]

WriteFile(t, n) ==
  /\ cmd[t].pc = "saving" /\ cmd[t].read # NoFile /\ n \in cmd[t].left
  /\ NodeUrl \in cmd[t].left => n = NodeUrl
  /\ configFile' = With(cmd[t].read, n, cmd[t].pv[n].value)
  /\ cmd' = [cmd EXCEPT ![t] = Written(@, n)]
  /\ UNCHANGED env

(* The command ends, or is killed.                                         *)
End(t) ==
  /\ cmd' = [cmd EXCEPT ![t] = Idle]
  /\ UNCHANGED <<env, configFile>>
=============================================================================
