------------------------------- MODULE Services -------------------------------
(***************************************************************************)
(* The commands that start, stop and clean up the services.  A service is  *)
(* a process the pm2 daemon keeps alive: the command line tool again, with *)
(* the arguments of the command that started it, except for ganache, which *)
(* is a script.  Each time pm2 starts it, it reads the config file and     *)
(* writes it back, as every command does, and then takes the parameters it *)
(* was not given from there.                                               *)
(***************************************************************************)
EXTENDS Deployment, TLC

Managed == {"ganache", "tezos2eth-relay", "bridge-watchdog"}
ServiceParams == {"eth-master-sk", "eth-client-address"}

VARIABLE pm2   \* what pm2 knows of each service

NoArguments == [n \in Params |-> Missing]
NoUses == [p \in ServiceParams |-> Missing]
Absent == [up |-> FALSE, asked |-> NoArguments, args |-> NoArguments,
           uses |-> NoUses, read |-> NoFile]
IsUp(s) == pm2[s].up

ServicesInit(up) == pm2 = [s \in Managed |-> [Absent EXCEPT !.up = s \in up]]

(* The options each command accepts, as far as Params has them.            *)
StartOptions == ("start tezos2eth-relay" :> {NodeUrl, "eth-master-sk", "eth-client-address"})
             @@ ("start bridge-watchdog" :> {NodeUrl, "eth-master-sk"})
InitOptions ==
  [k \in Kinds |-> {NodeUrl, "eth-master-sk"} \cup
     CASE k = "client" -> {"eth-ed25519-address"}
       [] k = "prover" -> {"eth-client-address"}
       [] k = "locker" -> {"eth-erc20-address", "eth-prover-address"}
       [] OTHER -> {}]

Options(run) ==
  {n \in Params :
     \/ run \in DOMAIN StartOptions /\ n \in StartOptions[run]
     \/ \E k \in Kinds : run = InitCommand[k] /\ n \in InitOptions[k]
     \/ run = "deploy_test_erc20" /\ n \in {NodeUrl, "eth-master-sk"}}

StartCommand == [s \in Managed |->
  CASE s = "ganache" -> "start ganache"
    [] s = "tezos2eth-relay" -> "start tezos2eth-relay"
    [] OTHER -> "start bridge-watchdog"]
Starts(t, s) == cmd[t].run = StartCommand[s]
StopOrder == <<"ganache", "eth2tezos-relay", "tezos2eth-relay", "bridge-watchdog">>
Stopped == [s \in {StopOrder[i] : i \in DOMAIN StopOrder} |-> "stop " \o s]

ASSUME ServicesAssumption == ServiceParams \subseteq Params /\ GanacheKey \in Texts

(* start ganache writes the settings of the local node into the file; the  *)
(* callbacks of pm2 run after that.                                        *)
StartGanache(t) ==
  /\ cmd[t].pc = "start" /\ Starts(t, "ganache")
  /\ cmd' = [cmd EXCEPT ![t] =
       Saving(@, SetParam(SetParam(@.pv, NodeUrl, LocalNode),
                          "eth-master-sk", GanacheKey))]
  /\ UNCHANGED <<env, configFile, deployVars, pm2>>

(* spawnProcess asks pm2 for the service ...                               *)
Describe(t, s) ==
  /\ Starts(t, s)
  /\ cmd[t].pc = IF s = "ganache" THEN "saved" ELSE "start"
  /\ ~ IsUp(s)
  /\ cmd' = [cmd EXCEPT ![t].pc = "spawn"]
  /\ UNCHANGED <<env, configFile, deployVars, pm2>>

(* ... and starts it if there was none.  The process that pm2 then runs    *)
(* has the arguments given on the command line, and no others.             *)
Process(s, asked, args) ==
  [up |-> TRUE, asked |-> asked, args |-> args, uses |-> NoUses,
   read |-> IF s = "ganache" THEN NoFile ELSE configFile]

Spawn(t, s) ==
  /\ cmd[t].pc = "spawn" /\ Starts(t, s)
  /\ \/ pm2' = [pm2 EXCEPT ![s] = Process(s, cmd[t].given, ArgsNoDaemon(cmd[t].pv))]
     \/ IsUp(s) /\ UNCHANGED pm2       \* pm2 restarts the one it has by now
  /\ IF s = "ganache" THEN NewChain ELSE UNCHANGED deployVars
  /\ End(t)

(* A service ends by itself and is started again.                          *)
Restart(s) ==
  /\ IsUp(s)
  /\ pm2' = [pm2 EXCEPT ![s] = Process(s, @.asked, @.args)]
  /\ IF s = "ganache" THEN NewChain ELSE UNCHANGED deployVars
  /\ UNCHANGED <<env, configFile, cmd>>

(* The process of a service writes back the file it has read ...           *)
LoadService(s) ==
  /\ pm2[s].read # NoFile
  /\ configFile' = pm2[s].read
  /\ recorded' = Kept(pm2[s].read)
  /\ pm2' = [pm2 EXCEPT ![s].read = NoFile]
  /\ UNCHANGED <<env, cmd, chain, deployed, deploying>>

(* ... and takes its parameters.                                           *)
Uses(args) ==
  [p \in ServiceParams |-> GetParam(Parsed(configFile, args), p)]

RunService(s) ==
  /\ IsUp(s) /\ s # "ganache"
  /\ pm2[s].read = NoFile /\ pm2[s].uses = NoUses
  /\ pm2' = [pm2 EXCEPT ![s].uses = Uses(pm2[s].args)]
  /\ UNCHANGED <<env, configFile, cmd, deployVars>>

-----------------------------------------------------------------------------
(* stop: the services are deleted one after the other, and an error of one *)
(* does not keep the next from being tried.                                *)
Stop(t) ==
  /\ cmd[t].pc = "start"
  /\ \/ /\ cmd[t].run = "stop all"
        /\ cmd' = [cmd EXCEPT ![t].pc = "stopping", ![t].todo = StopOrder]
     \/ \E s \in DOMAIN Stopped :
          /\ cmd[t].run = Stopped[s]
          /\ cmd' = [cmd EXCEPT ![t].pc = "stopping", ![t].todo = <<s>>]
  /\ UNCHANGED <<env, configFile, deployVars, pm2>>

Delete(s) ==
  IF s \in Managed
  THEN /\ pm2' = [pm2 EXCEPT ![s] = Absent]
       /\ IF s = "ganache" THEN NewChain ELSE UNCHANGED deployVars
  ELSE UNCHANGED <<deployVars, pm2>>

StopNext(t) ==
  /\ cmd[t].pc = "stopping" /\ cmd[t].todo # <<>>
  /\ Delete(Head(cmd[t].todo)) \/ UNCHANGED <<deployVars, pm2>>
  /\ cmd' = [cmd EXCEPT ![t].todo = Tail(@)]
  /\ UNCHANGED <<env, configFile>>

(* clean kills the daemon and every service with it, and removes           *)
(* ~/.tezbridge; the config file is in ~/tezbridge and stays.              *)
Clean(t) ==
  /\ cmd[t].pc = "start" /\ cmd[t].run = "clean"
  /\ pm2' = [s \in Managed |-> Absent]
  /\ NewChain
  /\ End(t)

(* The command returns, stops at an error, or is interrupted; status does  *)
(* nothing else, and the relay to Tezos runs in the terminal until then.   *)
Return(t) ==
  /\ cmd[t] # Idle
  /\ End(t)
  /\ deploying' = [deploying EXCEPT ![t] = NoContract]
  /\ UNCHANGED <<chain, deployed, recorded, pm2>>
=============================================================================
