------------------------------ MODULE OperatorCli ------------------------------
(***************************************************************************)
(* An operator at the command line: deploys the contracts, runs the        *)
(* services, dumps blocks, in any order and in several terminals, and      *)
(* interrupts what does not please.  A session is about one of these; it   *)
(* limits the commands, not the order in which they are run.               *)
(***************************************************************************)
EXTENDS Services, Dumps

CONSTANTS
  Repertoire,   \* the commands of each session
  Arguments,    \* the arguments the operator may give in each
  Environments, \* the environments the commands may run in
  OldFiles,     \* the config files that earlier use may have left
  Running,      \* the services that run when the session begins
  MaxCommands   \* bound: commands and restarts of services in a session

ASSUME OperatorAssumption ==
  \A s \in DOMAIN Repertoire :
    /\ Arguments[s] \subseteq [Params -> Values \cup {Missing}]
    /\ Environments[s] \subseteq [Params -> Values \cup {Missing}]
    /\ OldFiles[s] \subseteq Files
    /\ MaxCommands[s] \in Nat

VARIABLES session, issued

vars == <<env, configFile, cmd, deployVars, pm2, dumpVars, session, issued>>

GivenNames(given) == {n \in Params : given[n] # Missing}

Init ==
  /\ session \in DOMAIN Repertoire
  /\ issued = 0
  /\ env \in Environments[session]
  /\ configFile \in OldFiles[session]
  /\ cmd = [t \in Terminals |-> Idle]
  /\ DeploymentInit
  /\ ServicesInit(Running[session])
  /\ DumpsInit

(* A command with an option it does not have ends at once, and is not an   *)
(* action.                                                                 *)
RunCommand(t) ==
  \E run \in Repertoire[session], given \in Arguments[session] :
    /\ issued < MaxCommands[session]
    /\ GivenNames(given) \subseteq Options(run)
    /\ Issue(t, run, given)
    /\ issued' = issued + 1
    /\ UNCHANGED <<deployVars, pm2>>

(* The commands deploy to the local node, whatever the file says.          *)
DeployContract(t) ==
  /\ \/ \E k \in Kinds : ReadArgument(t, k)
     \/ /\ IsUp("ganache")
        /\ \/ \E k \in Kinds : Deploy(t, k) \/ DeployUnseen(t, k)
           \/ DeployTestErc20(t)
  /\ UNCHANGED pm2

AccessFile(t) ==
  /\ LoadCommand(t) \/ (ReadFile(t) /\ UNCHANGED deployVars)
                    \/ \E n \in Params : Record(t, n)
  /\ UNCHANGED pm2

ManageService(t) ==
  \/ StartGanache(t)
  \/ \E s \in Managed : Describe(t, s) \/ Spawn(t, s)
  \/ Stop(t) \/ StopNext(t) \/ Clean(t)

RestartService ==
  /\ issued < MaxCommands[session]
  /\ \E s \in Managed : Restart(s)
  /\ issued' = issued + 1

Next ==
  \/ /\ \E t \in Terminals :
          DeployContract(t) \/ AccessFile(t) \/ ManageService(t) \/ Return(t)
     /\ UNCHANGED <<dumpVars, session, issued>>
  \/ /\ \E s \in Managed : LoadService(s) \/ RunService(s)
     /\ UNCHANGED <<dumpVars, session, issued>>
  \/ /\ (\E t \in Terminals : RunCommand(t)) \/ RestartService
     /\ UNCHANGED <<dumpVars, session>>
  \/ /\ Repertoire[session] = {}
     /\ DumpsNext
     /\ UNCHANGED <<env, configFile, cmd, deployVars, pm2, session, issued>>

Spec == Init /\ [][Next]_vars

-----------------------------------------------------------------------------
TypeOK ==
  /\ session \in DOMAIN Repertoire /\ issued \in 0..MaxCommands[session]
  /\ env \in [Params -> Values \cup {Missing}] /\ configFile \in Files
  /\ \A t \in Terminals :
       /\ cmd[t].pc \in {"idle", "loading", "start", "deploying", "saving", "saved",
                        "spawn", "stopping"}
       /\ cmd[t].pv \in ParamValues /\ cmd[t].left \subseteq Params
       /\ cmd[t].read \in Files \cup {NoFile}
       /\ cmd[t].pc = "saving" <=> cmd[t].left # {}
       /\ cmd[t].pc = "loading" => cmd[t].read # NoFile
       /\ cmd[t].pc = "deploying" <=> deploying[t].kind \in Kinds
  /\ Len(chain) <= Len(Address) /\ recorded \subseteq Kinds
  /\ \A s \in Managed : /\ pm2[s].uses \in [ServiceParams -> Values] \cup {NoUses}
                         /\ pm2[s].read \in Files \cup {NoFile}
  /\ eth.files \subseteq 0..MaxHead
  /\ \A f \in tezos.files : f.block \in 0..MaxHead /\ f.against \in 0..MaxHead

ByHand(name, value) == value = env[name] \/ \E g \in Arguments[session] : g[name] = value

(* Whatever commands run at the same time, are interrupted, or undo each   *)
(* other's writes: an address in the config file is one at which a command *)
(* did deploy a contract of that kind, on this chain or an earlier one,    *)
(* unless the operator gave it or it is the one init-eth-locker assumes of *)
(* the prover (EthContractInitializer.execute with saveConfig).            *)
IsDeployed(k, address) ==
  \/ [kind |-> k, address |-> address] \in deployed
  \/ ByHand(AddressParam[k], address)
  \/ k = "prover" /\ address = Prover

RecordedWasDeployed ==
  \A k \in Kinds :
    configFile[AddressParam[k]] # Missing => IsDeployed(k, configFile[AddressParam[k]])

(* A client or prover whose command read the address of the contract it    *)
(* depends on while that one was recorded on this chain is wired to a      *)
(* contract of that kind on this chain (EthContractInitializer.execute and *)
(* its callers), although the file holds addresses of earlier chains,      *)
(* which other contracts may have got since, and commands and services     *)
(* write the file back, record another one before the transaction is sent, *)
(* and are interrupted anywhere.  A record that another process's write    *)
(* has undone does not count, and a chain that is replaced while the       *)
(* command waits has no part in it.                                        *)
WiredToRecorded ==
  \A i \in DOMAIN chain : chain[i].trusts =>
    \E j \in 1..(i - 1) : /\ chain[j].kind = DependsOn[chain[i].kind]
                          /\ Address[j] = chain[i].arg

(* A service keeps the arguments it was started with each time pm2 starts  *)
(* it again, whatever other commands have saved since (getArgsNoDaemon),   *)
(* unless the environment has another value.                               *)
ArgumentsStick ==
  \A s \in Managed \ {"ganache"} : pm2[s].uses # NoUses =>
    \A p \in ServiceParams :
      pm2[s].asked[p] \notin {Missing, ""} /\ env[p] = Missing =>
        pm2[s].uses[p] = pm2[s].asked[p]
=============================================================================
