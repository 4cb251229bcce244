------------------------------ MODULE Deployment ------------------------------
(***************************************************************************)
(* The commands that deploy the contracts on Ethereum (init-eth-*, and     *)
(* DANGER deploy_test_erc20): each deploys one contract from the first     *)
(* account of the local ganache node, with the address of the contract it  *)
(* depends on read from the configuration, and records its own address     *)
(* there.  Between the read and the deployment it waits for the node, and  *)
(* other terminals' commands and another chain may come in between.  The   *)
(* node keeps its chain in memory and its accounts are fixed, so the n-th  *)
(* contract of every chain has the same address, and the addresses of an   *)
(* earlier chain outlive it in the config file.                            *)
(***************************************************************************)
EXTENDS BridgeConfig, Integers, Sequences

CONSTANTS
  Address,   \* the address of the n-th contract of a chain
  Prover     \* the address init-eth-locker takes for the prover

(* The key of the first account, which start ganache writes into the file. *)
GanacheKey == "0x2bdd"

Kinds == {"ed25519", "client", "prover", "erc20", "locker"}
AddressParam == [k \in Kinds |-> CASE k = "ed25519" -> "eth-ed25519-address"
                                   [] k = "client" -> "eth-client-address"
                                   [] k = "prover" -> "eth-prover-address"
                                   [] k = "erc20" -> "eth-erc20-address"
                                   [] k = "locker" -> "eth-locker-address"]
InitCommand == [k \in Kinds |-> CASE k = "ed25519" -> "init-eth-ed25519"
                                  [] k = "client" -> "init-eth-client"
                                  [] k = "prover" -> "init-eth-prover"
                                  [] k = "erc20" -> "init-eth-erc20"
                                  [] k = "locker" -> "init-eth-locker"]

ASSUME DeploymentAssumption ==
  /\ \A k \in Kinds : AddressParam[k] \in Params
  /\ \A n \in DOMAIN Address : Address[n] \in Texts
  /\ Prover \in Texts

VARIABLES
  chain,      \* the contracts of the running chain, in the order deployed
  deployed,   \* history: [kind, address] of the contracts of every chain
  recorded,   \* history: kinds whose contract on this chain a command has
              \* saved, and nothing has undone that since
  deploying   \* the contract each terminal's command is about to send

deployVars == <<chain, deployed, recorded, deploying>>

(* The contract each kind is given the address of, if any.                 *)
DependsOn == [k \in Kinds |-> CASE k = "client" -> "ed25519"
                                [] k = "prover" -> "client"
                                [] k = "locker" -> "prover"
                                [] OTHER -> "none"]

(* init-eth-locker sets the prover's address itself, before deploying.     *)
Prepared(k, pv) ==
  IF k = "locker" THEN SetParam(pv, AddressParam["prover"], Prover) ELSE pv

Argument(k, pv) ==
  IF DependsOn[k] = "none" THEN "" ELSE GetParam(pv, AddressParam[DependsOn[k]])

(* A constructor that takes an address refuses to be given none.           *)
CanDeploy(c) == DependsOn[c.kind] # "none" => c.arg # ""

(* The parameter is taken from the file: not given, not in the environment *)
FromFile(pv, name) == pv[name] = Unset

(* "trusts" is history: when the address was read, the contract the new    *)
(* one depends on was recorded on this chain, and no other one was asked   *)
(* for; and the chain has not been replaced since.                         *)
Trusts(k, pv) ==
  /\ DependsOn[k] \in recorded
  /\ FromFile(pv, AddressParam[DependsOn[k]])

Contract(k, arg, trusts) == [kind |-> k, arg |-> arg, trusts |-> trusts]
NoContract == Contract("none", "", FALSE)
NextAddress == Address[Len(chain) + 1]

Mine(c) ==
  /\ Len(chain) + 1 \in DOMAIN Address
  /\ chain' = Append(chain, c)
  /\ deployed' = deployed \cup {[kind |-> c.kind, address |-> NextAddress]}

MutRecording(k, pv) == SetParam(pv, AddressParam["client"], NextAddress)
Recording(k, pv) == SetParam(pv, AddressParam[k], NextAddress)

DeploymentInit ==
  /\ chain = <<>>
  /\ deployed = {[kind |-> k, address |-> configFile[AddressParam[k]]] :
                   k \in {j \in Kinds : configFile[AddressParam[j]] # Missing}}
  /\ recorded = {}
  /\ deploying = [t \in Terminals |-> NoContract]

(* The command takes the constructor's argument from its parameters; then  *)
(* it waits for the accounts, the gas price and the transaction.           *)
ReadArgument(t, k) ==
  LET pv == Prepared(k, cmd[t].pv) IN
  /\ cmd[t].pc = "start" /\ cmd[t].run = InitCommand[k]
  /\ cmd' = [cmd EXCEPT ![t].pc = "deploying", ![t].pv = pv]
  /\ deploying' = [deploying EXCEPT ![t] = Contract(k, Argument(k, pv), Trusts(k, pv))]
  /\ UNCHANGED <<env, configFile, chain, deployed, recorded>>

Sent(t, k) ==
  /\ cmd[t].pc = "deploying" /\ deploying[t].kind = k
  /\ CanDeploy(deploying[t])
  /\ Mine(deploying[t])
  /\ deploying' = [deploying EXCEPT ![t] = NoContract]
  /\ UNCHANGED recorded

Deploy(t, k) ==
  /\ Sent(t, k)
  /\ cmd' = [cmd EXCEPT ![t] = Saving(@, Recording(k, @.pv))]
  /\ UNCHANGED <<env, configFile>>

(* The connection breaks or the operator interrupts while the command      *)
(* waits: the contract is on the chain, and nothing records it.            *)
DeployUnseen(t, k) == Sent(t, k) /\ End(t)

(* DANGER deploy_test_erc20 only prints the address.  It deploys from the  *)
(* account of eth-master-sk, which is the first one of the node if start   *)
(* ganache has set it; a contract of another account takes no address of   *)
(* the first one's.                                                        *)
DeployTestErc20(t) ==
  LET key == GetParam(cmd[t].pv, "eth-master-sk") IN
  /\ cmd[t].pc = "start" /\ cmd[t].run = "deploy_test_erc20"
  /\ IF key = GanacheKey THEN Mine(Contract("test-erc20", "", FALSE))
     ELSE key # "" /\ UNCHANGED <<chain, deployed>>
  /\ End(t)
  /\ UNCHANGED <<recorded, deploying>>

-----------------------------------------------------------------------------
(* What the steps of BridgeConfig mean for the records.                    *)
IsOwn(t, k) ==
  /\ cmd[t].run = InitCommand[k]
  /\ \E i \in DOMAIN chain :
       chain[i].kind = k /\ cmd[t].pv[AddressParam[k]].value = Address[i]

(* A write of a file read before another process's write undoes that one.  *)
Kept(file) == IF file # configFile THEN {} ELSE recorded

Record(t, n) ==
  /\ WriteFile(t, n)
  /\ recorded' = {k \in Kinds : IF AddressParam[k] = n THEN IsOwn(t, k)
                                ELSE k \in Kept(cmd[t].read)}
  /\ UNCHANGED <<chain, deployed, deploying>>

LoadCommand(t) ==
  /\ Load(t)
  /\ recorded' = Kept(cmd[t].read)
  /\ UNCHANGED <<chain, deployed, deploying>>

(* A ganache process starts: a chain without contracts.                    *)
NewChain ==
  /\ chain' = <<>>
  /\ recorded' = {}
  /\ deploying' = [t \in Terminals |-> [deploying[t] EXCEPT !.trusts = FALSE]]
  /\ UNCHANGED deployed
=============================================================================
