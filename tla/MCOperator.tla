------------------------------ MODULE MCOperator ------------------------------
(* OperatorCli with two terminals and small sets of values.                *)
EXTENDS OperatorCli

MCParams == {NodeUrl, "eth-master-sk"} \cup {AddressParam[k] : k \in Kinds}
MCAddress == <<"0xa1", "0xa2", "0xa3">>
MCTexts == {LocalNode, GanacheKey, Prover, "0xsecret", "0xgiven"}
             \cup {MCAddress[i] : i \in DOMAIN MCAddress}
MCDefault == [n \in MCParams |-> ""]

Only(name, value) == [NoArguments EXCEPT ![name] = value]

MCArguments ==
  [deploying |-> {NoArguments, Only("eth-client-address", "0xgiven")},
   serving |-> {NoArguments, Only("eth-master-sk", "0xgiven"),
                Only("eth-master-sk", "")},
   dumping |-> {}]
MCEnvironments ==
  [deploying |-> {NoArguments},
   serving |-> {NoArguments, Only("eth-master-sk", "0xsecret")},
   dumping |-> {NoArguments}]

(* An earlier chain had a test token and then an Ed25519 contract.         *)
Stale == Only("eth-ed25519-address", "0xa2")
Used == [Stale EXCEPT ![NodeUrl] = LocalNode, !["eth-master-sk"] = GanacheKey]
MCOldFiles == [deploying |-> {Used}, serving |-> {Stale}, dumping |-> {Stale}]

MCRepertoire ==
  [deploying |-> {InitCommand[k] : k \in Kinds \ {"erc20"}}
                   \cup {"deploy_test_erc20", "status"},
   serving |-> {"start ganache", "start tezos2eth-relay", "start bridge-watchdog",
                "stop tezos2eth-relay", "stop all", "clean", "init-eth-client"},
   dumping |-> {}]
MCRunning == [deploying |-> {"ganache"}, serving |-> {}, dumping |-> {}]
MCMaxCommands == [deploying |-> 3, serving |-> 3, dumping |-> 0]
MCBounds == (-3)..3
TerminalSymmetry == Permutations(Terminals)
=============================================================================
