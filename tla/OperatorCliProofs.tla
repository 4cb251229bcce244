-------------------------- MODULE OperatorCliProofs --------------------------
(***************************************************************************)
(* Proofs about the commands and the config file they share, for any       *)
(* number of terminals and commands and any repertoire, arguments,         *)
(* environment and old config file; and about the two dump commands, for   *)
(* every window, range, number of blocks and growth of the chain.          *)
(***************************************************************************)
EXTENDS OperatorCli, FiniteSetTheorems, TLAPS

Pcs == {"idle", "loading", "start", "deploying", "saving", "saved", "spawn", "stopping"}

Runs == {"none"} \cup UNION {Repertoire[s] : s \in DOMAIN Repertoire}
StopNames == {"ganache", "eth2tezos-relay", "tezos2eth-relay", "bridge-watchdog"}

Contracts == [kind : Kinds \cup {"test-erc20", "none"}, arg : Values \cup {Missing}, trusts : BOOLEAN]
ChainTyped == chain \in Seq(Contracts) /\ deploying \in [Terminals -> Contracts]

Commands ==
  [run : Runs, pc : Pcs, given : [Params -> Values \cup {Missing}], pv : ParamValues,
   left : SUBSET Params, read : Files \cup {NoFile}, todo : Seq(StopNames)]

Types ==
  /\ session \in DOMAIN Repertoire
  /\ env \in [Params -> Values \cup {Missing}]
  /\ configFile \in Files
  /\ cmd \in [Terminals -> Commands]
  /\ ChainTyped

LEMMA Names ==
  /\ \A k \in Kinds : AddressParam[k] \notin {NodeUrl, "eth-master-sk"}
  /\ \A j, k \in Kinds : AddressParam[j] = AddressParam[k] => j = k
  /\ DependsOn \in [Kinds -> Kinds \cup {"none"}]
BY DEF Kinds, AddressParam, NodeUrl, DependsOn

LEMMA LoadedType == Loaded \in ParamValues
BY ConfigAssumption DEF Loaded, SetParam, ParamValues, Entry, Unset, Values

LEMMA ParsedType ==
  ASSUME NEW file \in Files, NEW given \in [Params -> Values \cup {Missing}],
         env \in [Params -> Values \cup {Missing}]
  PROVE  Parsed(file, given) \in ParamValues
BY LoadedType DEF Parsed, ProcessArg, ParamValues, Entry, Files

LEMMA GetParamType ==
  ASSUME NEW pv \in ParamValues, configFile \in Files, NEW n \in Params
  PROVE  GetParam(pv, n) \in Values \cup {Missing}
BY ConfigAssumption DEF GetParam, ParamValues, Files

LEMMA SetParamType ==
  ASSUME NEW pv \in ParamValues, NEW n \in Params, NEW v \in Values
  PROVE  SetParam(pv, n, v) \in ParamValues
BY DEF SetParam, ParamValues, Entry

LEMMA IdleType == Idle \in Commands
<1>1. [n \in Params |-> Unset] \in ParamValues /\ [n \in Params |-> Missing] \in [Params -> Values \cup {Missing}]
  BY DEF Unset, Entry, ParamValues
<1>2. <<>> \in Seq(StopNames) /\ {} \in SUBSET Params /\ NoFile \in Files \cup {NoFile}
  OBVIOUS
<1>3. "none" \in Runs /\ "idle" \in Pcs
  BY DEF Pcs, Runs
<1> QED BY <1>1, <1>2, <1>3 DEF Idle, Commands

-----------------------------------------------------------------------------
(* Whatever a command has read or is going to write names only contracts   *)
(* that were deployed.                                                     *)

FileOk(file) == \A k \in Kinds : file[AddressParam[k]] # Missing => IsDeployed(k, file[AddressParam[k]])

PvOk(pv) ==
  \A k \in Kinds : pv[AddressParam[k]].value # Missing => IsDeployed(k, pv[AddressParam[k]].value)

CmdOk(c) ==
  /\ c \in Commands
  /\ c.pc = "loading" => c.given \in Arguments[session]
  /\ c.pc = "loading" \/ c.read # NoFile => FileOk(c.read)
  /\ c.pc = "loading" => c.read \in Files
  /\ PvOk(c.pv)

FilesInv == Types /\ FileOk(configFile) /\ \A t \in Terminals : CmdOk(cmd[t])

(* Each step keeps the session and the environment, and forgets no         *)
(* deployment.                                                             *)
Grows == UNCHANGED <<session, env>> /\ deployed \subseteq deployed'

LEMMA StaysDeployed ==
  ASSUME Grows, NEW k, NEW address, IsDeployed(k, address)
  PROVE  IsDeployed(k, address)'
BY DEF Grows, IsDeployed, ByHand

LEMMA StaysOk ==
  ASSUME Grows, NEW c, CmdOk(c)
  PROVE  CmdOk(c)'
<1>1. \A k, address : IsDeployed(k, address) => IsDeployed(k, address)'
  BY StaysDeployed
<1>2. session' = session
  BY DEF Grows
<1>3. (FileOk(c.read) => FileOk(c.read)') /\ (PvOk(c.pv) => PvOk(c.pv)')
  BY <1>1 DEF FileOk, PvOk
<1> QED BY <1>2, <1>3 DEF CmdOk

LEMMA IdleOk == CmdOk(Idle)
<1>1. Idle.pc = "idle" /\ Idle.read = NoFile /\ \A n \in Params : Idle.pv[n].value = Missing
  BY DEF Idle, Unset, Entry
<1> QED BY <1>1, IdleType, DeploymentAssumption DEF CmdOk, PvOk

(* A step of one terminal that leaves its command in order.                *)
LEMMA OneCommand ==
  ASSUME FilesInv, Grows, NEW t \in Terminals, NEW c, CmdOk(c)',
         cmd' = [cmd EXCEPT ![t] = c], configFile' \in Files, FileOk(configFile'),
         ChainTyped'
  PROVE  FilesInv'
<1>1. \A d : CmdOk(d) => CmdOk(d)'
  BY StaysOk
<1>2. cmd \in [Terminals -> Commands] /\ c \in Commands
  BY DEF FilesInv, Types, CmdOk
<1>3. \A u \in Terminals : CmdOk(cmd[u])'
  BY <1>1, <1>2 DEF FilesInv
<1>4. FileOk(configFile)'
  BY StaysDeployed DEF FileOk
<1>5. Types'
  BY <1>2 DEF FilesInv, Types, Grows
<1> QED BY <1>3, <1>4, <1>5 DEF FilesInv

LEMMA EndStep ==
  ASSUME FilesInv, Grows, NEW t \in Terminals, End(t), ChainTyped'
  PROVE  FilesInv'
<1>1. CmdOk(Idle)'
  BY IdleOk, StaysOk
<1> QED BY <1>1, OneCommand DEF End, FilesInv, Types

LEMMA IssueStep ==
  ASSUME FilesInv, NEW t \in Terminals, NEW run \in Repertoire[session],
         NEW given \in Arguments[session], Issue(t, run, given),
         UNCHANGED <<session, deployVars>>
  PROVE  FilesInv'
<1>1. PICK c : c = [Idle EXCEPT !.run = run, !.pc = "loading", !.given = given, !.read = configFile]
  OBVIOUS
<1>2. Types /\ Grows /\ run \in Runs /\ given \in [Params -> Values \cup {Missing}]
  BY OperatorAssumption DEF FilesInv, Types, Issue, Runs, Grows, deployVars
<1>3. c \in Commands /\ c.pc = "loading" /\ c.given = given /\ c.read = configFile /\ c.pv = Idle.pv
  BY <1>1, <1>2, IdleType DEF Commands, Pcs, Types
<1>4. CmdOk(c)
  BY <1>2, <1>3, IdleOk DEF CmdOk, FilesInv, Types
<1>5. CmdOk(c)' /\ configFile' = configFile /\ ChainTyped' /\ cmd' = [cmd EXCEPT ![t] = c]
  BY <1>1, <1>2, <1>4, StaysOk DEF Issue, deployVars, Types, ChainTyped
<1> QED BY <1>2, <1>5, OneCommand DEF FilesInv, Types

LEMMA ParsedOk ==
  ASSUME NEW file, NEW given \in Arguments[session], FileOk(file)
  PROVE  PvOk(Parsed(file, given))
<1> SUFFICES ASSUME NEW k \in Kinds, NEW n, n = AddressParam[k],
                    Parsed(file, given)[n].value # Missing
             PROVE  IsDeployed(k, Parsed(file, given)[n].value)
  BY DEF PvOk
<1>1. n \in Params /\ n # NodeUrl
  BY Names, DeploymentAssumption
<1>2. CASE given[n] = Missing
  BY <1>1, <1>2 DEF Parsed, Loaded, SetParam, Unset, Entry
<1>3. CASE given[n] # Missing
  <2>1. Parsed(file, given)[n] = ProcessArg(file, n, given[n])
    BY <1>1, <1>3 DEF Parsed
  <2>2. Parsed(file, given)[n].value \in {env[n], given[n], file[n]}
    <3>1. ProcessArg(file, n, given[n]) \in
            {Entry(env[n], "env"), Entry(given[n], "arg"), Entry(file[n], "config")}
      BY Zenon DEF ProcessArg
    <3>2. \A value, type : Entry(value, type).value = value
      BY DEF Entry
    <3> QED BY <2>1, <3>1, <3>2
  <2>3. Parsed(file, given)[n].value = file[n] => file[n] # Missing
    OBVIOUS
  <2> QED BY <2>2, <2>3 DEF IsDeployed, ByHand, FileOk
<1> QED BY <1>2, <1>3

LEMMA LoadStep ==
  ASSUME FilesInv, NEW t \in Terminals, LoadCommand(t), UNCHANGED session
  PROVE  FilesInv'
<1> DEFINE file == cmd[t].read
           given == cmd[t].given
<1>1. /\ cmd[t] \in Commands /\ cmd[t].pc = "loading" /\ CmdOk(cmd[t]) /\ Grows
      /\ configFile' = file /\ ChainTyped' /\ Types
  BY DEF FilesInv, Types, LoadCommand, Load, Grows, ChainTyped
<1>2. file \in Files /\ FileOk(file) /\ given \in Arguments[session]
      /\ given \in [Params -> Values \cup {Missing}]
  BY <1>1 DEF CmdOk, Commands
<1>3. PICK c : c = IF Refused(file, given) THEN Idle
                   ELSE [cmd[t] EXCEPT !.pc = "start", !.read = NoFile, !.pv = Parsed(file, given)]
  OBVIOUS
<1>4. CASE Refused(file, given)
  BY <1>3, <1>4, <1>1, <1>2, IdleOk, StaysOk, OneCommand DEF LoadCommand, Load, Types
<1>5. CASE ~Refused(file, given)
  <2>1. Parsed(file, given) \in ParamValues /\ PvOk(Parsed(file, given))
    BY <1>1, <1>2, ParsedType, ParsedOk DEF Types
  <2>2. c \in Commands /\ c.pc = "start" /\ c.read = NoFile /\ c.pv = Parsed(file, given)
    BY <1>1, <1>3, <1>5, <2>1 DEF Commands, Pcs
  <2>3. CmdOk(c)
    BY <2>1, <2>2 DEF CmdOk
  <2>4. cmd' = [cmd EXCEPT ![t] = c]
    BY <1>3, <1>5 DEF LoadCommand, Load
  <2> QED BY <1>1, <1>2, <2>3, <2>4, StaysOk, OneCommand DEF Types
<1> QED BY <1>4, <1>5

LEMMA ReadStep ==
  ASSUME FilesInv, NEW t \in Terminals, ReadFile(t), UNCHANGED <<session, deployVars>>
  PROVE  FilesInv'
<1>1. PICK c : c = [cmd[t] EXCEPT !.read = configFile]
  OBVIOUS
<1>2. cmd[t] \in Commands /\ cmd[t].pc = "saving" /\ CmdOk(cmd[t]) /\ Types /\ Grows
  BY DEF FilesInv, Types, ReadFile, Grows, deployVars
<1>5. ChainTyped'
  BY <1>2 DEF Types, ChainTyped, deployVars
<1>3. c \in Commands /\ c.pc = "saving" /\ c.read = configFile /\ c.pv = cmd[t].pv
  BY <1>1, <1>2 DEF Commands, Types
<1>4. CmdOk(c)
  BY <1>2, <1>3 DEF CmdOk, FilesInv
<1> QED BY <1>1, <1>2, <1>4, <1>5, StaysOk, OneCommand DEF ReadFile, FilesInv, Types

LEMMA WriteStep ==
  ASSUME FilesInv, NEW t \in Terminals, NEW n \in Params, Record(t, n), UNCHANGED session
  PROVE  FilesInv'
<1> DEFINE value == cmd[t].pv[n].value
<1>1. /\ cmd[t] \in Commands /\ cmd[t].pc = "saving" /\ cmd[t].read # NoFile
      /\ CmdOk(cmd[t]) /\ Types /\ Grows /\ ChainTyped'
      /\ configFile' = [cmd[t].read EXCEPT ![n] = value]
      /\ cmd' = [cmd EXCEPT ![t] = Written(cmd[t], n)]
  BY DEF FilesInv, Types, Record, WriteFile, With, Grows, ChainTyped
<1>2. /\ cmd[t].read \in Files /\ FileOk(cmd[t].read) /\ PvOk(cmd[t].pv)
      /\ cmd[t].pv \in ParamValues /\ value \in Values \cup {Missing}
  BY <1>1 DEF CmdOk, Commands, ParamValues
<1>3. configFile' \in Files /\ FileOk(configFile')
  BY <1>1, <1>2, DeploymentAssumption DEF Files, FileOk, PvOk
<1>4. PICK c : c = Written(cmd[t], n)
  OBVIOUS
<1>5. CmdOk(c)
  <2>1. CASE c = Idle
    BY <2>1, IdleOk
  <2>2. CASE c # Idle
    <3>1. c \in Commands /\ c.read = NoFile /\ c.pc \in {"saving", "saved"} /\ c.pv = cmd[t].pv
      BY <1>1, <1>4, <2>2 DEF Written, Commands, Pcs
    <3> QED BY <1>2, <3>1 DEF CmdOk
  <2> QED BY <2>1, <2>2
<1> QED BY <1>1, <1>3, <1>4, <1>5, StaysOk, OneCommand DEF Types

LEMMA NoContractType == NoContract \in Contracts
BY DEF NoContract, Contract, Contracts, Values

LEMMA MineGrows ==
  ASSUME FilesInv, NEW c \in Contracts, Mine(c), UNCHANGED <<session, env>>
  PROVE  /\ Grows /\ chain' \in Seq(Contracts)
         /\ [kind |-> c.kind, address |-> NextAddress] \in deployed' /\ NextAddress \in Values
<1>1. chain \in Seq(Contracts) /\ Len(chain) + 1 \in DOMAIN Address
      /\ chain' = Append(chain, c)
      /\ deployed' = deployed \cup {[kind |-> c.kind, address |-> NextAddress]}
  BY DEF Mine, FilesInv, Types, ChainTyped
<1>2. NextAddress \in Values
  BY <1>1, DeploymentAssumption DEF NextAddress, Values
<1> QED BY <1>1, <1>2 DEF Grows

(* A contract that is sent goes to the chain as its command prepared it.   *)
LEMMA SentGrows ==
  ASSUME FilesInv, NEW t \in Terminals, NEW k \in Kinds, Sent(t, k), UNCHANGED <<session, env>>
  PROVE  /\ Grows /\ ChainTyped' /\ cmd[t].pc = "deploying"
         /\ [kind |-> k, address |-> NextAddress] \in deployed' /\ NextAddress \in Values
<1>1. /\ deploying[t] \in Contracts /\ deploying[t].kind = k /\ Mine(deploying[t])
      /\ deploying' = [deploying EXCEPT ![t] = NoContract] /\ cmd[t].pc = "deploying"
  BY DEF Sent, FilesInv, Types, ChainTyped
<1>2. deploying' \in [Terminals -> Contracts]
  BY <1>1, NoContractType DEF FilesInv, Types, ChainTyped
<1> QED BY <1>1, <1>2, MineGrows DEF ChainTyped

LEMMA PreparedOk ==
  ASSUME NEW pv \in ParamValues, NEW k \in Kinds, PvOk(pv)
  PROVE  Prepared(k, pv) \in ParamValues /\ PvOk(Prepared(k, pv))
<1>1. Prover \in Values /\ AddressParam["prover"] \in Params /\ "prover" \in Kinds
  BY DeploymentAssumption DEF Values, Kinds
<1>2. Prepared(k, pv) \in ParamValues
  BY <1>1, SetParamType DEF Prepared
<1>3. IsDeployed("prover", Prover)
  BY DEF IsDeployed
<1>4. PvOk(SetParam(pv, AddressParam["prover"], Prover))
  BY <1>1, <1>3, Names DEF PvOk, SetParam, Entry, ParamValues
<1> QED BY <1>2, <1>4 DEF Prepared

LEMMA ArgumentType ==
  ASSUME NEW k \in Kinds, NEW pv \in ParamValues, configFile \in Files
  PROVE  Argument(k, pv) \in Values \cup {Missing}
<1>1. CASE DependsOn[k] = "none"
  BY <1>1 DEF Argument, Values
<1>2. CASE DependsOn[k] # "none"
  <2>1. AddressParam[DependsOn[k]] \in Params
    BY <1>2, Names, DeploymentAssumption
  <2> QED BY <1>2, <2>1, GetParamType DEF Argument
<1> QED BY <1>1, <1>2

LEMMA ArgumentStep ==
  ASSUME FilesInv, NEW t \in Terminals, NEW k \in Kinds, ReadArgument(t, k), UNCHANGED session
  PROVE  FilesInv'
<1>1. PICK pv : pv = Prepared(k, cmd[t].pv)
  OBVIOUS
<1>2. PICK c : c = [cmd[t] EXCEPT !.pc = "deploying", !.pv = pv]
  OBVIOUS
<1>3. cmd[t] \in Commands /\ CmdOk(cmd[t]) /\ Types
  BY DEF FilesInv, Types
<1>4. pv \in ParamValues /\ PvOk(pv)
  BY <1>1, <1>3, PreparedOk DEF CmdOk, Commands
<1>5. c \in Commands /\ c.pc = "deploying" /\ c.pv = pv /\ c.read = cmd[t].read
  BY <1>2, <1>3, <1>4 DEF Commands, Pcs
<1>6. CmdOk(c)
  BY <1>3, <1>4, <1>5 DEF CmdOk
<1>7. cmd' = [cmd EXCEPT ![t] = c] /\ configFile' = configFile /\ Grows
  BY <1>1, <1>2, <1>3 DEF ReadArgument, Types, Grows
<1>8. ChainTyped'
  <2>1. PICK d : d = Contract(k, Argument(k, pv), Trusts(k, pv))
    OBVIOUS
  <2>2. d \in Contracts
    BY <1>3, <1>4, <2>1, ArgumentType DEF Types, Trusts, Contract, Contracts
  <2>3. deploying' = [deploying EXCEPT ![t] = d] /\ chain' = chain
    BY <1>1, <2>1 DEF ReadArgument
  <2> QED BY <1>3, <2>2, <2>3 DEF Types, ChainTyped
<1> QED BY <1>3, <1>6, <1>7, <1>8, StaysOk, OneCommand DEF FilesInv, Types

LEMMA DeployStep ==
  ASSUME FilesInv, NEW t \in Terminals, NEW k \in Kinds, Deploy(t, k), UNCHANGED session
  PROVE  FilesInv'
<1>1. PICK pv : pv = cmd[t].pv
  OBVIOUS
<1>2. cmd[t] \in Commands /\ CmdOk(cmd[t]) /\ Types
  BY DEF FilesInv, Types
<1>3. pv \in ParamValues /\ PvOk(pv)
  BY <1>1, <1>2 DEF CmdOk, Commands
<1>5. Sent(t, k) /\ UNCHANGED <<session, env>> /\ configFile' = configFile
  BY DEF Deploy
<1>6. /\ Grows /\ ChainTyped'
      /\ [kind |-> k, address |-> NextAddress] \in deployed' /\ NextAddress \in Values
  BY <1>5, SentGrows
<1>7. PICK q : q = Recording(k, pv)
  OBVIOUS
<1>8. q \in ParamValues
  BY <1>3, <1>6, <1>7, SetParamType, DeploymentAssumption DEF Recording
<1>9. PvOk(q)'
  <2>2. PICK address : address = NextAddress
    OBVIOUS
  <2>3. IsDeployed(k, address)'
    BY <1>6, <2>2 DEF IsDeployed
  <2>4. PvOk(pv)'
    BY <1>3, <1>6, StaysDeployed DEF PvOk
  <2>5. q = [pv EXCEPT ![AddressParam[k]] = Entry(address, "config")]
    BY <1>7, <2>2 DEF Recording, SetParam
  <2> QED BY <1>3, <2>3, <2>4, <2>5, Names DEF PvOk, Entry, ParamValues
<1>10. PICK c : c = Saving(cmd[t], q)
  OBVIOUS
<1>11. c \in Commands /\ c.pc = "saving" /\ c.pv = q /\ c.read = cmd[t].read
  BY <1>2, <1>8, <1>10 DEF Saving, Commands, Pcs, IsSet
<1>13. CmdOk(c)'
  <2>1. c.read # NoFile => FileOk(c.read)'
    BY <1>2, <1>6, <1>11, StaysDeployed DEF CmdOk, FileOk
  <2> QED BY <1>9, <1>11, <2>1 DEF CmdOk
<1>14. cmd' = [cmd EXCEPT ![t] = c]
  BY <1>1, <1>2, <1>7, <1>10 DEF Deploy, Types
<1> QED BY <1>5, <1>6, <1>13, <1>14, OneCommand DEF FilesInv, Types

LEMMA UnseenStep ==
  ASSUME FilesInv, NEW t \in Terminals, UNCHANGED session,
         (\E k \in Kinds : DeployUnseen(t, k)) \/ DeployTestErc20(t)
  PROVE  FilesInv'
<1>1. ASSUME NEW k \in Kinds, DeployUnseen(t, k) PROVE FilesInv'
  <2>1. Sent(t, k) /\ UNCHANGED <<session, env>> /\ End(t)
    BY <1>1 DEF DeployUnseen, End
  <2> QED BY <2>1, SentGrows, EndStep
<1>2. CASE DeployTestErc20(t)
  <2>1. /\ Mine(Contract("test-erc20", "", FALSE)) \/ UNCHANGED <<chain, deployed>>
        /\ UNCHANGED <<session, env, deploying>> /\ End(t)
    BY <1>2 DEF DeployTestErc20, End
  <2>2. Contract("test-erc20", "", FALSE) \in Contracts
    BY DEF Contract, Contracts, Values
  <2>3. Grows /\ chain' \in Seq(Contracts)
    <3>1. CASE UNCHANGED <<chain, deployed>>
      BY <2>1, <3>1 DEF Grows, FilesInv, Types, ChainTyped
    <3> QED BY <2>1, <2>2, <3>1, MineGrows
  <2> QED BY <2>1, <2>3, EndStep DEF FilesInv, Types, ChainTyped
<1> QED BY <1>1, <1>2

(* A step that moves a command on and leaves its values alone.             *)
LEMMA MoveOn ==
  ASSUME FilesInv, NEW t \in Terminals, NEW pc \in Pcs \ {"loading"}, NEW todo \in Seq(StopNames),
         cmd' = [cmd EXCEPT ![t].pc = pc, ![t].todo = todo],
         Grows, configFile' = configFile, ChainTyped'
  PROVE  FilesInv'
<1>1. PICK c : c = [cmd[t] EXCEPT !.pc = pc, !.todo = todo]
  OBVIOUS
<1>2. cmd[t] \in Commands /\ CmdOk(cmd[t]) /\ Types
  BY DEF FilesInv, Types
<1>3. c \in Commands /\ c.pc = pc /\ c.pv = cmd[t].pv /\ c.read = cmd[t].read
  BY <1>1, <1>2 DEF Commands
<1>4. CmdOk(c)
  BY <1>2, <1>3 DEF CmdOk
<1>5. cmd' = [cmd EXCEPT ![t] = c]
  BY <1>1, <1>2 DEF Types
<1> QED BY <1>2, <1>4, <1>5, StaysOk, OneCommand DEF FilesInv, Types

LEMMA GanacheStep ==
  ASSUME FilesInv, NEW t \in Terminals, StartGanache(t), UNCHANGED session
  PROVE  FilesInv'
<1>1. PICK q : q = SetParam(SetParam(cmd[t].pv, NodeUrl, LocalNode), "eth-master-sk", GanacheKey)
  OBVIOUS
<1>2. PICK c : c = Saving(cmd[t], q)
  OBVIOUS
<1>3. /\ cmd[t] \in Commands /\ CmdOk(cmd[t]) /\ Types /\ cmd[t].pv \in ParamValues
      /\ cmd' = [cmd EXCEPT ![t] = c] /\ Grows /\ configFile' = configFile /\ ChainTyped'
  BY <1>1, <1>2 DEF FilesInv, Types, StartGanache, Grows, deployVars, Commands, ChainTyped
<1>4. q \in ParamValues
  BY <1>1, <1>3, ServicesAssumption, ConfigAssumption, SetParamType DEF Values, ServiceParams
<1>5. \A k \in Kinds : q[AddressParam[k]] = cmd[t].pv[AddressParam[k]]
  BY <1>1, <1>3, Names, DeploymentAssumption DEF SetParam, ParamValues
<1>6. c \in Commands /\ c.pc = "saving" /\ c.pv = q /\ c.read = cmd[t].read
  BY <1>2, <1>3, <1>4 DEF Saving, Commands, Pcs, IsSet
<1>7. CmdOk(c)
  BY <1>3, <1>5, <1>6 DEF CmdOk, PvOk
<1> QED BY <1>3, <1>7, StaysOk, OneCommand DEF FilesInv, Types

LEMMA NewChainGrows ==
  ASSUME NewChain \/ UNCHANGED deployVars, UNCHANGED <<session, env>>, FilesInv
  PROVE  Grows /\ ChainTyped'
<1>1. CASE NewChain
  <2>1. <<>> \in Seq(Contracts)
    OBVIOUS
  <2>2. \A t \in Terminals : [deploying[t] EXCEPT !.trusts = FALSE] \in Contracts
    BY DEF FilesInv, Types, ChainTyped, Contracts
  <2> QED BY <1>1, <2>1, <2>2 DEF NewChain, Grows, ChainTyped
<1>2. CASE UNCHANGED deployVars
  BY <1>2 DEF deployVars, Grows, FilesInv, Types, ChainTyped
<1> QED BY <1>1, <1>2

LEMMA ServiceStep ==
  ASSUME FilesInv, NEW t \in Terminals, ManageService(t), UNCHANGED session
  PROVE  FilesInv'
<1>1. ASSUME NEW s \in Managed, Describe(t, s) PROVE FilesInv'
  <2>1. cmd[t].todo \in Seq(StopNames) /\ cmd \in [Terminals -> Commands]
    BY DEF FilesInv, Types, Commands
  <2>2. cmd' = [cmd EXCEPT ![t].pc = "spawn", ![t].todo = cmd[t].todo]
    BY <1>1, <2>1 DEF Describe, Commands
  <2>3. Grows /\ ChainTyped' /\ configFile' = configFile /\ "spawn" \in Pcs \ {"loading"}
    BY <1>1, NewChainGrows DEF Describe, Pcs
  <2> QED BY <2>1, <2>2, <2>3, MoveOn
<1>2. CASE Stop(t)
  <2>1. /\ <<"ganache", "eth2tezos-relay", "tezos2eth-relay", "bridge-watchdog">> \in Seq(StopNames)
        /\ DOMAIN StopOrder = 1 .. 4
        /\ \A i \in 1 .. 4 : StopOrder[i] \in StopNames
    BY DEF StopNames, StopOrder
  <2>2. PICK todo \in Seq(StopNames) : cmd' = [cmd EXCEPT ![t].pc = "stopping", ![t].todo = todo]
    <3>1. CASE cmd' = [cmd EXCEPT ![t].pc = "stopping", ![t].todo = StopOrder]
      BY <2>1, <3>1 DEF StopOrder
    <3>2. ASSUME NEW s \in DOMAIN Stopped, cmd' = [cmd EXCEPT ![t].pc = "stopping", ![t].todo = <<s>>]
          PROVE  \E todo \in Seq(StopNames) : cmd' = [cmd EXCEPT ![t].pc = "stopping", ![t].todo = todo]
      <4>1. s \in StopNames
        BY <2>1 DEF Stopped
      <4>2. <<s>> \in Seq(StopNames)
        BY <4>1
      <4> QED BY <3>2, <4>2
    <3> QED BY <1>2, <3>1, <3>2 DEF Stop
  <2>3. Grows /\ ChainTyped' /\ configFile' = configFile /\ "stopping" \in Pcs \ {"loading"}
    BY <1>2, NewChainGrows DEF Stop, Pcs
  <2> QED BY <2>2, <2>3, MoveOn
<1>3. CASE StopNext(t)
  <2>1. /\ cmd[t].todo \in Seq(StopNames) /\ cmd[t].todo # <<>> /\ cmd \in [Terminals -> Commands]
        /\ cmd[t].pc = "stopping" /\ cmd[t] \in Commands
    BY <1>3 DEF StopNext, FilesInv, Types, Commands
  <2>2. Tail(cmd[t].todo) \in Seq(StopNames)
    BY <2>1
  <2>3. cmd' = [cmd EXCEPT ![t].pc = "stopping", ![t].todo = Tail(cmd[t].todo)]
    BY <1>3, <2>1 DEF StopNext, Commands
  <2>4. NewChain \/ UNCHANGED deployVars
    BY <1>3 DEF StopNext, Delete
  <2>5. UNCHANGED <<session, env>> /\ configFile' = configFile
    BY <1>3 DEF StopNext
  <2> QED BY <2>2, <2>3, <2>4, <2>5, NewChainGrows, MoveOn DEF Pcs
<1>4. CASE Clean(t) \/ \E s \in Managed : Spawn(t, s)
  <2>1. End(t) /\ (NewChain \/ UNCHANGED deployVars)
    BY <1>4 DEF Clean, Spawn
  <2>2. UNCHANGED <<session, env>>
    BY <2>1 DEF End
  <2> QED BY <2>1, <2>2, NewChainGrows, EndStep
<1> QED BY <1>1, <1>2, <1>3, <1>4, GanacheStep DEF ManageService

(* A step in which no command moves.                                       *)
LEMMA NoCommand ==
  ASSUME FilesInv, UNCHANGED <<session, env, configFile, cmd>>, NewChain \/ UNCHANGED deployVars
  PROVE  FilesInv'
<1>1. Grows /\ ChainTyped'
  BY NewChainGrows
<1>2. \A d : CmdOk(d) => CmdOk(d)'
  BY <1>1, StaysOk
<1>3. \A t \in Terminals : CmdOk(cmd[t])'
  BY <1>2 DEF FilesInv
<1>4. FileOk(configFile)'
  BY <1>1, StaysDeployed DEF FilesInv, FileOk
<1>5. Types'
  BY <1>1 DEF FilesInv, Types
<1> QED BY <1>3, <1>4, <1>5 DEF FilesInv

LEMMA InitFilesInv == Init => FilesInv
<1> SUFFICES ASSUME Init PROVE FilesInv
  OBVIOUS
<1>1. configFile \in Files /\ env \in [Params -> Values \cup {Missing}] /\ session \in DOMAIN Repertoire
  BY OperatorAssumption DEF Init
<1>2. FileOk(configFile)
  BY DEF Init, DeploymentInit, FileOk, IsDeployed
<1>3. ChainTyped
  BY NoContractType DEF Init, DeploymentInit, ChainTyped
<1>4. \A t \in Terminals : cmd[t] = Idle
  BY DEF Init
<1>5. cmd \in [Terminals -> Commands]
  BY IdleType DEF Init
<1> QED BY <1>1, <1>2, <1>3, <1>4, <1>5, IdleOk DEF FilesInv, Types

LEMMA ReturnStep ==
  ASSUME FilesInv, NEW t \in Terminals, Return(t), UNCHANGED session
  PROVE  FilesInv'
<1>1. End(t) /\ UNCHANGED <<chain, deployed, session, env>>
      /\ deploying' = [deploying EXCEPT ![t] = NoContract]
  BY DEF Return, End
<1>2. Grows /\ ChainTyped'
  BY <1>1, NoContractType DEF Grows, FilesInv, Types, ChainTyped
<1> QED BY <1>1, <1>2, EndStep

(* The process of a service that has read the file and not written it back *)
(* yet is as careful as a command.                                         *)
ReadsOk == \A s \in Managed : pm2[s].read # NoFile => pm2[s].read \in Files /\ FileOk(pm2[s].read)

LEMMA LoadServiceStep ==
  ASSUME FilesInv, ReadsOk, NEW s \in Managed, LoadService(s), UNCHANGED session
  PROVE  FilesInv'
<1>1. Grows /\ ChainTyped' /\ configFile' \in Files /\ FileOk(configFile') /\ UNCHANGED <<session, env, cmd>>
  BY DEF LoadService, Grows, ChainTyped, FilesInv, Types, ReadsOk
<1>2. \A d : CmdOk(d) => CmdOk(d)'
  BY <1>1, StaysOk
<1>3. \A t \in Terminals : CmdOk(cmd[t])'
  BY <1>1, <1>2 DEF FilesInv
<1>4. FileOk(configFile)'
  BY <1>1, StaysDeployed DEF FileOk
<1>5. Types'
  BY <1>1 DEF FilesInv, Types
<1> QED BY <1>3, <1>4, <1>5 DEF FilesInv

LEMMA NextFilesInv == FilesInv /\ ReadsOk /\ [Next]_vars => FilesInv'
<1> SUFFICES ASSUME FilesInv, ReadsOk, [Next]_vars PROVE FilesInv'
  OBVIOUS
<1>1. ASSUME NEW t \in Terminals, RunCommand(t), UNCHANGED session PROVE FilesInv'
  <2>1. PICK run \in Repertoire[session], given \in Arguments[session] : Issue(t, run, given)
    BY <1>1 DEF RunCommand
  <2> QED BY <1>1, <2>1, IssueStep DEF RunCommand
<1>2. ASSUME NEW t \in Terminals, DeployContract(t), UNCHANGED session PROVE FilesInv'
  BY <1>2, ArgumentStep, DeployStep, UnseenStep DEF DeployContract
<1>3. ASSUME NEW t \in Terminals, AccessFile(t), UNCHANGED session PROVE FilesInv'
  BY <1>3, LoadStep, ReadStep, WriteStep DEF AccessFile
<1>4. ASSUME NEW t \in Terminals, ManageService(t), UNCHANGED session PROVE FilesInv'
  BY <1>4, ServiceStep
<1>5. ASSUME NEW s \in Managed, RunService(s), UNCHANGED session PROVE FilesInv'
  BY <1>5, NoCommand DEF RunService
<1>6. CASE RestartService /\ UNCHANGED session
  BY <1>6, NoCommand DEF RestartService, Restart
<1>7. CASE UNCHANGED <<env, configFile, cmd, deployVars, pm2, session, issued>>
  BY <1>7, NoCommand
<1> QED BY <1>1, <1>2, <1>3, <1>4, <1>5, <1>6, <1>7, ReturnStep, LoadServiceStep DEF Next, vars

LEMMA NextGrows == [Next]_vars => Grows
<1> SUFFICES ASSUME [Next]_vars PROVE Grows
  OBVIOUS
<1>1. ASSUME NEW t \in Terminals, DeployContract(t), UNCHANGED session PROVE Grows
  BY <1>1 DEF DeployContract, ReadArgument, Deploy, DeployUnseen, DeployTestErc20, Sent, Mine, End, Grows
<1>2. ASSUME NEW t \in Terminals, AccessFile(t), UNCHANGED session PROVE Grows
  BY <1>2 DEF AccessFile, LoadCommand, Load, ReadFile, Record, WriteFile, deployVars, Grows
<1>3. ASSUME NEW t \in Terminals, ManageService(t), UNCHANGED session PROVE Grows
  BY <1>3 DEF ManageService, StartGanache, Describe, Spawn, Stop, StopNext, Delete, Clean, NewChain,
              End, deployVars, Grows
<1>4. ASSUME NEW t \in Terminals, Return(t) \/ RunCommand(t), UNCHANGED session PROVE Grows
  BY <1>4 DEF Return, RunCommand, Issue, End, deployVars, Grows
<1>5. ASSUME NEW s \in Managed, LoadService(s) \/ RunService(s), UNCHANGED session PROVE Grows
  BY <1>5 DEF LoadService, RunService, deployVars, Grows
<1>6. CASE RestartService /\ UNCHANGED session
  BY <1>6 DEF RestartService, Restart, NewChain, deployVars, Grows
<1>7. CASE UNCHANGED <<env, deployVars, session>>
  BY <1>7 DEF deployVars, Grows
<1> QED BY <1>1, <1>2, <1>3, <1>4, <1>5, <1>6, <1>7 DEF Next, vars

LEMMA NextReadsOk == FilesInv /\ ReadsOk /\ [Next]_vars => ReadsOk'
<1> SUFFICES ASSUME FilesInv, ReadsOk, [Next]_vars PROVE ReadsOk'
  OBVIOUS
<1>1. ASSUME NEW file, FileOk(file) PROVE FileOk(file)'
  BY <1>1, NextGrows, StaysDeployed DEF FileOk
<1>2. configFile \in Files /\ FileOk(configFile) /\ Absent.read = NoFile
  BY DEF FilesInv, Types, Absent
<1>3. ASSUME NEW r \in Managed
      PROVE  pm2'[r].read \in {NoFile, configFile, pm2[r].read}
  <2>1. CASE UNCHANGED pm2
    BY <2>1
  <2>2. ASSUME NEW s \in Managed, NEW asked, NEW args, pm2' = [pm2 EXCEPT ![s] = Process(s, asked, args)]
        PROVE  pm2'[r].read \in {NoFile, configFile, pm2[r].read}
    BY <2>2 DEF Process
  <2>3. CASE \E s \in Managed : pm2' = [pm2 EXCEPT ![s].read = NoFile]
    BY <2>3
  <2>4. CASE \E s \in Managed : pm2' = [pm2 EXCEPT ![s].uses = Uses(pm2[s].args)]
    BY <2>4
  <2>5. CASE \E s \in Managed : pm2' = [pm2 EXCEPT ![s] = Absent]
    BY <1>2, <2>5
  <2>6. CASE pm2' = [s \in Managed |-> Absent]
    BY <1>2, <2>6
  <2>7. ASSUME NEW t \in Terminals, ManageService(t)
        PROVE  pm2'[r].read \in {NoFile, configFile, pm2[r].read}
    BY <2>1, <2>2, <2>5, <2>6, <2>7
       DEF ManageService, StartGanache, Describe, Spawn, Stop, StopNext, Delete, Clean
  <2>8. ASSUME NEW s \in Managed, LoadService(s) \/ RunService(s)
        PROVE  pm2'[r].read \in {NoFile, configFile, pm2[r].read}
    BY <2>3, <2>4, <2>8 DEF LoadService, RunService
  <2>9. ASSUME NEW s \in Managed, Restart(s)
        PROVE  pm2'[r].read \in {NoFile, configFile, pm2[r].read}
    BY <2>2, <2>9 DEF Restart
  <2> QED BY <2>1, <2>7, <2>8, <2>9
          DEF Next, vars, DeployContract, AccessFile, Return, RunCommand, RestartService
<1> QED BY <1>1, <1>2, <1>3 DEF ReadsOk

LEMMA FilesInvHolds == Spec => [](FilesInv /\ ReadsOk)
<1>1. Init => FilesInv /\ ReadsOk
  <2>1. Init => ReadsOk
    BY DEF Init, ServicesInit, Absent, ReadsOk
  <2> QED BY <2>1, InitFilesInv
<1> QED BY <1>1, NextFilesInv, NextReadsOk, PTL DEF Spec

(* Whatever commands run at the same time, are interrupted, or undo each   *)
(* other's writes, an address in the config file is one at which a         *)
(* contract of that kind was deployed, given by hand, or assumed.          *)
THEOREM RecordsAreDeployed == Spec => []RecordedWasDeployed
<1>1. FilesInv => RecordedWasDeployed
  BY DEF FilesInv, FileOk, RecordedWasDeployed
<1> QED BY <1>1, FilesInvHolds, PTL

-----------------------------------------------------------------------------
(* Wiring.                                                                 *)

(* A recorded contract is on this chain, at the address the file has.      *)
RecordedOnChain ==
  \A k \in Kinds : k \in recorded =>
    \E j \in DOMAIN chain : chain[j].kind = k /\ configFile[AddressParam[k]] = Address[j]

AddressesMatch == \A i \in DOMAIN chain : i \in DOMAIN Address

(* What a command has read and not deployed with yet: the address of a     *)
(* contract that was recorded then is still the address of one like it.    *)
Wired(c) ==
  c.trusts => \E j \in DOMAIN chain : chain[j].kind = DependsOn[c.kind] /\ Address[j] = c.arg
ArgumentsWired == \A t \in Terminals : Wired(deploying[t])

WiringInv ==
  recorded \subseteq Kinds /\ RecordedOnChain /\ AddressesMatch /\ ArgumentsWired /\ WiredToRecorded

LEMMA NoContractWired == Wired(NoContract)
BY DEF Wired, NoContract, Contract

(* Mining one more contract, wired as it should be, keeps the wiring.      *)
LEMMA MineWired ==
  ASSUME FilesInv, WiringInv, NEW c \in Contracts, Wired(c), Mine(c),
         UNCHANGED <<recorded, configFile>>,
         \/ UNCHANGED deploying
         \/ \E t \in Terminals : deploying' = [deploying EXCEPT ![t] = NoContract]
  PROVE  WiringInv'
<1>1. /\ chain \in Seq(Contracts) /\ chain' = Append(chain, c)
      /\ Len(chain) + 1 \in DOMAIN Address /\ deploying \in [Terminals -> Contracts]
  BY DEF Mine, FilesInv, Types, ChainTyped
<1>2. /\ Len(chain) \in Nat /\ DOMAIN chain = 1 .. Len(chain) /\ DOMAIN chain' = 1 .. (Len(chain) + 1)
      /\ \A i \in DOMAIN chain : chain'[i] = chain[i]
      /\ chain'[Len(chain) + 1] = c
  BY <1>1
<1>3. RecordedOnChain'
  BY <1>2 DEF WiringInv, RecordedOnChain
<1>4. AddressesMatch'
  BY <1>1, <1>2 DEF WiringInv, AddressesMatch
<1>5. ASSUME NEW i \in DOMAIN chain', chain'[i].trusts
      PROVE  \E j \in 1 .. (i - 1) : /\ chain'[j].kind = DependsOn[chain'[i].kind]
                                     /\ Address[j] = chain'[i].arg
  <2>1. CASE i \in DOMAIN chain
    BY <1>2, <1>5, <2>1 DEF WiringInv, WiredToRecorded
  <2>2. CASE i = Len(chain) + 1
    BY <1>2, <1>5, <2>2 DEF Wired
  <2> QED BY <1>2, <2>1, <2>2
<1>6. ArgumentsWired'
  <2>1. \A t \in Terminals : deploying'[t] \in {deploying[t], NoContract}
    BY <1>1
  <2>2. \A d : Wired(d) => Wired(d)'
    BY <1>2 DEF Wired
  <2> QED BY <2>1, <2>2, NoContractWired DEF WiringInv, ArgumentsWired, Wired
<1> QED BY <1>3, <1>4, <1>5, <1>6 DEF WiringInv, WiredToRecorded

LEMMA ArgumentWired ==
  ASSUME FilesInv, WiringInv, NEW t \in Terminals, NEW k \in Kinds, ReadArgument(t, k)
  PROVE  WiringInv'
<1>1. PICK pv : pv = Prepared(k, cmd[t].pv)
  OBVIOUS
<1>2. PICK c : c = Contract(k, Argument(k, pv), Trusts(k, pv))
  OBVIOUS
<1>3. /\ deploying' = [deploying EXCEPT ![t] = c] /\ UNCHANGED <<chain, recorded, configFile>>
      /\ deploying \in [Terminals -> Contracts]
  BY <1>1, <1>2 DEF ReadArgument, FilesInv, Types, ChainTyped
<1>4. Wired(c)
  <2> SUFFICES ASSUME c.trusts
               PROVE  \E j \in DOMAIN chain : chain[j].kind = DependsOn[c.kind] /\ Address[j] = c.arg
    BY DEF Wired
  <2>0. Trusts(k, pv) /\ c.kind = k /\ c.arg = Argument(k, pv)
    BY <1>2 DEF Contract
  <2>1. DependsOn[k] \in recorded /\ pv[AddressParam[DependsOn[k]]] = Unset
    BY <2>0 DEF Trusts, FromFile
  <2>2. DependsOn[k] \in Kinds
    BY <2>1 DEF WiringInv
  <2>3. PICK j \in DOMAIN chain : /\ chain[j].kind = DependsOn[k]
                                  /\ configFile[AddressParam[DependsOn[k]]] = Address[j]
    BY <2>1, <2>2 DEF WiringInv, RecordedOnChain
  <2>4. configFile[AddressParam[DependsOn[k]]] # Missing
    BY <2>3, DeploymentAssumption, ConfigAssumption DEF WiringInv, AddressesMatch, Values
  <2>5. DependsOn[k] # "none"
    BY <2>2 DEF Kinds
  <2>6. Argument(k, pv) = configFile[AddressParam[DependsOn[k]]]
    BY <2>1, <2>4, <2>5 DEF Argument, GetParam
  <2> QED BY <2>0, <2>3, <2>6
<1>5. \A d : Wired(d) => Wired(d)'
  BY <1>3 DEF Wired
<1>6. ArgumentsWired'
  BY <1>3, <1>4, <1>5 DEF WiringInv, ArgumentsWired, Wired
<1> QED BY <1>3, <1>6 DEF WiringInv, RecordedOnChain, AddressesMatch, WiredToRecorded

LEMMA DeployWired ==
  ASSUME FilesInv, WiringInv, NEW t \in Terminals, NEW k \in Kinds,
         Deploy(t, k) \/ DeployUnseen(t, k)
  PROVE  WiringInv'
<1>1. /\ Mine(deploying[t]) /\ UNCHANGED <<recorded, configFile>>
      /\ deploying' = [deploying EXCEPT ![t] = NoContract]
  BY DEF Deploy, DeployUnseen, Sent, End
<1>2. deploying[t] \in Contracts /\ Wired(deploying[t])
  BY DEF FilesInv, Types, ChainTyped, WiringInv, ArgumentsWired
<1> QED BY <1>1, <1>2, MineWired

(* A step that leaves the chain and what commands are deploying, and       *)
(* writes the file only from a copy that is what the file has, or else     *)
(* gives up every record.                                                  *)
LEMMA WriteBackWired ==
  ASSUME WiringInv, NEW file, configFile' = file, recorded' = Kept(file),
         UNCHANGED <<chain, deploying>>
  PROVE  WiringInv'
<1>1. recorded' \subseteq recorded /\ (recorded' # {} => configFile' = configFile)
  BY DEF Kept
<1>2. ArgumentsWired'
  BY DEF WiringInv, ArgumentsWired, Wired
<1> QED BY <1>1, <1>2 DEF WiringInv, RecordedOnChain, AddressesMatch, WiredToRecorded

LEMMA WriteWired ==
  ASSUME FilesInv, WiringInv, NEW t \in Terminals, NEW n \in Params, Record(t, n)
  PROVE  WiringInv'
<1>1. /\ cmd[t].read # NoFile /\ UNCHANGED <<chain, deploying>> /\ cmd[t] \in Commands
      /\ configFile' = [cmd[t].read EXCEPT ![n] = cmd[t].pv[n].value]
      /\ recorded' = {k \in Kinds : IF AddressParam[k] = n THEN IsOwn(t, k)
                                    ELSE k \in Kept(cmd[t].read)}
  BY DEF Record, WriteFile, With, FilesInv, Types
<1>2. cmd[t].read \in [Params -> Values \cup {Missing}]
  BY <1>1 DEF Commands, Files
<1>3. ASSUME NEW k \in Kinds, k \in recorded'
      PROVE  \E j \in DOMAIN chain : chain[j].kind = k /\ configFile'[AddressParam[k]] = Address[j]
  <2>1. CASE AddressParam[k] = n
    BY <1>1, <1>2, <1>3, <2>1 DEF IsOwn
  <2>2. CASE AddressParam[k] # n
    <3>1. k \in recorded /\ cmd[t].read = configFile
      BY <1>1, <1>3, <2>2 DEF Kept
    <3> QED BY <1>1, <1>2, <2>2, <3>1 DEF WiringInv, RecordedOnChain
  <2> QED BY <2>1, <2>2
<1>4. ArgumentsWired'
  BY <1>1 DEF WiringInv, ArgumentsWired, Wired
<1> QED BY <1>1, <1>3, <1>4 DEF WiringInv, RecordedOnChain, AddressesMatch, WiredToRecorded

LEMMA LoadWired ==
  ASSUME WiringInv, NEW t \in Terminals, LoadCommand(t)
  PROVE  WiringInv'
BY WriteBackWired DEF LoadCommand, Load

LEMMA EmptyWired ==
  ASSUME FilesInv, WiringInv, NewChain \/ UNCHANGED deployVars, configFile' = configFile
  PROVE  WiringInv'
<1>1. CASE NewChain
  <2>1. \A t \in Terminals : deploying'[t].trusts = FALSE
    BY <1>1 DEF NewChain, FilesInv, Types, ChainTyped, Contracts
  <2>2. ArgumentsWired'
    BY <2>1 DEF ArgumentsWired, Wired
  <2> QED BY <1>1, <2>2 DEF NewChain, WiringInv, RecordedOnChain, AddressesMatch, WiredToRecorded
<1>2. CASE UNCHANGED deployVars
  BY <1>2 DEF deployVars, WiringInv, RecordedOnChain, AddressesMatch, WiredToRecorded, ArgumentsWired, Wired
<1> QED BY <1>1, <1>2

LEMMA ReturnWired ==
  ASSUME FilesInv, WiringInv, NEW t \in Terminals, Return(t)
  PROVE  WiringInv'
<1>1. /\ UNCHANGED <<chain, recorded, configFile>> /\ deploying \in [Terminals -> Contracts]
      /\ deploying' = [deploying EXCEPT ![t] = NoContract]
  BY DEF Return, End, FilesInv, Types, ChainTyped
<1>2. \A u \in Terminals : deploying'[u] \in {deploying[u], NoContract}
  BY <1>1
<1>3. \A d : Wired(d) => Wired(d)'
  BY <1>1 DEF Wired
<1>4. ArgumentsWired'
  BY <1>2, <1>3, NoContractWired DEF WiringInv, ArgumentsWired, Wired
<1> QED BY <1>1, <1>4 DEF WiringInv, RecordedOnChain, AddressesMatch, WiredToRecorded

LEMMA NextWiring == FilesInv /\ WiringInv /\ [Next]_vars => WiringInv'
<1> SUFFICES ASSUME FilesInv, WiringInv, [Next]_vars PROVE WiringInv'
  OBVIOUS
<1>1. ASSUME NEW t \in Terminals, DeployContract(t) PROVE WiringInv'
  <2>1. CASE DeployTestErc20(t)
    <3>1. PICK c : c = Contract("test-erc20", "", FALSE)
      OBVIOUS
    <3>2. c \in Contracts /\ Wired(c)
      BY <3>1 DEF Contract, Contracts, Values, Wired
    <3>3. UNCHANGED <<recorded, configFile, deploying>> /\ (Mine(c) \/ UNCHANGED chain)
      BY <2>1, <3>1 DEF DeployTestErc20, End
    <3>4. CASE UNCHANGED chain
      BY <3>3, <3>4 DEF WiringInv, RecordedOnChain, AddressesMatch, WiredToRecorded, ArgumentsWired, Wired
    <3> QED BY <3>2, <3>3, <3>4, MineWired
  <2> QED BY <1>1, <2>1, DeployWired, ArgumentWired DEF DeployContract
<1>2. ASSUME NEW t \in Terminals, AccessFile(t) PROVE WiringInv'
  <2>1. CASE ReadFile(t) /\ UNCHANGED deployVars
    BY <2>1, EmptyWired DEF ReadFile
  <2> QED BY <1>2, <2>1, LoadWired, WriteWired DEF AccessFile
<1>3. ASSUME NEW t \in Terminals, ManageService(t) PROVE WiringInv'
  <2>1. (NewChain \/ UNCHANGED deployVars) /\ configFile' = configFile
    BY <1>3 DEF ManageService, StartGanache, Describe, Spawn, Stop, StopNext, Delete, Clean, End
  <2> QED BY <2>1, EmptyWired
<1>4. CASE (\E t \in Terminals : RunCommand(t)) \/ RestartService \/ \E s \in Managed : RunService(s)
  <2>1. (NewChain \/ UNCHANGED deployVars) /\ configFile' = configFile
    BY <1>4 DEF RunCommand, Issue, RestartService, Restart, RunService
  <2> QED BY <2>1, EmptyWired
<1>5. ASSUME NEW s \in Managed, LoadService(s) PROVE WiringInv'
  BY <1>5, WriteBackWired DEF LoadService
<1>6. CASE UNCHANGED <<env, configFile, cmd, deployVars, pm2, session, issued>>
  BY <1>6, EmptyWired
<1> QED BY <1>1, <1>2, <1>3, <1>4, <1>5, <1>6, ReturnWired DEF Next, vars

(* A contract whose command read the address of the one it depends on      *)
(* while that was recorded is wired to one of that kind on the same chain, *)
(* with any number of commands and services at work between the read and   *)
(* the deployment, and any addresses left in the file.                     *)
THEOREM ContractsAreWired == Spec => []WiredToRecorded
<1>1. Init => WiringInv
  <2> SUFFICES ASSUME Init PROVE WiringInv
    OBVIOUS
  <2>1. chain = <<>> /\ recorded = {} /\ \A t \in Terminals : deploying[t] = NoContract
    BY DEF Init, DeploymentInit
  <2>2. ArgumentsWired
    BY <2>1, NoContractWired DEF ArgumentsWired
  <2> QED BY <2>1, <2>2 DEF WiringInv, RecordedOnChain, AddressesMatch, WiredToRecorded
<1>2. WiringInv => WiredToRecorded
  BY DEF WiringInv
<1> QED BY <1>1, <1>2, NextWiring, FilesInvHolds, PTL DEF Spec

-----------------------------------------------------------------------------
(* Services.                                                               *)

(* A command that starts a service hands on what it was given ...          *)
Held(c) ==
  c.pc \in {"start", "spawn"} /\ c.run # StartCommand["ganache"] =>
    \A p \in ServiceParams :
      c.given[p] \notin {Missing, ""} /\ env[p] = Missing => c.pv[p] = Entry(c.given[p], "arg")

(* ... and what a service was asked for stays on its command line.         *)
Stuck(m) ==
  \A p \in ServiceParams :
    m.asked[p] \notin {Missing, ""} /\ env[p] = Missing =>
      m.args[p] = m.asked[p] /\ (m.uses # NoUses => m.uses[p] = m.asked[p])

GivenArguments == [Params -> Values \cup {Missing}]
Processes == [up : BOOLEAN, asked : GivenArguments, args : GivenArguments,
              uses : [ServiceParams -> Values \cup {Missing}], read : Files \cup {NoFile}]

ArgumentsInv ==
  /\ pm2 \in [Managed -> Processes]
  /\ \A t \in Terminals : Held(cmd[t])
  /\ \A s \in Managed \ {"ganache"} : Stuck(pm2[s])

LEMMA UsesGiven ==
  ASSUME Types, NEW args \in GivenArguments
  PROVE  /\ Uses(args) \in [ServiceParams -> Values \cup {Missing}]
         /\ \A p \in ServiceParams :
              args[p] \notin {Missing, ""} /\ env[p] = Missing => Uses(args)[p] = args[p]
<1>1. PICK pv : pv = Parsed(configFile, args)
  OBVIOUS
<1>2. pv \in ParamValues
  BY <1>1, ParsedType DEF Types, GivenArguments
<1>3. \A p \in ServiceParams : GetParam(pv, p) \in Values \cup {Missing}
  BY <1>2, GetParamType, ServicesAssumption DEF Types
<1>4. ASSUME NEW p \in ServiceParams, args[p] \notin {Missing, ""}, env[p] = Missing
      PROVE  GetParam(pv, p) = args[p]
  <2>1. pv[p] = Entry(args[p], "arg")
    BY <1>1, <1>4, ServicesAssumption DEF Parsed, ProcessArg
  <2> QED BY <2>1 DEF GetParam, Entry, Unset
<1> QED BY <1>1, <1>3, <1>4 DEF Uses

LEMMA LoadHeld ==
  ASSUME FilesInv, ArgumentsInv, NEW t \in Terminals, LoadCommand(t), UNCHANGED pm2
  PROVE  ArgumentsInv'
<1>1. PICK pv : pv = Parsed(cmd[t].read, cmd[t].given)
  OBVIOUS
<1>2. PICK c : c = IF Refused(cmd[t].read, cmd[t].given) THEN Idle
                   ELSE [cmd[t] EXCEPT !.pc = "start", !.read = NoFile, !.pv = pv]
  OBVIOUS
<1>3. /\ cmd' = [cmd EXCEPT ![t] = c] /\ env' = env /\ cmd[t] \in Commands
      /\ cmd \in [Terminals -> Commands]
  BY <1>1, <1>2 DEF LoadCommand, Load, FilesInv, Types
<1>4. ASSUME NEW p \in ServiceParams, cmd[t].given[p] \notin {Missing, ""}, env[p] = Missing
      PROVE  pv[p] = Entry(cmd[t].given[p], "arg")
  BY <1>1, <1>4, ServicesAssumption DEF Parsed, ProcessArg
<1>5. Held(c)
  <2>1. CASE c = Idle
    BY <2>1 DEF Held, Idle
  <2>2. CASE c # Idle
    <3>1. c.given = cmd[t].given /\ c.pv = pv
      BY <1>2, <1>3, <2>2 DEF Commands
    <3> QED BY <1>4, <3>1 DEF Held
  <2> QED BY <2>1, <2>2
<1> QED BY <1>3, <1>5 DEF ArgumentsInv, Held, Stuck

(* A step that leaves no command about to start anything it was not        *)
(* starting before.                                                        *)
LEMMA QuietHeld ==
  ASSUME FilesInv, ArgumentsInv, NEW t \in Terminals, NEW c, cmd' = [cmd EXCEPT ![t] = c],
         \/ c.pc \notin {"start", "spawn"}
         \/ c.run = cmd[t].run /\ c.given = cmd[t].given /\ c.pv = cmd[t].pv
            /\ (c.run = StartCommand["ganache"] \/ cmd[t].pc \in {"start", "spawn"}),
         UNCHANGED <<env, pm2>>
  PROVE  ArgumentsInv'
<1>1. cmd \in [Terminals -> Commands]
  BY DEF FilesInv, Types
<1>2. Held(c)
  BY DEF ArgumentsInv, Held
<1> QED BY <1>1, <1>2 DEF ArgumentsInv, Held, Stuck

LEMMA EndHeld ==
  ASSUME FilesInv, ArgumentsInv, NEW t \in Terminals, End(t), pm2' \in [Managed -> Processes],
         \A s \in Managed \ {"ganache"} : Stuck(pm2'[s])
  PROVE  ArgumentsInv'
<1>1. cmd \in [Terminals -> Commands] /\ cmd' = [cmd EXCEPT ![t] = Idle] /\ env' = env
  BY DEF FilesInv, Types, End
<1>2. Held(Idle)
  BY DEF Held, Idle
<1> QED BY <1>1, <1>2 DEF ArgumentsInv, Held, Stuck

LEMMA AbsentStuck == Absent \in Processes /\ Stuck(Absent)
<1>1. NoArguments \in GivenArguments
  BY DEF NoArguments, GivenArguments
<1>2. \A p \in ServiceParams : NoArguments[p] = Missing
  BY ServicesAssumption DEF NoArguments
<1> QED BY <1>1, <1>2 DEF Absent, NoUses, Processes, Stuck

(* A process that pm2 has just started: its arguments are what was asked.  *)
LEMMA ProcessStuck ==
  ASSUME FilesInv, NEW s \in Managed, NEW asked \in GivenArguments, NEW args \in GivenArguments,
         \A p \in ServiceParams : asked[p] \notin {Missing, ""} /\ env[p] = Missing => args[p] = asked[p]
  PROVE  Process(s, asked, args) \in Processes /\ Stuck(Process(s, asked, args))
<1>1. NoUses \in [ServiceParams -> Values \cup {Missing}] /\ configFile \in Files
  BY DEF NoUses, FilesInv, Types
<1> QED BY <1>1 DEF Process, Processes, Stuck

(* The process of ganache is the daemon's own business.                    *)
LEMMA ProcessType ==
  ASSUME FilesInv, NEW s \in Managed, NEW asked \in GivenArguments, NEW args \in GivenArguments
  PROVE  Process(s, asked, args) \in Processes
<1>1. NoUses \in [ServiceParams -> Values \cup {Missing}] /\ configFile \in Files
  BY DEF NoUses, FilesInv, Types
<1> QED BY <1>1 DEF Process, Processes

LEMMA SpawnStuck ==
  ASSUME FilesInv, ArgumentsInv, NEW t \in Terminals, NEW s \in Managed, Spawn(t, s)
  PROVE  pm2' \in [Managed -> Processes] /\ \A r \in Managed \ {"ganache"} : Stuck(pm2'[r])
<1>1. CASE UNCHANGED pm2
  BY <1>1 DEF ArgumentsInv
<1>2. CASE pm2' = [pm2 EXCEPT ![s] = Process(s, cmd[t].given, ArgsNoDaemon(cmd[t].pv))]
  <2>1. PICK args : args = ArgsNoDaemon(cmd[t].pv)
    OBVIOUS
  <2>2. cmd[t] \in Commands /\ cmd[t].pv \in ParamValues /\ cmd[t].given \in GivenArguments
    BY DEF FilesInv, Types, Commands, GivenArguments
  <2>3. args \in GivenArguments
    BY <2>1, <2>2 DEF ArgsNoDaemon, ParamValues, GivenArguments
  <2>4. PICK m : m = Process(s, cmd[t].given, args)
    OBVIOUS
  <2>5. m \in Processes /\ pm2' = [pm2 EXCEPT ![s] = m]
    BY <1>2, <2>1, <2>2, <2>3, <2>4, ProcessType
  <2>6. ASSUME s # "ganache" PROVE Stuck(m)
    <3>1. cmd[t].pc = "spawn" /\ cmd[t].run # StartCommand["ganache"]
      BY <2>6 DEF Spawn, Starts, StartCommand, Managed
    <3>2. ASSUME NEW p \in ServiceParams, cmd[t].given[p] \notin {Missing, ""}, env[p] = Missing
          PROVE  args[p] = cmd[t].given[p]
      <4>1. cmd[t].pv[p] = Entry(cmd[t].given[p], "arg")
        BY <3>1, <3>2 DEF ArgumentsInv, Held
      <4> QED BY <2>1, <4>1, ServicesAssumption DEF ArgsNoDaemon, Entry
    <3> QED BY <2>2, <2>3, <2>4, <3>2, ProcessStuck
  <2> QED BY <2>5, <2>6 DEF ArgumentsInv
<1> QED BY <1>1, <1>2 DEF Spawn

LEMMA DeletedStuck ==
  ASSUME ArgumentsInv, NEW s, Delete(s) \/ UNCHANGED pm2
  PROVE  pm2' \in [Managed -> Processes] /\ \A r \in Managed \ {"ganache"} : Stuck(pm2'[r])
BY AbsentStuck DEF Delete, ArgumentsInv

(* A step of pm2 or of one service.                                        *)
LEMMA ServiceStuck ==
  ASSUME ArgumentsInv, NEW s \in Managed, NEW m \in Processes, s # "ganache" => Stuck(m),
         pm2' = [pm2 EXCEPT ![s] = m], UNCHANGED <<env, cmd>>
  PROVE  ArgumentsInv'
BY DEF ArgumentsInv, Held, Stuck

LEMMA RestartStuck ==
  ASSUME FilesInv, ArgumentsInv, NEW s \in Managed, Restart(s)
  PROVE  ArgumentsInv'
<1>1. PICK m : m = Process(s, pm2[s].asked, pm2[s].args)
  OBVIOUS
<1>2. pm2[s] \in Processes /\ pm2[s].args \in GivenArguments /\ pm2[s].asked \in GivenArguments
  BY DEF ArgumentsInv, Processes
<1>3. m \in Processes
  BY <1>1, <1>2, ProcessType
<1>4. ASSUME s # "ganache" PROVE Stuck(m)
  <2>1. \A p \in ServiceParams : pm2[s].asked[p] \notin {Missing, ""} /\ env[p] = Missing =>
                                   pm2[s].args[p] = pm2[s].asked[p]
    BY <1>4 DEF ArgumentsInv, Stuck
  <2> QED BY <1>1, <1>2, <2>1, ProcessStuck
<1>5. pm2' = [pm2 EXCEPT ![s] = m] /\ UNCHANGED <<env, cmd>>
  BY <1>1 DEF Restart, ArgumentsInv
<1> QED BY <1>3, <1>4, <1>5, ServiceStuck

LEMMA LoadStuck ==
  ASSUME FilesInv, ArgumentsInv, NEW s \in Managed, LoadService(s)
  PROVE  ArgumentsInv'
<1>1. PICK m : m = [pm2[s] EXCEPT !.read = NoFile]
  OBVIOUS
<1>2. pm2[s] \in Processes
  BY DEF ArgumentsInv
<1>3. m \in Processes /\ m.asked = pm2[s].asked /\ m.args = pm2[s].args /\ m.uses = pm2[s].uses
  BY <1>1, <1>2 DEF Processes
<1>4. ASSUME s # "ganache" PROVE Stuck(m)
  BY <1>3, <1>4 DEF ArgumentsInv, Stuck
<1>5. pm2' = [pm2 EXCEPT ![s] = m] /\ UNCHANGED <<env, cmd>>
  BY <1>1 DEF LoadService, ArgumentsInv
<1> QED BY <1>3, <1>4, <1>5, ServiceStuck

LEMMA RunStuck ==
  ASSUME FilesInv, ArgumentsInv, NEW s \in Managed, RunService(s)
  PROVE  ArgumentsInv'
<1>1. PICK m : m = [pm2[s] EXCEPT !.uses = Uses(pm2[s].args)]
  OBVIOUS
<1>2. pm2[s] \in Processes /\ pm2[s].args \in GivenArguments /\ Types
  BY DEF ArgumentsInv, Processes, FilesInv
<1>3. m \in Processes /\ m.asked = pm2[s].asked /\ m.args = pm2[s].args /\ m.uses = Uses(pm2[s].args)
  BY <1>1, <1>2, UsesGiven DEF Processes
<1>4. ASSUME s # "ganache" PROVE Stuck(m)
  <2>1. ASSUME NEW p \in ServiceParams, m.asked[p] \notin {Missing, ""}, env[p] = Missing
        PROVE  m.args[p] = m.asked[p] /\ m.uses[p] = m.asked[p]
    <3>1. pm2[s].args[p] = pm2[s].asked[p]
      BY <1>3, <1>4, <2>1 DEF ArgumentsInv, Stuck
    <3> QED BY <1>2, <1>3, <2>1, <3>1, UsesGiven
  <2> QED BY <2>1 DEF Stuck
<1>5. pm2' = [pm2 EXCEPT ![s] = m] /\ UNCHANGED <<env, cmd>>
  BY <1>1 DEF RunService, ArgumentsInv
<1> QED BY <1>3, <1>4, <1>5, ServiceStuck

LEMMA ManageHeld ==
  ASSUME FilesInv, ArgumentsInv, NEW t \in Terminals, ManageService(t)
  PROVE  ArgumentsInv'
<1>0. cmd \in [Terminals -> Commands] /\ cmd[t] \in Commands
  BY DEF FilesInv, Types
<1>1. CASE StartGanache(t)
  <2>1. PICK c : c = Saving(cmd[t], SetParam(SetParam(cmd[t].pv, NodeUrl, LocalNode),
                                             "eth-master-sk", GanacheKey))
    OBVIOUS
  <2>2. c.pc = "saving"
    BY <1>0, <2>1 DEF Saving, Commands
  <2> QED BY <1>1, <2>1, <2>2, QuietHeld DEF StartGanache
<1>2. ASSUME NEW s \in Managed, Describe(t, s) PROVE ArgumentsInv'
  <2>1. PICK c : c = [cmd[t] EXCEPT !.pc = "spawn"]
    OBVIOUS
  <2>2. cmd' = [cmd EXCEPT ![t] = c] /\ UNCHANGED <<env, pm2>>
    BY <1>0, <1>2, <2>1 DEF Describe
  <2>3. c.run = cmd[t].run /\ c.given = cmd[t].given /\ c.pv = cmd[t].pv
        /\ (c.run = StartCommand["ganache"] \/ cmd[t].pc \in {"start", "spawn"})
    BY <1>0, <1>2, <2>1 DEF Describe, Starts, Commands
  <2> QED BY <2>2, <2>3, QuietHeld
<1>3. ASSUME NEW s \in Managed, Spawn(t, s) PROVE ArgumentsInv'
  BY <1>3, SpawnStuck, EndHeld DEF Spawn
<1>4. CASE Stop(t)
  <2>1. PICK todo : cmd' = [cmd EXCEPT ![t].pc = "stopping", ![t].todo = todo]
    BY <1>4 DEF Stop
  <2>2. PICK c : c = [cmd[t] EXCEPT !.pc = "stopping", !.todo = todo]
    OBVIOUS
  <2>3. cmd' = [cmd EXCEPT ![t] = c] /\ c.pc = "stopping"
    BY <1>0, <2>1, <2>2 DEF Commands
  <2> QED BY <1>4, <2>3, QuietHeld DEF Stop
<1>5. CASE StopNext(t)
  <2>1. pm2' \in [Managed -> Processes] /\ \A r \in Managed \ {"ganache"} : Stuck(pm2'[r])
    BY <1>5, DeletedStuck DEF StopNext
  <2>2. PICK c : c = [cmd[t] EXCEPT !.todo = Tail(cmd[t].todo)]
    OBVIOUS
  <2>3. cmd' = [cmd EXCEPT ![t] = c] /\ c.pc = "stopping" /\ env' = env
    BY <1>0, <1>5, <2>2 DEF StopNext, Commands
  <2> QED BY <1>0, <2>1, <2>3 DEF ArgumentsInv, Held, Stuck
<1>6. CASE Clean(t)
  <2>1. pm2' \in [Managed -> Processes] /\ \A r \in Managed \ {"ganache"} : Stuck(pm2'[r])
    BY <1>6, AbsentStuck DEF Clean
  <2> QED BY <1>6, <2>1, EndHeld DEF Clean
<1> QED BY <1>1, <1>2, <1>3, <1>4, <1>5, <1>6 DEF ManageService

LEMMA DeployHeld ==
  ASSUME FilesInv, ArgumentsInv, NEW t \in Terminals, DeployContract(t)
  PROVE  ArgumentsInv'
<1>0. cmd[t] \in Commands
  BY DEF FilesInv, Types
<1>1. ASSUME NEW k \in Kinds, Deploy(t, k) PROVE ArgumentsInv'
  <2>1. PICK c : c = Saving(cmd[t], Recording(k, cmd[t].pv))
    OBVIOUS
  <2>2. c.pc = "saving"
    BY <1>0, <2>1 DEF Saving, Commands
  <2>3. cmd' = [cmd EXCEPT ![t] = c] /\ UNCHANGED <<env, pm2>>
    BY <1>1, <2>1 DEF Deploy, DeployContract, FilesInv, Types
  <2> QED BY <2>2, <2>3, QuietHeld
<1>2. ASSUME End(t), UNCHANGED pm2 PROVE ArgumentsInv'
  BY <1>2, EndHeld DEF ArgumentsInv
<1>3. ASSUME NEW k \in Kinds, ReadArgument(t, k) PROVE ArgumentsInv'
  <2>1. PICK c : c = [cmd[t] EXCEPT !.pc = "deploying", !.pv = Prepared(k, cmd[t].pv)]
    OBVIOUS
  <2>2. c.pc = "deploying"
    BY <1>0, <2>1 DEF Commands
  <2>3. cmd' = [cmd EXCEPT ![t] = c] /\ UNCHANGED <<env, pm2>>
    BY <1>3, <2>1 DEF ReadArgument, DeployContract, FilesInv, Types
  <2> QED BY <2>2, <2>3, QuietHeld
<1> QED BY <1>1, <1>2, <1>3 DEF DeployContract, DeployUnseen, DeployTestErc20

LEMMA AccessHeld ==
  ASSUME FilesInv, ArgumentsInv, NEW t \in Terminals, AccessFile(t)
  PROVE  ArgumentsInv'
<1>0. cmd[t] \in Commands /\ UNCHANGED pm2
  BY DEF FilesInv, Types, AccessFile
<1>1. CASE ReadFile(t)
  <2>1. PICK c : c = [cmd[t] EXCEPT !.read = configFile]
    OBVIOUS
  <2>2. cmd' = [cmd EXCEPT ![t] = c] /\ c.pc = "saving"
    BY <1>0, <1>1, <2>1 DEF ReadFile, Commands, FilesInv, Types
  <2> QED BY <1>0, <1>1, <2>2, QuietHeld DEF ReadFile
<1>2. ASSUME NEW n \in Params, Record(t, n) PROVE ArgumentsInv'
  <2>1. PICK c : c = Written(cmd[t], n)
    OBVIOUS
  <2>2. cmd' = [cmd EXCEPT ![t] = c] /\ cmd[t].pc = "saving" /\ env' = env
    BY <1>2, <2>1 DEF Record, WriteFile
  <2>3. c.pc \notin {"start", "spawn"}
    BY <1>0, <2>1, <2>2 DEF Written, Idle, Commands
  <2> QED BY <1>0, <2>2, <2>3, QuietHeld
<1> QED BY <1>0, <1>1, <1>2, LoadHeld DEF AccessFile

LEMMA NextArgumentsInv == FilesInv /\ ArgumentsInv /\ [Next]_vars => ArgumentsInv'
<1> SUFFICES ASSUME FilesInv, ArgumentsInv, [Next]_vars PROVE ArgumentsInv'
  OBVIOUS
<1>1. ASSUME NEW t \in Terminals, Return(t) PROVE ArgumentsInv'
  BY <1>1, EndHeld DEF Return, ArgumentsInv
<1>2. ASSUME NEW t \in Terminals, RunCommand(t) PROVE ArgumentsInv'
  <2>1. PICK run \in Repertoire[session], given \in Arguments[session] : Issue(t, run, given)
    BY <1>2 DEF RunCommand
  <2>2. PICK c : c = [Idle EXCEPT !.run = run, !.pc = "loading", !.given = given, !.read = configFile]
    OBVIOUS
  <2>3. c.pc = "loading" /\ cmd' = [cmd EXCEPT ![t] = c]
    BY <2>1, <2>2 DEF Issue, Idle
  <2> QED BY <1>2, <2>1, <2>3, QuietHeld DEF RunCommand, Issue
<1>3. CASE RestartService
  BY <1>3, RestartStuck DEF RestartService
<1>4. CASE UNCHANGED <<env, cmd, pm2>>
  BY <1>4 DEF ArgumentsInv, Held, Stuck
<1> QED BY <1>1, <1>2, <1>3, <1>4, DeployHeld, AccessHeld, ManageHeld, LoadStuck, RunStuck DEF Next, vars

(* A service keeps the arguments it was started with each time pm2 starts  *)
(* it again, whatever the config file says by then.                        *)
THEOREM ServicesKeepArguments == Spec => []ArgumentsStick
<1>1. Init => ArgumentsInv
  <2> SUFFICES ASSUME Init PROVE ArgumentsInv
    OBVIOUS
  <2>1. \A t \in Terminals : Held(cmd[t])
    BY DEF Init, Idle, Held
  <2>2. \A s \in Managed : pm2[s].asked = NoArguments /\ pm2[s] \in Processes
    <3>1. ASSUME NEW up \in BOOLEAN
          PROVE  [Absent EXCEPT !.up = up].asked = NoArguments /\ [Absent EXCEPT !.up = up] \in Processes
      <4>1. Absent.asked = NoArguments
        BY DEF Absent
      <4> QED BY <4>1, AbsentStuck DEF Processes
    <3>2. ASSUME NEW s \in Managed PROVE pm2[s] \in {[Absent EXCEPT !.up = TRUE], [Absent EXCEPT !.up = FALSE]}
      <4>1. pm2[s] = [Absent EXCEPT !.up = s \in Running[session]]
        BY DEF Init, ServicesInit
      <4>2. (s \in Running[session]) \in BOOLEAN
        OBVIOUS
      <4> QED BY <4>1, <4>2
    <3> QED BY <3>1, <3>2
  <2>3. \A s \in Managed : Stuck(pm2[s])
    BY <2>2, ServicesAssumption DEF Stuck, NoArguments
  <2>4. pm2 \in [Managed -> Processes]
    BY <2>2 DEF Init, ServicesInit
  <2> QED BY <2>1, <2>3, <2>4 DEF ArgumentsInv
<1>2. ArgumentsInv => ArgumentsStick
  BY DEF ArgumentsInv, Stuck, ArgumentsStick
<1> QED BY <1>1, <1>2, NextArgumentsInv, FilesInvHolds, PTL DEF Spec

-----------------------------------------------------------------------------
(* The dump commands.                                                      *)

LEMMA TheOnly == \A n : The({n}) = n
BY DEF The

(* The last n blocks up to end are those eth-dump computes with.           *)
LEMMA LastBlocksAre ==
  ASSUME NEW n \in Nat, NEW end \in Nat
  PROVE  LastBlocks(n, end) = AtLeast0(end - n + 1) .. end
<1>1. ASSUME NEW b \in 0 .. end PROVE Cardinality({c \in 0 .. end : c >= b}) = end - b + 1
  <2>1. {c \in 0 .. end : c >= b} = b .. end
    BY <1>1
  <2>2. Cardinality(b .. end) = end - b + 1
    BY <1>1, FS_Interval
  <2> QED BY <2>1, <2>2
<1>2. \A b \in 0 .. end : b \in LastBlocks(n, end) <=> end - b + 1 <= n
  BY <1>1 DEF LastBlocks
<1>3. \A b : b \in AtLeast0(end - n + 1) .. end <=> b \in 0 .. end /\ end - b + 1 <= n
  BY DEF AtLeast0
<1> QED BY <1>2, <1>3 DEF LastBlocks

(* eth-dump works its way down from the end of its range.                  *)
EthInv ==
  /\ head \in Nat
  /\ eth.pc \in {"idle", "dumping", "done", "failed"}
  /\ eth = [pc |-> eth.pc, from |-> eth.from, to |-> eth.to, end |-> eth.end, b |-> eth.b,
            start |-> eth.start, files |-> eth.files]
  /\ eth.from \in Given(Bounds)
  /\ eth.end \in Nat /\ eth.b \in Int /\ eth.start \in Nat
  /\ eth.b <= eth.end
  /\ eth.files = (eth.b + 1) .. eth.end
  /\ eth.pc # "idle" => /\ eth.start = StartBlock(eth.from, eth.end)
                        /\ eth.b + 1 >= eth.start \/ eth.b = eth.end
  /\ eth.pc = "done" => eth.b < eth.start
  /\ eth.pc = "idle" => eth.b = eth.end

(* tezos-dump proves each head against the next one it sees.               *)
TezosInv ==
  /\ tezos = [pc |-> tezos.pc, kind |-> tezos.kind, latest |-> tezos.latest, new |-> tezos.new,
              left |-> tezos.left, files |-> tezos.files]
  /\ tezos.latest \in Nat /\ tezos.new \in Nat /\ tezos.left \in Nat
  /\ tezos.pc = "fetching" => tezos.new > tezos.latest /\ tezos.left > 0
  /\ tezos.pc = "done" => tezos.left = 0
  /\ tezos.kind = "proofs" /\ tezos.pc # "idle" =>
       /\ \A f \in tezos.files : f.block \in Nat /\ f.block < f.against
       /\ \A f, g \in tezos.files : f.block = g.block => f = g
       /\ tezos.pc # "failed" => /\ IsFiniteSet(tezos.files)
                                 /\ Cardinality(tezos.files) = NumBlocks - tezos.left
                                 /\ \A f \in tezos.files : f.block < tezos.latest
  /\ tezos.pc = "idle" => tezos.files = {}

LEMMA StartBlockType ==
  ASSUME NEW from \in Given(Bounds), NEW end \in Nat
  PROVE  StartBlock(from, end) \in Nat
<1>1. from = {} \/ \E n \in Int : from = {n} /\ The(from) = n
  BY TheOnly, DumpsAssumption DEF Given
<1> QED BY <1>1, DumpsAssumption DEF StartBlock, AtLeast0

LEMMA WantedIs ==
  ASSUME EthInv, eth.pc # "idle"
  PROVE  Wanted = eth.start .. eth.end
<1>1. CASE eth.from = {}
  BY <1>1, LastBlocksAre, DumpsAssumption DEF Wanted, EthInv, StartBlock
<1>2. CASE eth.from # {}
  <2>1. PICK n \in Int : eth.from = {n} /\ The(eth.from) = n
    BY <1>2, TheOnly, DumpsAssumption DEF Given, EthInv
  <2>2. CASE n < 0
    <3>1. Wanted = LastBlocks(-n, eth.end) /\ eth.start = AtLeast0(eth.end + n + 1)
      BY <1>2, <2>1, <2>2 DEF Wanted, EthInv, StartBlock
    <3>2. -n \in Nat /\ eth.end \in Nat /\ eth.end - (-n) + 1 = eth.end + n + 1
      BY <2>2 DEF EthInv
    <3> QED BY <3>1, <3>2, LastBlocksAre
  <2>3. CASE n >= 0
    <3>1. Wanted = {b \in 0 .. eth.end : b >= n} /\ eth.start = n /\ eth.end \in Nat
      BY <1>2, <2>1, <2>3 DEF Wanted, EthInv, StartBlock
    <3> QED BY <2>3, <3>1
  <2> QED BY <2>2, <2>3
<1> QED BY <1>1, <1>2

LEMMA EthComplete == EthInv => EthDumpIsComplete
<1> SUFFICES ASSUME EthInv PROVE EthDumpIsComplete
  OBVIOUS
<1>1. CASE eth.pc = "idle"
  <2>1. eth.files = {}
    BY <1>1 DEF EthInv
  <2> QED BY <1>1, <2>1 DEF EthDumpIsComplete
<1>2. CASE eth.pc # "idle"
  <2>1. Wanted = eth.start .. eth.end
    BY <1>2, WantedIs
  <2> QED BY <1>2, <2>1 DEF EthInv, EthDumpIsComplete
<1> QED BY <1>1, <1>2

LEMMA TezosUsable == TezosInv => ProofsAreUsable
<1> SUFFICES ASSUME TezosInv, tezos.kind = "proofs"
             PROVE  /\ \A f \in tezos.files : f.block < f.against
                    /\ \A f, g \in tezos.files : f.block = g.block => f = g
                    /\ tezos.pc = "done" => Cardinality(tezos.files) = NumBlocks
  BY DEF ProofsAreUsable
<1>1. CASE tezos.pc = "idle"
  BY <1>1 DEF TezosInv
<1>2. CASE tezos.pc # "idle"
  BY <1>2, DumpsAssumption DEF TezosInv
<1> QED BY <1>1, <1>2

DumpsInv == EthInv /\ TezosInv

LEMMA InitDumps == Init => DumpsInv
<1> SUFFICES ASSUME Init PROVE DumpsInv
  OBVIOUS
<1>1. head \in Nat /\ eth = EthIdle /\ tezos = TezosIdle
  BY DumpsAssumption DEF Init, DumpsInit
<1>2. EthInv
  BY <1>1 DEF EthIdle, EthInv, Given
<1>3. TezosInv
  BY <1>1 DEF TezosIdle, TezosInv
<1> QED BY <1>2, <1>3 DEF DumpsInv

LEMMA EthDumpStep ==
  ASSUME EthInv, NEW from \in Given(Bounds), NEW to \in Given({n \in Bounds : n >= 0}),
         EthDump(from, to)
  PROVE  EthInv'
<1>1. EndBlock(to) \in Nat
  <2>1. to = {} \/ \E n \in Nat : to = {n} /\ The(to) = n
    BY TheOnly, DumpsAssumption DEF Given
  <2> QED BY <2>1 DEF EndBlock, EthInv
<1>2. StartBlock(from, EndBlock(to)) \in Nat
  BY <1>1, StartBlockType
<1>3. eth' = [pc |-> "dumping", from |-> from, to |-> to, end |-> EndBlock(to), b |-> EndBlock(to),
              start |-> StartBlock(from, EndBlock(to)), files |-> {}]
  BY DEF EthDump, EthIdle
<1>4. PICK end, start : end = EndBlock(to) /\ start = StartBlock(from, EndBlock(to))
  OBVIOUS
<1>5. /\ eth'.pc = "dumping" /\ eth'.from = from /\ eth'.to = to /\ eth'.end = end
      /\ eth'.b = end /\ eth'.start = start /\ eth'.files = {}
      /\ eth' = [pc |-> "dumping", from |-> from, to |-> to, end |-> end, b |-> end,
                 start |-> start, files |-> {}]
  BY <1>3, <1>4
<1>6. end \in Nat /\ start \in Nat /\ start = StartBlock(from, end)
  BY <1>1, <1>2, <1>4
<1>7. (end + 1) .. end = {}
  BY <1>6
<1>8. head' \in Nat
  BY DEF EthDump, EthInv
<1> QED BY <1>5, <1>6, <1>7, <1>8 DEF EthInv

LEMMA EthStep ==
  ASSUME EthInv, DumpBlock \/ EthDumped \/ EthFails
  PROVE  EthInv'
<1>1. CASE DumpBlock
  <2>1. eth' = [eth EXCEPT !.files = eth.files \cup {eth.b}, !.b = eth.b - 1]
        /\ eth.b >= eth.start /\ eth.pc = "dumping" /\ head' = head
    BY <1>1 DEF DumpBlock
  <2>2. eth' = [pc |-> "dumping", from |-> eth.from, to |-> eth.to, end |-> eth.end, b |-> eth.b - 1,
                start |-> eth.start, files |-> eth.files \cup {eth.b}]
    BY <2>1 DEF EthInv
  <2>3. eth.files \cup {eth.b} = ((eth.b - 1) + 1) .. eth.end
    <3>1. ASSUME NEW b \in Int, NEW e \in Int, b <= e
          PROVE  ((b + 1) .. e) \cup {b} = ((b - 1) + 1) .. e
      BY <3>1
    <3> QED BY <3>1 DEF EthInv
  <2>4. PICK b, files : b = eth.b - 1 /\ files = eth.files \cup {eth.b}
    OBVIOUS
  <2>5. /\ eth'.pc = "dumping" /\ eth'.from = eth.from /\ eth'.to = eth.to /\ eth'.end = eth.end
        /\ eth'.b = b /\ eth'.start = eth.start /\ eth'.files = files
        /\ eth' = [pc |-> "dumping", from |-> eth.from, to |-> eth.to, end |-> eth.end, b |-> b,
                   start |-> eth.start, files |-> files]
    BY <2>2, <2>4
  <2>6. /\ eth.from \in Given(Bounds) /\ eth.end \in Nat /\ eth.start \in Nat
        /\ eth.start = StartBlock(eth.from, eth.end) /\ head' \in Nat
    BY <2>1 DEF EthInv
  <2>7. b \in Int /\ b <= eth.end /\ b + 1 >= eth.start /\ files = (b + 1) .. eth.end
    BY <2>1, <2>3, <2>4 DEF EthInv
  <2> QED BY <2>5, <2>6, <2>7 DEF EthInv
<1>2. CASE EthDumped \/ EthFails
  <2>1. PICK pc \in {"done", "failed"} :
          /\ eth' = [eth EXCEPT !.pc = pc] /\ eth.pc = "dumping" /\ head' = head
          /\ pc = "done" => eth.b < eth.start
    BY <1>2 DEF EthDumped, EthFails
  <2>2. eth' = [pc |-> pc, from |-> eth.from, to |-> eth.to, end |-> eth.end, b |-> eth.b,
                start |-> eth.start, files |-> eth.files]
    BY <2>1 DEF EthInv
  <2> QED BY <2>1, <2>2 DEF EthInv
<1> QED BY <1>1, <1>2

LEMMA TezosStep ==
  ASSUME DumpsInv,
         \/ \E kind \in {"headers", "proofs"} : TezosDump(kind)
         \/ Poll \/ TezosDumped
         \/ \E h \in 0 .. MaxHead : FetchHeader(h)
  PROVE  TezosInv'
<1>0. TezosInv /\ head \in Nat
  BY DEF DumpsInv, EthInv
<1>1. ASSUME NEW kind \in {"headers", "proofs"}, TezosDump(kind) PROVE TezosInv'
  <2>1. tezos' = [pc |-> "polling", kind |-> kind, latest |-> head, new |-> 0,
                  left |-> NumBlocks, files |-> {}]
    BY <1>1 DEF TezosDump, TezosIdle
  <2>2. IsFiniteSet({}) /\ Cardinality({}) = NumBlocks - NumBlocks
    BY FS_EmptySet, DumpsAssumption
  <2> QED BY <1>0, <2>1, <2>2, DumpsAssumption DEF TezosInv
<1>2. CASE Poll
  <2>1. tezos' = [pc |-> "fetching", kind |-> tezos.kind, latest |-> tezos.latest, new |-> head,
                  left |-> tezos.left, files |-> tezos.files]
        /\ tezos.pc = "polling" /\ tezos.left > 0 /\ head > tezos.latest
    BY <1>0, <1>2 DEF Poll, TezosInv
  <2> QED BY <1>0, <2>1 DEF TezosInv
<1>3. CASE TezosDumped
  <2>1. tezos' = [pc |-> "done", kind |-> tezos.kind, latest |-> tezos.latest, new |-> tezos.new,
                  left |-> tezos.left, files |-> tezos.files]
        /\ tezos.pc = "polling" /\ tezos.left = 0
    BY <1>0, <1>3 DEF TezosDumped, TezosInv
  <2> QED BY <1>0, <2>1 DEF TezosInv
<1>4. ASSUME NEW h \in 0 .. MaxHead, FetchHeader(h) PROVE TezosInv'
  <2>1. tezos' = [pc |-> "polling", kind |-> "headers", latest |-> tezos.new, new |-> tezos.new,
                  left |-> tezos.left - 1, files |-> tezos.files \cup {[block |-> h, against |-> tezos.new]}]
        /\ tezos.pc = "fetching"
    BY <1>0, <1>4 DEF FetchHeader, Fetched, TezosInv
  <2> QED BY <1>0, <2>1 DEF TezosInv
<1> QED BY <1>1, <1>2, <1>3, <1>4

LEMMA FetchProofsStep ==
  ASSUME DumpsInv, FetchProofs
  PROVE  TezosInv'
<1> DEFINE file == [block |-> tezos.latest, against |-> tezos.new]
<1>1. /\ tezos' = [pc |-> "polling", kind |-> "proofs", latest |-> tezos.new, new |-> tezos.new,
                   left |-> tezos.left - 1, files |-> tezos.files \cup {file}]
      /\ tezos.pc = "fetching" /\ tezos.kind = "proofs"
  BY DEF FetchProofs, Fetched, ProofFile, DumpsInv, TezosInv
<1>2. /\ tezos.latest \in Nat /\ tezos.new \in Nat /\ tezos.left \in Nat
      /\ tezos.new > tezos.latest /\ tezos.left > 0
      /\ IsFiniteSet(tezos.files) /\ Cardinality(tezos.files) = NumBlocks - tezos.left
      /\ \A f \in tezos.files : f.block \in Nat /\ f.block < f.against /\ f.block < tezos.latest
      /\ \A f, g \in tezos.files : f.block = g.block => f = g
  BY <1>1 DEF DumpsInv, TezosInv
<1>3. file \notin tezos.files
  BY <1>2
<1>4. IsFiniteSet(tezos.files \cup {file})
      /\ Cardinality(tezos.files \cup {file}) = NumBlocks - (tezos.left - 1)
  <2>1. /\ IsFiniteSet(tezos.files \cup {file})
        /\ Cardinality(tezos.files \cup {file}) = Cardinality(tezos.files) + 1
    BY <1>2, <1>3, FS_AddElement
  <2>2. (NumBlocks - tezos.left) + 1 = NumBlocks - (tezos.left - 1)
    BY <1>2, DumpsAssumption
  <2> QED BY <1>2, <2>1, <2>2
<1>5. \A f \in tezos.files \cup {file} : f.block \in Nat /\ f.block < f.against /\ f.block < tezos.new
  BY <1>2
<1>6. \A f, g \in tezos.files \cup {file} : f.block = g.block => f = g
  BY <1>2
<1> QED BY <1>1, <1>2, <1>4, <1>5, <1>6 DEF TezosInv

LEMMA TezosFailsStep ==
  ASSUME DumpsInv, TezosFails
  PROVE  TezosInv'
<1>1. PICK files : /\ tezos' = [pc |-> "failed", kind |-> tezos.kind, latest |-> tezos.latest,
                                new |-> tezos.new, left |-> tezos.left, files |-> files]
                   /\ files = tezos.files \/ /\ files = tezos.files \cup {ProofFile}
                                             /\ tezos.pc = "fetching" /\ tezos.kind = "proofs"
  BY DEF TezosFails, DumpsInv, TezosInv
<1>2. TezosInv /\ tezos.pc \in {"polling", "fetching"}
  BY DEF TezosFails, DumpsInv
<1>3. CASE tezos.kind # "proofs"
  BY <1>1, <1>2, <1>3 DEF TezosInv
<1>4. CASE tezos.kind = "proofs"
  <2>1. /\ \A f \in tezos.files : f.block \in Nat /\ f.block < f.against /\ f.block < tezos.latest
        /\ \A f, g \in tezos.files : f.block = g.block => f = g
        /\ tezos.latest \in Nat /\ tezos.new \in Nat /\ tezos.left \in Nat
    BY <1>2, <1>4 DEF TezosInv
  <2>2. /\ \A f \in files : f.block \in Nat /\ f.block < f.against
        /\ \A f, g \in files : f.block = g.block => f = g
    <3>1. CASE files = tezos.files
      BY <2>1, <3>1
    <3>2. CASE files # tezos.files
      <4>1. PICK file : /\ file = [block |-> tezos.latest, against |-> tezos.new]
                        /\ files = tezos.files \cup {file} /\ tezos.new > tezos.latest
        BY <1>1, <1>2, <3>2 DEF ProofFile, TezosInv
      <4>2. file.block \in Nat /\ file.block < file.against
            /\ \A f \in tezos.files : f.block # file.block
        BY <2>1, <4>1
      <4> QED BY <2>1, <4>1, <4>2
    <3> QED BY <3>1, <3>2
  <2> QED BY <1>1, <2>1, <2>2 DEF TezosInv
<1> QED BY <1>3, <1>4

LEMMA NextDumps == DumpsInv /\ [Next]_vars => DumpsInv'
<1> SUFFICES ASSUME DumpsInv, [Next]_vars PROVE DumpsInv'
  OBVIOUS
<1>1. CASE UNCHANGED dumpVars
  BY <1>1 DEF dumpVars, DumpsInv, EthInv, TezosInv
<1>2. CASE DumpsNext
  <2>1. CASE Grow
    BY <2>1 DEF Grow, DumpsInv, EthInv, TezosInv
  <2>2. ASSUME EthInv', UNCHANGED tezos PROVE DumpsInv'
    BY <2>2 DEF DumpsInv, TezosInv
  <2>3. ASSUME TezosInv', UNCHANGED <<head, eth>> PROVE DumpsInv'
    BY <2>3 DEF DumpsInv, EthInv
  <2>4. ASSUME NEW from \in Given(Bounds), NEW to \in Given({n \in Bounds : n >= 0}), EthDump(from, to)
        PROVE  DumpsInv'
    BY <2>2, <2>4, EthDumpStep DEF EthDump, DumpsInv
  <2>5. CASE DumpBlock \/ EthDumped \/ EthFails
    BY <2>2, <2>5, EthStep DEF DumpBlock, EthDumped, EthFails, DumpsInv
  <2>6. CASE FetchProofs
    BY <2>3, <2>6, FetchProofsStep DEF FetchProofs
  <2>7. CASE \/ \E kind \in {"headers", "proofs"} : TezosDump(kind)
             \/ Poll \/ TezosDumped
             \/ \E h \in 0 .. MaxHead : FetchHeader(h)
    BY <2>3, <2>7, TezosStep DEF TezosDump, Poll, TezosDumped, FetchHeader
  <2>8. CASE TezosFails
    BY <2>3, <2>8, TezosFailsStep DEF TezosFails
  <2> QED BY <1>2, <2>1, <2>4, <2>5, <2>6, <2>7, <2>8 DEF DumpsNext
<1> QED BY <1>1, <1>2 DEF Next, vars

(* A dump that ends has the blocks it was asked for, and each proof is of  *)
(* a block that the head it is proved against has behind it.               *)
THEOREM DumpsComplete == Spec => []DumpsAreComplete
<1>1. DumpsInv => DumpsAreComplete
  BY EthComplete, TezosUsable DEF DumpsInv, DumpsAreComplete
<1> QED BY <1>1, InitDumps, NextDumps, PTL DEF Spec
=============================================================================
