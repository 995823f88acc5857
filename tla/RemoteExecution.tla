-------------------------- MODULE RemoteExecution --------------------------
(***************************************************************************)
(* cybercore.execution: actions that a client sends through SSH to a fixed *)
(* dispatcher on a server, and the receipts both write.  The connection    *)
(* may fail, the answer may be lost, the client gives up after a time of   *)
(* its own while the server goes on, and the two decide separately whether *)
(* a mutating operation is authorized.                                     *)
(***************************************************************************)
EXTENDS Integers, FiniteSets

CONSTANTS
  RemoteCalls,    \* the calls of execute_action
  Actions,        \* Actions[c]: the action of call c
  ClientGrants,   \* authorization references the client's verifier accepts
  ServerGrants,   \* and the server's; main() gives it none
  DockerOutcomes  \* how a docker command may end, with its rows

VARIABLES
  client,  \* client[c]: where the call is and its receipt
  server,  \* server[c]: where the dispatcher is, and how the command ended
  effects  \* the calls whose mutating command was started

remoteVars == <<client, server, effects>>

Mutating == {"vikunja.backup.install", "vikunja.backup.run"}
Operations == Mutating \cup {"system.inventory", "vikunja.backup.status", "vikunja.health.verify"}

NoReceipt == [exit |-> -1, possible |-> FALSE, result |-> FALSE]
RemoteInit ==
  /\ client = [c \in RemoteCalls |-> [pc |-> "start", receipt |-> NoReceipt]]
  /\ server = [c \in RemoteCalls |-> [pc |-> "none", exit |-> -1, inventory |-> "none", gone |-> FALSE]]
  /\ effects = {}

Operation(c) == Actions[c].operation
IsMutating(c) == Operation(c) \in Mutating

-----------------------------------------------------------------------------
\* The target is the canonical one, the operation is supported, plan and
\* authorization are named, and there are no arguments.
EvaluateAction(a) ==
  /\ a.target = "canonical" /\ a.operation \in Operations /\ a.plan # "" /\ a.reference # ""
  /\ a.arguments = {}

\* The server reads the same from the request.
FromMapping(a) ==
  /\ a.operation # "" /\ a.plan # "" /\ a.reference # "" /\ a.target = "canonical" /\ a.arguments = {}

ClientTo(c, l) == client' = [client EXCEPT ![c].pc = l]

\* Mutant: a mutation is thought possible only when the call succeeded.
BuildReceiptLax(c, exit, result) ==
  client' = [client EXCEPT ![c] = [pc |-> "receipt",
               receipt |-> [exit |-> exit, possible |-> exit = 0 /\ IsMutating(c), result |-> result]]]

\* A mutating receipt says that a mutation is possible, however the call ended.
BuildReceipt(c, exit, result) ==
  client' = [client EXCEPT ![c] = [pc |-> "receipt",
               receipt |-> [exit |-> exit, possible |-> IsMutating(c), result |-> result]]]

\* execute_action: refused, or sent to the server.
ExecuteAction(c) ==
  /\ client[c].pc = "start"
  /\ IF EvaluateAction(Actions[c]) /\ (IsMutating(c) => Actions[c].reference \in ClientGrants)
     THEN ClientTo(c, "sent") /\ server' = [server EXCEPT ![c].pc = "connecting"]
     ELSE ClientTo(c, "blocked") /\ UNCHANGED server
  /\ UNCHANGED effects

\* The transport fails, before or while the server works, or the time is up.
TransportFails(c) ==
  /\ client[c].pc = "sent"
  /\ \E exit \in {124, 255} : BuildReceipt(c, exit, FALSE)
  /\ server' = [server EXCEPT ![c].gone = TRUE]
  /\ UNCHANGED effects

-----------------------------------------------------------------------------
ServerTo(c, l, exit) == server' = [server EXCEPT ![c].pc = l, ![c].exit = exit] /\ UNCHANGED client

\* The request arrives, or the connection was never made.
Receive(c) ==
  /\ server[c].pc = "connecting"
  /\ ServerTo(c, "received", -1) \/ (server[c].gone /\ ServerTo(c, "lost", -1))
  /\ UNCHANGED effects

\* Mutant: the server trusts the client's authorization.
DispatchTrusting(c) ==
  /\ server[c].pc = "received"
  /\ ServerTo(c, "running", -1)
  /\ effects' = IF IsMutating(c) THEN effects \cup {c} ELSE effects

\* A malformed or unauthorized request is blocked with 2; an operation whose executable
\* is missing with 126; otherwise the fixed command starts.
Dispatch(c) ==
  /\ server[c].pc = "received"
  /\ IF FromMapping(Actions[c]) /\ Operation(c) \in Operations
        /\ (IsMutating(c) => Actions[c].reference \in ServerGrants)
     THEN \/ ServerTo(c, "running", -1) /\ effects' = IF IsMutating(c) THEN effects \cup {c} ELSE effects
          \/ ServerTo(c, "answered", 126) /\ UNCHANGED effects
     ELSE ServerTo(c, "answered", 2) /\ UNCHANGED effects

\* A docker command ends by itself, cannot be run, takes too long, or writes too much:
\* then it is killed, and what it wrote is not used.
Ran(o) == o.ends = "zero"
Rows(o) == IF Ran(o) THEN o.rows ELSE 0

\* Mutant: listed containers that could not be read do not make the inventory partial.
DockerInventoryLax(version, listed, usage) ==
  [cli |-> version.ends # "absent",
   status |-> IF version.ends = "absent" THEN "not_installed" ELSE IF ~Ran(version) THEN "denied_or_unreachable" ELSE "ok",
   version |-> Ran(version) /\ version.rows > 0, containers |-> Rows(listed), storage |-> Rows(usage)]

\* _docker_inventory: version, containers and storage, each of which may be missing.
DockerInventory(version, listed, usage) ==
  IF ~Ran(version)
  THEN [cli |-> version.ends # "absent", version |-> FALSE, containers |-> 0, storage |-> 0,
        status |-> IF version.ends = "absent" THEN "not_installed" ELSE "denied_or_unreachable"]
  ELSE [cli |-> TRUE, version |-> version.rows > 0, containers |-> Rows(listed), storage |-> Rows(usage),
        status |-> IF /\ version.rows > 0 /\ Ran(listed) /\ ~listed.malformed
                      /\ Ran(usage) /\ ~usage.malformed /\ usage.rows > 0
                   THEN "ok" ELSE "partial_failure"]

\* validate_inventory_payload, of the docker part.
ValidInventory(d) ==
  CASE d.status = "not_installed" -> ~d.cli /\ ~d.version /\ d.containers = 0 /\ d.storage = 0
    [] d.status = "denied_or_unreachable" -> d.cli /\ ~d.version /\ d.containers = 0 /\ d.storage = 0
    [] d.status = "ok" -> d.cli /\ d.version /\ d.storage > 0
    [] OTHER -> d.cli

\* The command ends or passes its time, which is 124.  The inventory command raises, and
\* so ends with 1, when what it collected does not validate or cannot be measured.
CommandEnds(c) ==
  /\ server[c].pc = "running" /\ UNCHANGED <<client, effects>>
  /\ \/ \E exit \in {1, 124} : ServerTo(c, "answered", exit)
     \/ Operation(c) # "system.inventory" /\ ServerTo(c, "answered", 0)
     \/ /\ Operation(c) = "system.inventory"
        /\ \E v, l, u \in DockerOutcomes :
             LET valid == ValidInventory(DockerInventory(v, l, u)) IN
             server' = [server EXCEPT ![c].pc = "answered", ![c].exit = IF valid THEN 0 ELSE 1,
                                      ![c].inventory = IF valid THEN "valid" ELSE "invalid"]

\* The dispatcher's own exit code: 0 only for EXECUTED.
ServerExit(c) == IF server[c].exit \in {0, 2, 126} THEN server[c].exit ELSE 1

\* The answer arrives; an inventory must be the exact receipt of this action, or it is 65.
Answered(c) ==
  /\ client[c].pc = "sent" /\ server[c].pc = "answered"
  /\ LET inventory == Operation(c) = "system.inventory" /\ ServerExit(c) = 0 IN
     \/ BuildReceipt(c, ServerExit(c), inventory)
     \/ inventory /\ BuildReceipt(c, 65, FALSE)
  /\ UNCHANGED <<server, effects>>

RemoteNext ==
  \E c \in RemoteCalls :
    \/ ExecuteAction(c) \/ TransportFails(c) \/ Receive(c) \/ Dispatch(c) \/ CommandEnds(c) \/ Answered(c)

-----------------------------------------------------------------------------
\* A receipt never denies a mutation that the server made, or may still make after the client
\* gave up; what is blocked at the client never reaches the server; and a mutating command
\* runs only if both sides found the same authorization.
ReceiptsAreHonest ==
  \A c \in RemoteCalls :
    /\ client[c].pc = "receipt" /\ (c \in effects \/ (IsMutating(c) /\ server[c].pc \in {"received", "running"})) =>
         client[c].receipt.possible
    /\ client[c].pc = "receipt" /\ client[c].receipt.exit = 0 => server[c].pc = "answered" /\ server[c].exit = 0
    /\ client[c].pc \in {"start", "blocked"} => server[c].pc = "none" /\ c \notin effects
    /\ c \in effects => Actions[c].reference \in ClientGrants \cap ServerGrants

\* Whatever the docker commands do, what is collected passes the validator that both sides apply:
\* an inventory is never lost because a part of it could not be read.
InventoryValidates == \A c \in RemoteCalls : server[c].inventory # "invalid"
=============================================================================
