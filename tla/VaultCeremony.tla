---------------------------- MODULE VaultCeremony ----------------------------
(* The ceremony that initializes or recovers Vault and configures it:       *)
(* scripts/ops/recover-and-bootstrap-hoodi-vault-v2.sh.  A Vault without    *)
(* initialization is initialized, its recovery shares go to private files,  *)
(* a checkpoint says "backup-pending" until the operator has put the shares *)
(* away and the initial root token has configured Vault.  An initialized    *)
(* Vault is configured with a root token generated from the shares.  The    *)
(* EXIT trap revokes the token and cancels the generation it knows of.      *)
(*                                                                          *)
(* Nothing keeps two invocations apart.  One may fail at any command (which *)
(* runs the trap), or be killed (which does not); a revocation or the       *)
(* cancellation of a generation may fail.                                   *)
EXTENDS Naturals

CONSTANTS Ceremony,        \* invocations, each of which runs once
          CeremonyFaults   \* what may go wrong: "exit", "kill", "revoke", "cancel", "unanswered"

ASSUME CeremonyAssumption ==
  CeremonyFaults \subseteq {"exit", "kill", "revoke", "cancel", "unanswered"} /\ "initial" \notin Ceremony

VARIABLES
  initialized, \* Vault is initialized
  configured,  \* its mounts, roles and policies are as the bootstrap scripts make them
  live,        \* root tokens Vault accepts: the initial one, and one an invocation generated
  generation,  \* the invocations whose generate-root ceremony is in progress: at most one
  astray,      \* history: whoever did not learn of its generation, or failed to cancel it
  response,    \* the private initialization response is on disk
  checkpoint,  \* the status in vault-initialization-checkpoint.json
  backedUp,    \* history: the operator has typed BACKED_UP
  stage,       \* where an invocation is
  root,        \* the root token it holds: none or one
  flags        \* what it has set: init_response, checkpoint_path, started, complete,
               \* bootstrap_complete, rc # 0

disk == <<response, checkpoint, backedUp>>
vault == <<initialized, configured, live, generation, astray>>
ceremony == <<vault, disk, stage, root, flags>>

CeremonyInit ==
  /\ initialized = FALSE /\ configured = FALSE /\ live = {} /\ generation = {} /\ astray = {}
  /\ response = FALSE /\ checkpoint = "none" /\ backedUp = FALSE
  /\ stage = [i \in Ceremony |-> "idle"] /\ root = [i \in Ceremony |-> {}]
  /\ flags = [i \in Ceremony |-> {}]

Goes(i, s) == stage' = [stage EXCEPT ![i] = s]
Sets(i, f) == flags' = [flags EXCEPT ![i] = @ \cup f]
Keeps(i, s) == Goes(i, s) /\ UNCHANGED <<root, flags>>
Gone(i, s) == /\ Goes(i, s)
              /\ root' = [root EXCEPT ![i] = {}] /\ flags' = [flags EXCEPT ![i] = {}]
Over == {"idle", "passed", "failed", "killed"}

(* A command was carried out and the invocation does not know it: its       *)
(* answer is lost, or a signal came meanwhile, and the trap runs before the *)
(* next line does.                                                          *)
Unheard(i) == /\ CeremonyFaults \cap {"exit", "unanswered"} # {}
              /\ Goes(i, "trap") /\ Sets(i, {"failed"})

-----------------------------------------------------------------------------
Begin(i) == stage[i] = "idle" /\ Keeps(i, "look") /\ UNCHANGED <<vault, disk>>

(* vault status, and what the recovery directory says about it.             *)
Pending == checkpoint = "backup-pending"
Resumable == Pending /\ response

LookInitialized(i) ==
  /\ stage[i] = "look" /\ initialized
  /\ \/ checkpoint = "none" /\ Keeps(i, "ceremony")
     \/ checkpoint = "configured" /\ Goes(i, "ceremony") /\ Sets(i, {"checkpoint"}) /\ UNCHANGED root
     \/ Resumable /\ Goes(i, "backup") /\ Sets(i, {"response", "checkpoint"}) /\ UNCHANGED root
     \/ Pending /\ ~response /\ Goes(i, "trap") /\ Sets(i, {"failed"}) /\ UNCHANGED root
  /\ UNCHANGED <<vault, disk>>

LookNew(i) == /\ stage[i] = "look" /\ ~initialized /\ checkpoint = "none"
              /\ Keeps(i, "init")
              /\ UNCHANGED <<vault, disk>>

(* INIT was typed.  Only one initialization succeeds; its answer, with the  *)
(* shares and the initial root token, is in the response file or nowhere.   *)
Initialize(i) ==
  /\ stage[i] = "init" /\ ~initialized
  /\ initialized' = TRUE /\ live' = live \cup {"initial"}
  /\ \/ response' = TRUE /\ Goes(i, "parse") /\ Sets(i, {"response"})
     \/ "unanswered" \in CeremonyFaults /\ UNCHANGED response
        /\ Goes(i, "trap") /\ Sets(i, {"failed"})
  /\ UNCHANGED <<configured, generation, astray, checkpoint, backedUp, root>>

InitializeRefused(i) == /\ stage[i] = "init" /\ initialized
                        /\ Goes(i, "trap") /\ Sets(i, {"failed"})
                        /\ UNCHANGED <<vault, disk, root>>

(* The token leaves the answer: until here the trap could not revoke it.    *)
Parse(i) == /\ stage[i] \in {"parse", "decode"}
            /\ root' = [root EXCEPT ![i] = IF stage[i] = "parse" THEN {"initial"} ELSE {i}]
            /\ Goes(i, IF stage[i] = "parse" THEN "deliver" ELSE "configure")
            /\ UNCHANGED <<vault, disk, flags>>

(* The five share files and then the checkpoint.                            *)
UnaskedDeliver(i) == \* mutant: nobody is asked about the backup
  /\ stage[i] = "deliver" /\ checkpoint' = "backup-pending"
  /\ Goes(i, "configure") /\ Sets(i, {"checkpoint"})
  /\ UNCHANGED <<vault, response, backedUp, root>>
UnnamedMark(i) == \* mutant: a status that no reader of the checkpoint knows
  /\ stage[i] = "mark" /\ checkpoint' = "complete" /\ Gone(i, "passed")
  /\ UNCHANGED <<vault, response, backedUp>>
Deliver(i) == /\ stage[i] = "deliver"
              /\ checkpoint' = "backup-pending"
              /\ Goes(i, "backup") /\ Sets(i, {"checkpoint"})
              /\ UNCHANGED <<vault, response, backedUp, root>>

(* BACKED_UP: the first invocation goes on with the initial root token, a   *)
(* later one has to generate its own.                                       *)
Acknowledge(i) == /\ stage[i] = "backup"
                  /\ backedUp' = TRUE
                  /\ Keeps(i, IF root[i] = {} THEN "ceremony" ELSE "configure")
                  /\ UNCHANGED <<vault, response, checkpoint>>

-----------------------------------------------------------------------------
(* generate-root.  One that is in progress is left alone (the operator      *)
(* types EXIT, a failure) or discarded on CANCEL.                           *)
Discard(i) == /\ stage[i] = "ceremony" /\ generation # {}
              /\ generation' = {}
              /\ UNCHANGED <<stage, flags>> \/ Unheard(i)
              /\ UNCHANGED <<initialized, configured, live, astray, disk, root>>

(* -init and started=true: when the answer does not come in between, the    *)
(* trap does not know that there is something to cancel.                    *)
Generate(i) == /\ stage[i] = "ceremony" /\ generation = {}
               /\ generation' = {i}
               /\ \/ Goes(i, "shares") /\ Sets(i, {"started"}) /\ UNCHANGED astray
                  \/ Unheard(i) /\ astray' = astray \cup {i}
               /\ UNCHANGED <<initialized, configured, live, disk, root>>

(* The quorum's last share; the nonce must be that of the ceremony.         *)
Quorum(i) == /\ stage[i] = "shares" /\ generation = {i}
             /\ generation' = {} /\ live' = live \cup {i}
             /\ (Goes(i, "decode") /\ Sets(i, {"complete"})) \/ Unheard(i)
             /\ UNCHANGED <<initialized, configured, astray, disk, root>>

SharesRefused(i) == /\ stage[i] = "shares" /\ generation # {i}
                    /\ Goes(i, "trap") /\ Sets(i, {"failed"})
                    /\ UNCHANGED <<vault, disk, root>>

(* The four bootstrap scripts.                                              *)
Configure(i) == /\ stage[i] = "configure" /\ root[i] \subseteq live
                /\ configured' = TRUE
                /\ Goes(i, "trap") /\ Sets(i, {"bootstrap_complete"})
                /\ UNCHANGED <<initialized, live, generation, astray, disk, root>>

-----------------------------------------------------------------------------
(* The EXIT trap: revoke -self, cancel, remove the response, rewrite the    *)
(* checkpoint; the last two only when all went well.                        *)
Done(i) == "bootstrap_complete" \in flags[i] /\ "failed" \notin flags[i]
HastyRecordable(i) == "bootstrap_complete" \in flags[i] \* mutant: rc is not looked at
Recordable(i) == Done(i)

Revoke(i) ==
  /\ stage[i] = "trap"
  /\ \/ live' = live \ root[i] /\ UNCHANGED flags
     \/ /\ root[i] # {} /\ "revoke" \in CeremonyFaults /\ Sets(i, {"failed"})
        /\ live' \in {live, live \ root[i]}
  /\ Goes(i, "cancel")
  /\ UNCHANGED <<initialized, configured, generation, astray, disk, root>>

(* -cancel takes no nonce: it ends whatever ceremony is in progress.  It    *)
(* may fail, done or not (rc=70).                                           *)
Cancels(i) == "started" \in flags[i] /\ "complete" \notin flags[i]
UncancelledLeft(i) == generation \* mutant: the trap only revokes
Left(i) == IF Cancels(i) THEN {} ELSE generation
Cancel(i) == /\ stage[i] = "cancel"
             /\ generation' = Left(i)
             /\ IF ~Recordable(i) THEN Gone(i, "failed")
                ELSE IF "response" \in flags[i] THEN Keeps(i, "remove")
                ELSE IF "checkpoint" \in flags[i] THEN Keeps(i, "mark") ELSE Gone(i, "passed")
             /\ UNCHANGED <<initialized, configured, live, astray, disk>>

CancelFails(i) == /\ stage[i] = "cancel" /\ Cancels(i) /\ "cancel" \in CeremonyFaults
                  /\ generation' \in {generation, {}} /\ astray' = astray \cup {i}
                  /\ Gone(i, "failed")
                  /\ UNCHANGED <<initialized, configured, live, disk>>

Remove(i) == /\ stage[i] = "remove"
             /\ response' = FALSE /\ Keeps(i, "mark")
             /\ UNCHANGED <<vault, checkpoint, backedUp>>

Mark(i) == /\ stage[i] = "mark"
           /\ checkpoint' = "configured" /\ Gone(i, "passed")
           /\ UNCHANGED <<vault, response, backedUp>>

-----------------------------------------------------------------------------
(* A command fails, a prompt is declined, a signal is caught: the trap      *)
(* runs, once.  A kill, or a signal during the trap, ends the invocation.   *)
CeremonyExit(i) ==
  /\ "exit" \in CeremonyFaults /\ stage[i] \notin Over \cup {"trap", "cancel", "remove", "mark"}
  /\ Goes(i, "trap") /\ Sets(i, {"failed"})
  /\ UNCHANGED <<vault, disk, root>>

CeremonyKill(i) == /\ "kill" \in CeremonyFaults /\ stage[i] \notin Over
                   /\ Gone(i, "killed")
                   /\ UNCHANGED <<vault, disk>>

CeremonyStep(i) ==
  \/ LookInitialized(i) \/ LookNew(i) \/ Initialize(i) \/ InitializeRefused(i) \/ Parse(i)
  \/ Deliver(i) \/ Acknowledge(i) \/ Discard(i) \/ Generate(i) \/ Quorum(i) \/ SharesRefused(i) \/ Configure(i)
  \/ Revoke(i) \/ Cancel(i) \/ CancelFails(i) \/ Remove(i) \/ Mark(i)

CeremonyNext == \E i \in Ceremony : Begin(i) \/ CeremonyStep(i) \/ CeremonyExit(i) \/ CeremonyKill(i)

CeremonySpec == CeremonyInit /\ [][CeremonyNext]_ceremony

-----------------------------------------------------------------------------
CeremonyTypeOK ==
  /\ initialized \in BOOLEAN /\ configured \in BOOLEAN /\ live \subseteq Ceremony \cup {"initial"}
  /\ generation \subseteq Ceremony /\ (\A i, j \in generation : i = j) /\ astray \subseteq Ceremony
  /\ response \in BOOLEAN /\ backedUp \in BOOLEAN
  /\ checkpoint \in {"none", "backup-pending", "configured"}
  /\ stage \in [Ceremony -> Over \cup {"look", "init", "parse", "deliver", "backup", "ceremony",
                  "shares", "decode", "configure", "trap", "cancel", "remove", "mark"}]
  /\ root \in [Ceremony -> SUBSET (Ceremony \cup {"initial"})]
  /\ flags \in [Ceremony -> SUBSET {"response", "checkpoint", "started", "complete",
                  "bootstrap_complete", "failed"}]

(* Whoever passes has configured Vault, holds no live root token, and every *)
(* generation it started is over: rc counts each failure of the trap (lines *)
(* 54-79), in whatever order the invocations took turns.                    *)
PassedClean ==
  [][\A i \in Ceremony : stage[i] # "passed" /\ stage'[i] = "passed" =>
       configured /\ root[i] # {} /\ root[i] \cap live = {} /\ i \notin generation]_ceremony

(* A generation in progress belongs to an invocation that collects its      *)
(* shares or is about to cancel it, or that left it in one of three ways:   *)
(* killed, before it had the answer of its -init, or with a -cancel that    *)
(* failed (lines 59-61, 263).  No other way of ending, and nothing another  *)
(* invocation does, leaves one to the next.                                 *)
GenerationOwned == \A i \in generation : stage[i] \in {"shares", "trap", "cancel", "killed"} \/ i \in astray

(* The response holds the only copy of the shares that Vault ever gives: it *)
(* is removed only after somebody has acknowledged their backup (line 68).  *)
SharesKept == [][response /\ ~response' => backedUp]_ceremony

(* Once nobody is at work any more and the checkpoint says "root_revoked":  *)
(* true, the initial root token does not work: it is to be revoked "after-  *)
(* wards, including explicit cleanup/recovery handling after failure"       *)
(* (installer-e2e-duty.md:37).                                              *)
InitialRootRevoked == checkpoint = "configured" /\ (\A i \in Ceremony : stage[i] \in Over)
                        => "initial" \notin live
=============================================================================
