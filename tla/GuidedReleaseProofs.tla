------------------------- MODULE GuidedReleaseProofs -------------------------
(* Proofs about the Vault ceremony and about the guided release that runs   *)
(* it, for any number of invocations and any of the faults.  A ceremony is  *)
(* typed, leaves a generation behind only when it is killed, when it is not *)
(* told of it or when the cancellation fails, no live token when it passes, *)
(* and never loses the shares before they are backed up.                    *)
(* The release implements the ceremony, so that all this holds in it too;   *)
(* it starts no ceremony twice, has one live build at a time for a project, *)
(* and its receipt never says more than what was done.                      *)
EXTENDS GuidedRelease, TLAPS

Fresh == {"idle", "look", "init"}
Early == Fresh \cup {"parse", "deliver", "backup", "ceremony", "shares"}
Acknowledged == {"ceremony", "shares", "decode", "configure", "remove"}

(* What a single invocation knows, in the order in which it learns it.      *)
FreshFlags == \A i \in Ceremony : stage[i] \in Fresh => flags[i] = {} /\ root[i] = {}
FlagsInOrder ==
  \A i \in Ceremony : /\ stage[i] \in Early => "complete" \notin flags[i]
                      /\ stage[i] \in Early \cup {"decode", "configure"} => "bootstrap_complete" \notin flags[i]
                      /\ stage[i] \in {"remove", "mark"} => Done(i)
(* Who holds the generation has started it and not completed it, so that    *)
(* its trap will cancel it, or will never come to anything.                 *)
Cancellable == /\ \A i \in generation : stage[i] = "killed" \/ Cancels(i) \/ i \in astray
               /\ \A i \in astray : \/ stage[i] \in {"failed", "killed"}
                                    \/ stage[i] \in {"trap", "cancel"} /\ "failed" \in flags[i]
(* The token it holds is its own or the initial one, and once revoked stays *)
(* so: there is only one initialization and one quorum for each.            *)
RootOwned == \A i \in Ceremony : /\ root[i] \subseteq {"initial", i}
                                 /\ stage[i] = "parse" \/ "initial" \in root[i] => initialized
                                 /\ stage[i] = "configure" => root[i] # {}
                                 /\ "bootstrap_complete" \in flags[i] =>
                                      configured /\ root[i] # {} /\ i \notin generation
RootRevoked == \A i \in Ceremony :
  stage[i] \in {"cancel", "remove", "mark"} /\ "failed" \notin flags[i] => root[i] \cap live = {}
BackupKnown == \A i \in Ceremony :
  /\ "response" \in flags[i] /\ (stage[i] \in Acknowledged \/ "bootstrap_complete" \in flags[i]) => backedUp
  /\ stage[i] = "remove" => backedUp

CeremonyInv == /\ CeremonyTypeOK /\ GenerationOwned /\ FreshFlags /\ FlagsInOrder /\ Cancellable
               /\ RootOwned /\ RootRevoked /\ BackupKnown

Actions(i) == \/ Begin(i) \/ CeremonyStep(i) \/ CeremonyExit(i) \/ CeremonyKill(i)

-----------------------------------------------------------------------------
(* Type correctness: every status, stage and flag an invocation writes is   *)
(* one that its readers know (recover-and-bootstrap-hoodi-vault-v2.sh).     *)
THEOREM CeremonyTypes == CeremonySpec => []CeremonyTypeOK
<1>1. CeremonyInit => CeremonyTypeOK
  BY DEF CeremonyInit, CeremonyTypeOK, Over
<1>2. CeremonyTypeOK /\ [CeremonyNext]_ceremony => CeremonyTypeOK'
  <2> SUFFICES ASSUME CeremonyTypeOK, [CeremonyNext]_ceremony PROVE CeremonyTypeOK'
    OBVIOUS
  <2> USE DEF CeremonyTypeOK, Over, Goes, Sets, Keeps, Gone, vault, disk
  <2>0. CASE UNCHANGED ceremony
    BY <2>0 DEF ceremony
  <2>1. CASE \E i \in Ceremony : Actions(i)
    <3> PICK i \in Ceremony : Actions(i)
      BY <2>1
    <3>1. CASE Begin(i) \/ CeremonyExit(i) \/ CeremonyKill(i)
      BY <3>1 DEF Begin, CeremonyExit, CeremonyKill
    <3>2. CASE LookInitialized(i) \/ LookNew(i)
      BY <3>2 DEF LookInitialized, LookNew, Pending, Resumable
    <3>3. CASE Initialize(i)
      <4>1. /\ stage' \in {[stage EXCEPT ![i] = "parse"], [stage EXCEPT ![i] = "trap"]}
            /\ flags' \in {[flags EXCEPT ![i] = @ \cup {"response"}], [flags EXCEPT ![i] = @ \cup {"failed"}]}
            /\ response' \in BOOLEAN
        BY <3>3 DEF Initialize
      <4> QED
        BY <3>3, <4>1 DEF Initialize
    <3>10. CASE InitializeRefused(i)
      BY <3>10 DEF InitializeRefused
    <3>4. CASE Parse(i)
      BY <3>4 DEF Parse
    <3>5. CASE Deliver(i)
      BY <3>5 DEF Deliver
    <3>11. CASE Acknowledge(i)
      <4>1. stage' \in {[stage EXCEPT ![i] = "ceremony"], [stage EXCEPT ![i] = "configure"]}
        BY <3>11 DEF Acknowledge
      <4> QED
        BY <3>11, <4>1 DEF Acknowledge
    <3>6. CASE Discard(i) \/ Generate(i) \/ Quorum(i) \/ SharesRefused(i)
      BY <3>6 DEF Discard, Generate, Quorum, SharesRefused, Unheard
    <3>7. CASE Configure(i)
      BY <3>7 DEF Configure
    <3>8. CASE Revoke(i) \/ Cancel(i) \/ CancelFails(i)
      BY <3>8 DEF Revoke, Cancel, CancelFails, Left
    <3>9. CASE Remove(i) \/ Mark(i)
      BY <3>9 DEF Remove, Mark
    <3> QED
      BY <3>1, <3>2, <3>3, <3>4, <3>5, <3>6, <3>7, <3>8, <3>9, <3>10, <3>11 DEF Actions, CeremonyStep
  <2> QED
    BY <2>0, <2>1 DEF CeremonyNext, Actions
<1> QED
  BY <1>1, <1>2, PTL DEF CeremonySpec
-----------------------------------------------------------------------------
(* Every step of every invocation keeps the invariant.                      *)
LEMMA CeremonyKeeps == CeremonyInv /\ [CeremonyNext]_ceremony /\ CeremonyTypeOK' => CeremonyInv'
<1> SUFFICES ASSUME CeremonyInv, [CeremonyNext]_ceremony, CeremonyTypeOK' PROVE CeremonyInv'
  OBVIOUS
<1> USE CeremonyAssumption
<1> USE DEF CeremonyInv, CeremonyTypeOK, GenerationOwned, FreshFlags, FlagsInOrder, Cancellable, Cancels, RootOwned,
            RootRevoked, BackupKnown, Fresh, Early, Acknowledged, Over, Done,
            Goes, Sets, Keeps, Gone, Unheard, vault, disk
<1>0. CASE UNCHANGED ceremony
  BY <1>0 DEF ceremony
<1>1. ASSUME NEW i \in Ceremony, Actions(i) PROVE CeremonyInv'
  <2>1. CASE Begin(i)
    BY <1>1, <2>1 DEF Begin
  <2>2. CASE CeremonyExit(i)
    BY <1>1, <2>2 DEF CeremonyExit
  <2>3. CASE CeremonyKill(i)
    BY <1>1, <2>3 DEF CeremonyKill
  <2>4. CASE LookInitialized(i)
    BY <1>1, <2>4 DEF LookInitialized, Pending, Resumable
  <2>5. CASE LookNew(i)
    BY <1>1, <2>5 DEF LookNew
  <2>6. CASE Initialize(i)
    BY <1>1, <2>6 DEF Initialize
  <2>7. CASE InitializeRefused(i)
    BY <1>1, <2>7 DEF InitializeRefused
  <2>8. CASE Parse(i)
    BY <1>1, <2>8 DEF Parse
  <2>9. CASE Deliver(i)
    BY <1>1, <2>9 DEF Deliver
  <2>10. CASE Acknowledge(i)
    BY <1>1, <2>10 DEF Acknowledge
  <2>11. CASE Discard(i)
    BY <1>1, <2>11 DEF Discard
  <2>12. CASE Generate(i)
    BY <1>1, <2>12 DEF Generate
  <2>13. CASE Quorum(i)
    BY <1>1, <2>13 DEF Quorum
  <2>14. CASE SharesRefused(i)
    BY <1>1, <2>14 DEF SharesRefused
  <2>15. CASE Configure(i)
    BY <1>1, <2>15 DEF Configure
  <2>16. CASE Revoke(i)
    BY <1>1, <2>16 DEF Revoke
  <2>17. CASE Cancel(i)
    BY <1>1, <2>17 DEF Cancel, Left, Recordable
  <2>20. CASE CancelFails(i)
    BY <1>1, <2>20 DEF CancelFails
  <2>18. CASE Remove(i)
    BY <1>1, <2>18 DEF Remove
  <2>19. CASE Mark(i)
    BY <1>1, <2>19 DEF Mark
  <2> QED
    BY <1>1, <2>1, <2>2, <2>3, <2>4, <2>5, <2>6, <2>7, <2>8, <2>9, <2>10, <2>11, <2>12, <2>13, <2>14, <2>15, <2>16, <2>17, <2>18, <2>19, <2>20 DEF Actions, CeremonyStep
<1> QED
  BY <1>0, <1>1 DEF CeremonyNext, Actions

LEMMA CeremonyBegins == CeremonyInit => CeremonyInv
  BY CeremonyAssumption
  DEF CeremonyInit, CeremonyInv, CeremonyTypeOK, GenerationOwned, FreshFlags, FlagsInOrder, Cancellable, Cancels,
      RootOwned, RootRevoked, BackupKnown, Fresh, Early, Acknowledged, Over, Done

LEMMA CeremonyInvariant == CeremonySpec => []CeremonyInv
<1>1. CeremonyTypeOK /\ CeremonyInv /\ [CeremonyNext]_ceremony /\ CeremonyTypeOK' => CeremonyInv'
  BY CeremonyKeeps
<1> QED
  BY CeremonyBegins, CeremonyTypes, <1>1, PTL DEF CeremonySpec

(* A generation outlives only an invocation that was killed, that had no    *)
(* answer to its -init or whose -cancel failed: every other one that has    *)
(* started it cancels it in its trap, if it has not completed it            *)
(* (recover-and-bootstrap-hoodi-vault-v2.sh, line 263 and the EXIT trap).   *)
THEOREM GenerationsAreOwned == CeremonySpec => []GenerationOwned
<1>1. CeremonyInv => GenerationOwned
  BY DEF CeremonyInv
<1> QED
  BY CeremonyInvariant, <1>1, PTL

(* Whoever passes has configured Vault and leaves neither a live root token *)
(* nor a generation behind, whatever the other invocations do.              *)
THEOREM PassedIsClean == CeremonySpec => PassedClean
<1>1. CeremonyInv /\ [CeremonyNext]_ceremony =>
        [\A i \in Ceremony : stage[i] # "passed" /\ stage'[i] = "passed" =>
           configured /\ root[i] # {} /\ root[i] \cap live = {} /\ i \notin generation]_ceremony
  <2> SUFFICES ASSUME CeremonyInv, CeremonyNext, NEW j \in Ceremony, stage[j] # "passed", stage'[j] = "passed"
               PROVE  configured /\ root[j] # {} /\ root[j] \cap live = {} /\ j \notin generation
    OBVIOUS
  <2>1. PICK i \in Ceremony : Actions(i)
    BY DEF CeremonyNext, Actions
  <2>2. (Cancel(j) /\ Recordable(j)) \/ Mark(j)
    <3> USE DEF CeremonyInv, CeremonyTypeOK, Goes, Sets, Keeps, Gone, Unheard, Over, vault, disk
    <3>1. i = j
      BY <2>1 DEF Actions, CeremonyStep, Begin, CeremonyExit, CeremonyKill, LookInitialized, LookNew,
        Initialize, InitializeRefused, Parse, Deliver, Acknowledge, Discard, Generate, Quorum,
        SharesRefused, Configure, Revoke, Cancel, CancelFails, Remove, Mark
    <3> QED
      BY <2>1, <3>1 DEF Actions, CeremonyStep, Begin, CeremonyExit, CeremonyKill, LookInitialized, LookNew,
        Initialize, InitializeRefused, Parse, Deliver, Acknowledge, Discard, Generate, Quorum,
        SharesRefused, Configure, Revoke, Cancel, CancelFails, Remove, Mark
  <2> QED
    BY <2>2 DEF CeremonyInv, Cancel, Mark, Recordable, Done, FlagsInOrder, RootOwned, RootRevoked
<1> QED
  BY CeremonyInvariant, <1>1, PTL DEF CeremonySpec, PassedClean

(* The file with the only copy of the recovery shares goes only after the   *)
(* operator has said, in this invocation or an earlier one, that they are   *)
(* put away.                                                                *)
THEOREM SharesAreKept == CeremonySpec => SharesKept
<1>1. CeremonyInv /\ [CeremonyNext]_ceremony => [response /\ ~response' => backedUp]_ceremony
  <2> SUFFICES ASSUME CeremonyInv, CeremonyNext, response, ~response' PROVE backedUp
    OBVIOUS
  <2>1. PICK i \in Ceremony : Actions(i)
    BY DEF CeremonyNext, Actions
  <2>2. Remove(i)
    BY <2>1 DEF Actions, CeremonyStep, Begin, CeremonyExit, CeremonyKill, LookInitialized, LookNew,
      Initialize, InitializeRefused, Parse, Deliver, Acknowledge, Discard, Generate, Quorum,
      SharesRefused, Configure, Revoke, Cancel, CancelFails, Remove, Mark, disk
  <2> QED
    BY <2>2 DEF CeremonyInv, BackupKnown, Remove
<1> QED
  BY CeremonyInvariant, <1>1, PTL DEF CeremonySpec, SharesKept

(* A ceremony that passed, and the checkpoint that says so, have configured *)
(* Vault.                                                                   *)
ConfiguredTrue == /\ checkpoint = "configured" => configured
                  /\ \A i \in Ceremony : stage[i] = "passed" => configured

LEMMA ConfiguredIsTrue == CeremonySpec => []ConfiguredTrue
<1>1. CeremonyInit => ConfiguredTrue
  BY DEF CeremonyInit, ConfiguredTrue
<1>2. CeremonyInv /\ ConfiguredTrue /\ [CeremonyNext]_ceremony => ConfiguredTrue'
  <2> SUFFICES ASSUME CeremonyInv, ConfiguredTrue, [CeremonyNext]_ceremony PROVE ConfiguredTrue'
    OBVIOUS
  <2>1. CASE UNCHANGED ceremony
    BY <2>1 DEF ceremony, ConfiguredTrue, vault, disk
  <2>2. ASSUME NEW i \in Ceremony, Actions(i) PROVE ConfiguredTrue'
    <3> USE DEF CeremonyInv, CeremonyTypeOK, ConfiguredTrue, Goes, Sets, Keeps, Gone, Unheard, Over, vault, disk
    <3>1. CASE Cancel(i) \/ Mark(i)
      BY <3>1 DEF Cancel, Mark, Recordable, Done, FlagsInOrder, RootOwned
    <3>2. CASE ~(Cancel(i) \/ Mark(i))
      BY <2>2, <3>2 DEF Actions, CeremonyStep, Begin, CeremonyExit, CeremonyKill, LookInitialized, LookNew,
        Initialize, InitializeRefused, Parse, Deliver, Acknowledge, Discard, Generate, Quorum,
        SharesRefused, Configure, Revoke, CancelFails, Remove
    <3> QED
      BY <3>1, <3>2
  <2> QED
    BY <2>1, <2>2 DEF CeremonyNext, Actions
<1> QED
  BY CeremonyInvariant, <1>1, <1>2, PTL DEF CeremonySpec

-----------------------------------------------------------------------------
(* The release.                                                             *)
Acts == \/ \E r \in Resumes : Resume(r) \/ Enter(r)
        \/ \E r \in Runs : Invocation(r) \/ Kill(r)
        \/ \E r \in Procs : Monitor(r) \/ Exit(r)
        \/ RetryTerminal \/ BuildEnds \/ Calm

(* What is not a step of a ceremony leaves Vault and all ceremonies alone,  *)
(* but for the beginning of one.                                            *)
LEMMA CeremonyApart == Acts => UNCHANGED ceremony \/ \E r \in Runs : Begin(r)
<1> USE DEF Quiet, Shell
<1>1. ASSUME NEW r \in Resumes, Resume(r) \/ Enter(r) PROVE UNCHANGED ceremony
  BY <1>1 DEF Resume, Enter
<1>2. ASSUME NEW r \in Runs, Invocation(r) PROVE UNCHANGED ceremony \/ Begin(r)
  <2>1. CASE Attempt(r)
    BY <2>1 DEF Attempt
  <2>2. CASE Step(r) \/ LookAdvance(r) \/ LookBind(r) \/ LookPrepare(r) \/ Write(r)
    BY <2>2 DEF Step, LookAdvance, LookBind, LookPrepare, Write
  <2>3. CASE Perform(r) \/ Effect(r) \/ Prove(r) \/ VaultReturns(r)
    BY <2>3 DEF Perform, Effect, Prove, VaultReturns
  <2>4. CASE BootBegins(r) \/ BootIntent(r) \/ Act(r) \/ BootRecord(r) \/ BootEnds(r)
    BY <2>4 DEF BootBegins, BootIntent, Act, BootRecord, BootEnds
  <2>5. CASE BuildIntent(r) \/ BuildFollow(r)
    BY <2>5 DEF BuildIntent, BuildFollow
  <2> QED
    BY <1>2, <2>1, <2>2, <2>3, <2>4, <2>5 DEF Invocation
<1>3. ASSUME NEW r \in Runs, Kill(r) PROVE UNCHANGED ceremony
  BY <1>3 DEF Kill
<1>4. ASSUME NEW r \in Procs, Monitor(r) \/ Exit(r) PROVE UNCHANGED ceremony
  BY <1>4 DEF Monitor, BuildLaunch, BuildHandle, BuildPoll, Exit
<1>5. CASE RetryTerminal \/ BuildEnds \/ Calm
  BY <1>5 DEF RetryTerminal, BuildEnds, Calm
<1> QED
  BY <1>1, <1>2, <1>3, <1>4, <1>5 DEF Acts

(* What the release does is a step of one ceremony, or none.                *)
LEMMA ReleaseStepsCeremony == [Next]_vars => [CeremonyNext]_ceremony
<1> SUFFICES ASSUME [Next]_vars PROVE [CeremonyNext]_ceremony
  OBVIOUS
<1>1. CASE UNCHANGED vars
  BY <1>1 DEF vars
<1>2. CASE Acts
  BY <1>2, CeremonyApart, ReleaseAssumption DEF CeremonyNext, Runs
<1>3. CASE \E i \in Ceremony : CeremonyGoes(i) \/ CeremonyEnds(i) \/ ByHand(i)
  BY <1>3 DEF CeremonyGoes, CeremonyEnds, ByHand, CeremonyNext
<1> QED
  BY <1>1, <1>2, <1>3 DEF Next, Acts

(* The release implements the ceremony: whatever it does with its receipt,  *)
(* its lock and its children, Vault goes through the steps of               *)
(* recover-and-bootstrap-hoodi-vault-v2.sh and no others.                   *)
THEOREM ReleaseImplementsCeremony == Spec => CeremonySpec
<1>1. Init => CeremonyInit
  BY DEF Init
<1> QED
  BY <1>1, ReleaseStepsCeremony, PTL DEF Spec, CeremonySpec

(* So the ceremonies a release runs, and those run by hand beside it, leave *)
(* a generation behind only in the same three ways.                         *)
THEOREM ReleaseGenerations == Spec => []GenerationOwned
  BY ReleaseImplementsCeremony, GenerationsAreOwned, PTL

(* Whoever passes leaves no live root token, under the guided path too.     *)
THEOREM ReleasePassedClean == Spec => PassedClean
  BY ReleaseImplementsCeremony, PassedIsClean, PTL

(* No release, resumed however often, loses the shares before the operator  *)
(* has acknowledged the backup.                                             *)
THEOREM ReleaseSharesKept == Spec => SharesKept
  BY ReleaseImplementsCeremony, SharesAreKept, PTL

-----------------------------------------------------------------------------
(* The phases: eighteen of them, all different.                             *)
LEMMA PhaseNames == /\ DOMAIN Lifecycle = 1 .. 18
                    /\ \A m, n \in 1 .. 18 : Lifecycle[m] = Lifecycle[n] => m = n
                    /\ Lifecycle[18] = "complete" /\ Lifecycle[1] = "none"
                    /\ \A n \in 1 .. 18 : Lifecycle[n] \in {Lifecycle[k] : k \in DOMAIN Lifecycle}
  BY DEF Lifecycle

(* Index is the position in Lifecycle.                                      *)
LEMMA PhaseIndex == /\ Phase = {Lifecycle[n] : n \in DOMAIN Lifecycle}
                    /\ \A p \in Phase : Index[p] \in 1 .. 18 /\ Lifecycle[Index[p]] = p
<1>1. Phase = {Lifecycle[n] : n \in DOMAIN Lifecycle}
  BY DEF Phase, Index
<1>2. ASSUME NEW p \in Phase PROVE Index[p] \in 1 .. 18 /\ Lifecycle[Index[p]] = p
  <2>1. \E n \in DOMAIN Lifecycle : Lifecycle[n] = p
    BY <1>1
  <2>2. Index[p] = CHOOSE n \in DOMAIN Lifecycle : Lifecycle[n] = p
    BY <1>1 DEF Index
  <2> QED
    BY <2>1, <2>2, PhaseNames
<1> QED
  BY <1>1, <1>2

(* Each phase but the last has a successor, one further on.                 *)
LEMMA PhaseOrder == \A p \in Phase \ {"complete"} : Successor(p) \in Phase /\ Index[Successor(p)] = Index[p] + 1
<1> SUFFICES ASSUME NEW p \in Phase \ {"complete"} PROVE Successor(p) \in Phase /\ Index[Successor(p)] = Index[p] + 1
  OBVIOUS
<1>1. Index[p] \in 1 .. 17
  BY PhaseNames, PhaseIndex
<1>2. Successor(p) \in Phase
  BY <1>1, PhaseNames, PhaseIndex DEF Successor
<1>3. Lifecycle[Index[Successor(p)]] = Lifecycle[Index[p] + 1]
  BY <1>2, PhaseIndex DEF Successor
<1> QED
  BY <1>1, <1>2, <1>3, PhaseNames, PhaseIndex

(* Those that the model names are phases.                                   *)
LEMMA PhasesNamed == /\ "complete" \in Phase /\ "none" \in Phase /\ "platform-complete" \in Phase /\ "platform-started" \in Phase
                     /\ \A c \in Ceremonies : Started[c] \in Phase \ {"complete"}
  BY PhaseIndex, PhaseNames DEF Lifecycle, Started, Ceremonies

-----------------------------------------------------------------------------
Receipts == [phase : Phase, bound : BOOLEAN, prepared : SUBSET Prepared]
Labels == {"idle", "over", "prompted", "step", "prepare", "bind", "advance", "write",
           "work", "effect", "proof", "vault"} \cup Bootstrapping
Children == {"work", "effect", "proof", "vault"} \cup Bootstrapping

(* Of the types those that the argument about the receipt needs.            *)
ReceiptTypes == /\ receipt \in Receipts /\ lock \subseteq Runs /\ stale \in BOOLEAN
                /\ attempts \in [Ceremonies -> 0 .. 2]
                /\ at \in [Runs -> Phase] /\ orphan \subseteq Runs
                /\ copy \in [Runs -> Receipts]
                /\ pc \in [Procs -> Labels]

(* Where an invocation is tells what phase it goes by.                      *)
Places == \A r \in Runs :
  /\ pc[r] \in {"advance", "prepare", "write"} => at[r] # "complete"
  /\ pc[r] = "prepare" => Coming(at[r]) \subseteq Prepared
  /\ pc[r] = "bind" => at[r] = "platform-complete"
  /\ pc[r] \in {"effect", "proof", "vault"} => \E c \in Ceremonies : at[r] = Started[c]
  /\ pc[r] \in Bootstrapping => at[r] = "platform-started"
  /\ r \in orphan => pc[r] \in Children

(* At most one invocation can write the receipt: the installation while     *)
(* nobody resumes, later the one that made the lock.                        *)
Holder(r) == pc[r] \notin {"idle", "over", "prompted"} /\ r \notin orphan
Exclusive == /\ \A r, s \in lock : r = s
             /\ \A r \in Resumes : Holder(r) => r \in lock
             /\ Install \notin lock /\ pc[Install] \notin {"idle", "prompted"}
             /\ Holder(Install) => lock = {} /\ \A r \in Resumes : pc[r] = "idle"

(* It knows the phase, and takes it one further.                            *)
PhaseKnown == \A r \in Runs : Holder(r) =>
  /\ at[r] = receipt.phase
  /\ pc[r] = "write" => copy[r].phase \in {at[r], Successor(at[r])}

(* A ceremony is about to be started by one invocation only, and never      *)
(* before the receipt says so.                                              *)
AboutTo(r, c) == pc[r] = "work" /\ at[r] = Started[c]
StartedOnce == \A c \in Ceremonies :
  /\ attempts[c] <= 1
  /\ attempts[c] # 0 => Reached(receipt.phase, Started[c])
  /\ \A r \in Runs : AboutTo(r, c) =>
       /\ attempts[c] = 0 /\ Reached(receipt.phase, Started[c])
       /\ \A s \in Runs : AboutTo(s, c) => s = r

ReleaseInv == ReceiptTypes /\ Places /\ Exclusive /\ PhaseKnown /\ StartedOnce

LEMMA ReleaseBegins == Init => ReleaseInv
<1> SUFFICES ASSUME Init PROVE ReleaseInv
  OBVIOUS
<1> USE ReleaseAssumption, PhasesNamed DEF Init, Runs, Procs
<1>1. Blank \in Receipts /\ Blank.phase = "none"
  BY DEF Blank, Receipts
<1>2. ReceiptTypes
  <2>1. pc \in [Procs -> Labels]
    BY DEF Labels
  <2>2. attempts \in [Ceremonies -> 0 .. 2]
    OBVIOUS
  <2> QED
    BY <1>1, <2>1, <2>2 DEF ReceiptTypes
<1>3. Places
  BY DEF Places, Bootstrapping, Monitoring
<1>4. Exclusive
  BY DEF Exclusive, Holder
<1>5. PhaseKnown
  BY <1>1 DEF PhaseKnown, Holder
<1>6. StartedOnce
  BY DEF StartedOnce, AboutTo
<1> QED
  BY <1>2, <1>3, <1>4, <1>5, <1>6 DEF ReleaseInv

(* What the argument is about, and what it is not.                          *)
Kept == UNCHANGED <<receipt, stale, attempts>>
Out == {"idle", "over", "prompted"}
Fits(r, l) == /\ l \in Labels \ Out
              /\ l \in {"advance", "prepare", "write"} => at[r] # "complete"
              /\ l = "prepare" => Coming(at[r]) \subseteq Prepared
              /\ l = "bind" => at[r] = "platform-complete"
              /\ l \in {"effect", "proof", "vault"} => \E c \in Ceremonies : at[r] = Started[c]
              /\ l \in Bootstrapping => at[r] = "platform-started"
              /\ r \in orphan => l \in Children

(* An invocation that is over leaves the others as they were.               *)
LEMMA EndsKeeps == ASSUME ReleaseInv, NEW r \in Runs, Ends(r), Kept, pc[r] \notin {"idle", "over"}
                   PROVE  ReleaseInv'
<1> USE ReleaseAssumption, PhasesNamed
<1> USE DEF ReleaseInv, ReceiptTypes, Ends, Moves, Home, Kept, Runs, Procs
<1>1. Blank \in Receipts
  BY DEF Blank, Receipts
<1>2. ReceiptTypes'
  BY <1>1 DEF Labels
<1>3. /\ \A s \in Runs \ {r} : pc'[s] = pc[s] /\ at'[s] = at[s] /\ copy'[s] = copy[s] /\ (s \in orphan' <=> s \in orphan)
      /\ pc'[r] \in {"idle", "over"} /\ (pc'[r] = "idle" => r # Install) /\ r \notin orphan'
  OBVIOUS
<1>4. Places'
  BY <1>3 DEF Places, Bootstrapping, Monitoring
<1>5. Exclusive'
  BY <1>3 DEF Exclusive, Holder
<1>6. PhaseKnown'
  BY <1>3 DEF PhaseKnown, Holder
<1>7. StartedOnce'
  BY <1>3 DEF StartedOnce, AboutTo
<1> QED
  BY <1>2, <1>4, <1>5, <1>6, <1>7

(* An invocation that goes on in the same phase, and not to a ceremony.     *)
LEMMA StaysKeeps == ASSUME ReleaseInv, NEW r \in Runs, NEW l, Stays(r, l), Kept, pc[r] \notin Out, Fits(r, l),
                           l # "write", l = "work" => \A c \in Ceremonies : at[r] # Started[c]
                    PROVE  ReleaseInv'
<1> USE ReleaseAssumption
<1> USE DEF ReleaseInv, ReceiptTypes, Stays, Moves, Kept, Runs, Procs
<1>1. l \in Labels \ Out
  BY DEF Fits
<1>2. ReceiptTypes'
  BY <1>1
<1>3. /\ \A s \in Runs \ {r} : pc'[s] = pc[s]
      /\ pc'[r] = l
  OBVIOUS
<1>4. Places'
  BY <1>3 DEF Places, Fits
<1>5. Exclusive'
  BY <1>1, <1>3 DEF Exclusive, Holder, Out
<1>6. PhaseKnown'
  BY <1>3 DEF PhaseKnown, Holder, Out
<1>7. StartedOnce'
  BY <1>3 DEF StartedOnce, AboutTo
<1> QED
  BY <1>2, <1>4, <1>5, <1>6, <1>7

(* A new receipt is about to be written.                                    *)
LEMMA WritesKeeps == ASSUME ReleaseInv, NEW r \in Runs, NEW new \in Receipts, Writes(r, new), Kept,
                            pc[r] \notin Out \cup Children, at[r] # "complete",
                            new.phase \in {at[r], Successor(at[r])}
                     PROVE  ReleaseInv'
<1> USE ReleaseAssumption
<1> USE DEF ReleaseInv, ReceiptTypes, Writes, Moves, Kept, Runs, Procs
<1>2. ReceiptTypes'
  BY DEF Labels
<1>3. /\ \A s \in Runs \ {r} : pc'[s] = pc[s] /\ copy'[s] = copy[s]
      /\ pc'[r] = "write" /\ copy'[r] = new
  OBVIOUS
<1>4. Places'
  BY <1>3 DEF Places, Children, Bootstrapping, Monitoring
<1>5. Exclusive'
  BY <1>3 DEF Exclusive, Holder, Out
<1>6. PhaseKnown'
  BY <1>3 DEF PhaseKnown, Holder, Out
<1>7. StartedOnce'
  BY <1>3 DEF StartedOnce, AboutTo
<1> QED
  BY <1>2, <1>4, <1>5, <1>6, <1>7

-----------------------------------------------------------------------------
(* An operator resumes.                                                     *)
LEMMA ResumeKeeps == ASSUME Alone, ReleaseInv, NEW r \in Resumes, Resume(r) PROVE ReleaseInv'
<1> USE ReleaseAssumption
<1> USE DEF ReleaseInv, ReceiptTypes, Resume, InstallOver, Shell, Quiet, Moves, world, Runs, Procs
<1>1. ReceiptTypes'
  BY DEF Labels, Receipts
<1>2. /\ \A s \in Runs \ {r} : pc'[s] = pc[s] /\ at'[s] = at[s]
      /\ pc[r] = "idle" /\ pc'[r] = "prompted" /\ r # Install /\ ~Holder(Install)
  BY DEF Holder
<1>3. Places' /\ Exclusive'
  BY <1>2 DEF Places, Exclusive, Holder, Bootstrapping, Monitoring, Children
<1>4. PhaseKnown' /\ StartedOnce'
  BY <1>2 DEF PhaseKnown, Holder, StartedOnce, AboutTo
<1> QED
  BY <1>1, <1>3, <1>4

LEMMA EnterKeeps == ASSUME ReleaseInv, NEW r \in Resumes, Enter(r) PROVE ReleaseInv'
<1> USE ReleaseAssumption
<1> USE DEF ReleaseInv, ReceiptTypes, Enter, Shell, Quiet, Moves, world, Runs, Procs
<1>1. CASE Ends(r)
  BY <1>1, EndsKeeps DEF Kept
<1>2. CASE lock = {} /\ ~Changed(r) /\ lock' = {r} /\ Moves(r, "step") /\ UNCHANGED <<at, copy, orphan>>
  <2>1. ReceiptTypes'
    BY <1>2 DEF Labels
  <2>2. /\ \A s \in Runs \ {r} : pc'[s] = pc[s]
        /\ pc[r] = "prompted" /\ pc'[r] = "step" /\ r # Install /\ ~Holder(Install) /\ at[r] = receipt.phase
    BY <1>2 DEF Exclusive, Changed
  <2>3. Places' /\ Exclusive'
    BY <1>2, <2>2 DEF Places, Exclusive, Holder, Bootstrapping, Monitoring, Children
  <2>4. PhaseKnown' /\ StartedOnce'
    BY <1>2, <2>2 DEF PhaseKnown, Holder, StartedOnce, AboutTo
  <2> QED
    BY <2>1, <2>3, <2>4
<1> QED
  BY <1>1, <1>2

(* The invocation's own steps and those on the receipt.                     *)
LEMMA ShellKeeps ==
  ASSUME ReleaseInv, NEW r \in Runs, Step(r) \/ LookAdvance(r) \/ LookBind(r) \/ LookPrepare(r)
  PROVE  ReleaseInv'
<1> USE ReleaseAssumption
<1> USE DEF Shell, Quiet, world, Kept, Out
<1>1. ASSUME Ends(r), Shell, pc[r] \notin {"idle", "over"} PROVE ReleaseInv'
  BY <1>1, EndsKeeps
<1>2. ASSUME NEW l, Stays(r, l), Shell, pc[r] \notin Out, Fits(r, l), l # "write",
             l = "work" => \A c \in Ceremonies : at[r] # Started[c]
      PROVE ReleaseInv'
  BY <1>2, StaysKeeps
<1>3. CASE Step(r)
  <2>1. r \notin orphan
    BY <1>3 DEF Step, ReleaseInv, Places, Children, Bootstrapping, Monitoring
  <2>2. ASSUME NEW l \in Asks(r) PROVE l \in {"advance", "work", "bind", "prepare"}
    BY DEF Asks, Reconcile
  <2>3. ASSUME NEW l \in Asks(r) PROVE l \in {"advance", "prepare"} => at[r] # "complete"
    <3>1. at[r] = "complete" => Coming(at[r]) = {} /\ Asks(r) = {"work"}
      BY DEF Asks, Coming, Unknown, Reconcile
    <3> QED
      BY <3>1
  <2>4. ASSUME NEW l \in Asks(r) PROVE l = "bind" => at[r] = "platform-complete"
    BY DEF Asks, Reconcile
  <2>5. ASSUME NEW l \in Asks(r) PROVE l = "work" => \A c \in Ceremonies : at[r] # Started[c]
    <3>1. \A c \in Ceremonies : Started[c] \in {"vault-started", "audit-started", "custody-started", "activation-started"}
      BY DEF Started, Ceremonies
    <3>2. l = "work" => at[r] \in Repeatable \cup {"complete", "platform-started"}
      BY DEF Asks, Reconcile
    <3> QED
      BY <3>1, <3>2 DEF Repeatable
  <2>9. ASSUME NEW l \in Asks(r) PROVE l = "prepare" => Coming(at[r]) \subseteq Prepared
    BY DEF Asks, Reconcile
  <2>6. ASSUME NEW l \in Asks(r) PROVE Fits(r, l)
    BY <2>1, <2>2, <2>3, <2>4, <2>9 DEF Fits, Labels, Bootstrapping, Monitoring
  <2>7. CASE Asks(r) = {}
    BY <1>1, <1>3, <2>7 DEF Step
  <2>8. CASE \E l \in Asks(r) : Stays(r, l)
    BY <1>2, <1>3, <2>2, <2>5, <2>6, <2>8 DEF Step
  <2> QED
    BY <1>3, <2>7, <2>8 DEF Step
<1>4. CASE LookAdvance(r)
  <2>1. pc[r] = "advance" /\ at[r] # "complete" /\ Shell
    BY <1>4 DEF LookAdvance, ReleaseInv, Places
  <2>2. CASE Ends(r)
    BY <1>1, <2>1, <2>2
  <2>3. CASE Writes(r, [receipt EXCEPT !.phase = Successor(at[r])])
    <3>1. [receipt EXCEPT !.phase = Successor(at[r])] \in Receipts
      BY <2>1, PhaseOrder DEF ReleaseInv, ReceiptTypes, Receipts
    <3>2. [receipt EXCEPT !.phase = Successor(at[r])].phase = Successor(at[r])
      BY DEF ReleaseInv, ReceiptTypes, Receipts
    <3> QED
      BY <2>1, <2>3, <3>1, <3>2, WritesKeeps DEF Children, Bootstrapping, Monitoring
  <2> QED
    BY <1>4, <2>2, <2>3 DEF LookAdvance
<1>5. CASE LookBind(r)
  <2>1. pc[r] = "bind" /\ at[r] = "platform-complete" /\ Shell
    BY <1>5 DEF LookBind, ReleaseInv, Places
  <2>2. CASE Ends(r)
    BY <1>1, <2>1, <2>2
  <2>3. CASE receipt.phase = "platform-complete" /\ Writes(r, [receipt EXCEPT !.bound = TRUE])
    <3>1. /\ [receipt EXCEPT !.bound = TRUE] \in Receipts
          /\ [receipt EXCEPT !.bound = TRUE].phase = receipt.phase
      BY DEF ReleaseInv, ReceiptTypes, Receipts
    <3> QED
      BY <2>1, <2>3, <3>1, WritesKeeps DEF Children, Bootstrapping, Monitoring
  <2> QED
    BY <1>5, <2>2, <2>3 DEF LookBind
<1>6. CASE LookPrepare(r)
  <2>1. pc[r] = "prepare" /\ at[r] # "complete" /\ Shell /\ r \notin orphan
    BY <1>6 DEF LookPrepare, ReleaseInv, Places, Children, Bootstrapping, Monitoring
  <2>2. PICK c \in Coming(at[r]) :
          IF receipt.phase \notin PreparedAt(c) \/ ~receipt.bound \/ c \in proofs THEN Ends(r)
          ELSE IF c \in receipt.prepared THEN Stays(r, "advance")
          ELSE Writes(r, [receipt EXCEPT !.prepared = @ \cup {c}])
    BY <1>6 DEF LookPrepare
  <2>3. CASE Ends(r)
    BY <1>1, <2>1, <2>3
  <2>4. CASE Stays(r, "advance")
    <3>1. Fits(r, "advance")
      BY <2>1 DEF Fits, Labels, Bootstrapping, Monitoring
    <3> QED
      BY <1>2, <2>1, <2>4, <3>1
  <2>5. CASE Writes(r, [receipt EXCEPT !.prepared = @ \cup {c}])
    <3>1. r \in Runs /\ at[r] = receipt.phase
      BY <2>1 DEF ReleaseInv, PhaseKnown, Holder
    <3>2. c \in Prepared
      BY <1>6 DEF LookPrepare, ReleaseInv, Places
    <3>3. /\ [receipt EXCEPT !.prepared = @ \cup {c}] \in Receipts
          /\ [receipt EXCEPT !.prepared = @ \cup {c}].phase = receipt.phase
      BY <3>2 DEF ReleaseInv, ReceiptTypes, Receipts
    <3> QED
      BY <2>1, <2>5, <3>1, <3>3, WritesKeeps DEF Children, Bootstrapping, Monitoring
  <2> QED
    BY <2>2, <2>3, <2>4, <2>5
<1> QED
  BY <1>3, <1>4, <1>5, <1>6

LEMMA OneHolder == ASSUME ReleaseInv, NEW r \in Runs, NEW s \in Runs, Holder(r), Holder(s) PROVE r = s
  BY ReleaseAssumption DEF ReleaseInv, Exclusive, Holder, Runs

(* The receipt is replaced: the only place where a ceremony may come next.  *)
LEMMA WriteKeeps == ASSUME ReleaseInv, NEW r \in Runs, Write(r) PROVE ReleaseInv'
<1> USE ReleaseAssumption
<1> DEFINE p == receipt.phase
           q == copy[r].phase
<1>1. /\ pc[r] = "write" /\ Holder(r) /\ at[r] = p /\ p \in Phase \ {"complete"} /\ q \in {p, Successor(p)}
      /\ q \in Phase /\ receipt' = copy[r] /\ receipt' \in Receipts /\ receipt'.phase = q
      /\ UNCHANGED <<stale, attempts>>
  BY PhaseOrder DEF Write, Quiet, ReleaseInv, ReceiptTypes, Receipts, Places, PhaseKnown, Holder,
    Children, Bootstrapping, Monitoring, world
<1>2. /\ \A c \in Ceremonies : Started[c] \in Phase
      /\ Index[p] \in Nat /\ Index[q] \in Nat /\ Index[q] >= Index[p]
      /\ \A c \in Ceremonies : Index[Started[c]] \in Nat
      /\ q # p => Index[q] = Index[p] + 1
  BY <1>1, PhasesNamed, PhaseOrder, PhaseIndex
<1>3. \A s \in Runs \ {r} : ~Holder(s)
  BY <1>1, OneHolder
<1>4. ASSUME NEW c \in Ceremonies, attempts[c] # 0 \/ \E s \in Runs : AboutTo(s, c)
      PROVE  Index[p] >= Index[Started[c]] /\ Index[q] >= Index[Started[c]]
  BY <1>2, <1>4 DEF ReleaseInv, StartedOnce, Reached
<1>5. CASE Closes(r)
  <2>1. Ends(r)
    BY <1>1, <1>5 DEF Write
  <2>2. /\ \A s \in Runs \ {r} : pc'[s] = pc[s] /\ at'[s] = at[s] /\ copy'[s] = copy[s] /\ (s \in orphan' <=> s \in orphan)
        /\ pc'[r] \in {"idle", "over"} /\ (pc'[r] = "idle" => r # Install) /\ r \notin orphan'
        /\ lock' \subseteq lock
    BY <2>1 DEF Ends, Moves, Home, ReleaseInv, ReceiptTypes, Runs, Procs
  <2>3. ReceiptTypes'
    <3>1. Blank \in Receipts
      BY PhasesNamed DEF Blank, Receipts
    <3> QED
      BY <1>1, <2>1, <3>1, PhasesNamed DEF Ends, Moves, Home, ReleaseInv, ReceiptTypes, Labels, Runs, Procs
  <2>4. Places'
    BY <2>2 DEF Places, ReleaseInv, Bootstrapping, Monitoring
  <2>5. Exclusive'
    BY <1>1, <1>3, <2>1, <2>2 DEF Exclusive, Holder, ReleaseInv, Runs
  <2>6. PhaseKnown'
    BY <1>3, <2>2 DEF PhaseKnown, Holder
  <2>7. StartedOnce'
    BY <1>1, <1>4, <2>2 DEF StartedOnce, AboutTo, ReleaseInv, Reached
  <2> QED
    BY <2>3, <2>4, <2>5, <2>6, <2>7 DEF ReleaseInv
<1>6. CASE ~Closes(r)
  <2>1. /\ Moves(r, Landing(r)) /\ at' = [at EXCEPT ![r] = q]
        /\ copy' = [copy EXCEPT ![r] = Blank] /\ UNCHANGED <<lock, orphan>>
        /\ q # "complete"
    BY <1>1, <1>6 DEF Write, Closes
  <2>2. /\ Landing(r) \in {"advance", "work", "step"}
        /\ Landing(r) = "work" => q # p
    BY <1>1 DEF Landing, Began
  <2>3. /\ \A s \in Runs \ {r} : pc'[s] = pc[s] /\ at'[s] = at[s] /\ copy'[s] = copy[s]
        /\ pc'[r] = Landing(r) /\ at'[r] = q
    BY <2>1 DEF Moves, ReleaseInv, ReceiptTypes, Runs, Procs
  <2>4. ReceiptTypes'
    <3>1. Blank \in Receipts
      BY PhasesNamed DEF Blank, Receipts
    <3> QED
      BY <1>1, <2>1, <2>2, <3>1 DEF Moves, ReleaseInv, ReceiptTypes, Labels, Runs, Procs
  <2>5. Places'
    BY <1>1, <1>6, <2>1, <2>2, <2>3 DEF Places, ReleaseInv, Holder, Bootstrapping, Monitoring
  <2>6. Exclusive'
    BY <1>1, <2>1, <2>2, <2>3 DEF Exclusive, Holder, ReleaseInv, Runs
  <2>7. PhaseKnown'
    BY <1>1, <1>3, <2>1, <2>2, <2>3 DEF PhaseKnown, Holder
  <2>8. ASSUME NEW c \in Ceremonies, AboutTo(r, c)' PROVE attempts[c] = 0 /\ \A s \in Runs : ~AboutTo(s, c)
    BY <1>1, <1>2, <1>4, <2>2, <2>3, <2>8 DEF AboutTo, ReleaseInv, ReceiptTypes
  <2>9. StartedOnce'
    BY <1>1, <1>2, <1>4, <2>3, <2>8 DEF StartedOnce, AboutTo, ReleaseInv, Reached
  <2> QED
    BY <2>4, <2>5, <2>6, <2>7, <2>9 DEF ReleaseInv
<1> QED
  BY <1>5, <1>6

(* What is done for an invocation, and the ceremonies.                      *)
LEMMA WorkKeeps ==
  ASSUME ReleaseInv, NEW r \in Runs, Perform(r) \/ Effect(r) \/ Prove(r) \/ VaultReturns(r)
  PROVE  ReleaseInv'
<1> USE ReleaseAssumption
<1> USE DEF Shell, Quiet, world, Kept, Out
<1>1. ASSUME NEW l \in {"advance", "proof"}, Stays(r, l), Kept, pc[r] \in Children, Fits(r, l)
      PROVE  ReleaseInv'
  BY <1>1, StaysKeeps DEF Children, Bootstrapping, Monitoring
<1>2. ASSUME Ends(r), Kept, pc[r] \in Children PROVE ReleaseInv'
  BY <1>2, EndsKeeps DEF Children, Bootstrapping, Monitoring
<1>3. ASSUME Returns(r, "advance"), Kept, pc[r] \in Children, at[r] # "complete" PROVE ReleaseInv'
  <2>1. r \notin orphan => Fits(r, "advance")
    BY <1>3 DEF Fits, Labels, Bootstrapping, Monitoring
  <2> QED
    BY <1>1, <1>2, <1>3, <2>1 DEF Returns
<1>4. CASE Perform(r)
  BY <1>2, <1>3, <1>4 DEF Perform, Children
<1>5. CASE Effect(r)
  <2>1. Fits(r, "proof")
    BY <1>5 DEF Effect, Fits, Labels, Children, ReleaseInv, Places, Bootstrapping, Monitoring
  <2> QED
    BY <1>1, <1>5, <2>1 DEF Effect, Children
<1>6. CASE Prove(r)
  BY <1>3, <1>6, PhasesNamed DEF Prove, Children, ReleaseInv, Places
<1>7. CASE VaultReturns(r)
  BY <1>2, <1>3, <1>7, PhasesNamed DEF VaultReturns, Children, ReleaseInv, Places
<1> QED
  BY <1>4, <1>5, <1>6, <1>7

(* A ceremony is started.                                                   *)
LEMMA AttemptKeeps == ASSUME ReleaseInv, NEW r \in Runs, Attempt(r) PROVE ReleaseInv'
<1> USE ReleaseAssumption
<1>1. PICK c \in Unknown(at[r]) : /\ attempts' = [attempts EXCEPT ![c] = IF @ < 2 THEN @ + 1 ELSE @]
                                  /\ Stays(r, IF c = "vault" THEN "vault" ELSE "effect")
  BY DEF Attempt
<1>2. /\ pc[r] = "work" /\ UNCHANGED <<receipt, stale, at, copy, lock, orphan>>
      /\ c \in Ceremonies /\ at[r] = Started[c]
      /\ pc'[r] \in {"vault", "effect"} /\ \A s \in Runs \ {r} : pc'[s] = pc[s]
      /\ pc' = [pc EXCEPT ![r] = pc'[r]]
  BY <1>1 DEF Attempt, Unknown, Stays, Moves, ReleaseInv, ReceiptTypes, Runs, Procs
<1>3. attempts[c] = 0 /\ attempts' = [attempts EXCEPT ![c] = 1]
  <2>1. attempts[c] = 0
    BY <1>2 DEF ReleaseInv, StartedOnce, AboutTo
  <2>2. (IF attempts[c] < 2 THEN attempts[c] + 1 ELSE attempts[c]) = 1
    BY <2>1
  <2> QED
    BY <1>1, <2>1, <2>2
<1>4. ReceiptTypes'
  <2>1. pc' \in [Procs -> Labels]
    BY <1>2 DEF ReleaseInv, ReceiptTypes, Labels, Runs, Procs
  <2>2. attempts' \in [Ceremonies -> 0 .. 2]
    BY <1>2, <1>3 DEF ReleaseInv, ReceiptTypes
  <2>3. /\ receipt' \in Receipts /\ lock' \subseteq Runs /\ stale' \in BOOLEAN
        /\ at' \in [Runs -> Phase] /\ orphan' \subseteq Runs /\ copy' \in [Runs -> Receipts]
    BY <1>2 DEF ReleaseInv, ReceiptTypes
  <2> QED
    BY <2>1, <2>2, <2>3 DEF ReceiptTypes
<1>5. Places'
  BY <1>2 DEF ReleaseInv, Places, Children, Bootstrapping, Monitoring
<1>6. Exclusive'
  BY <1>2 DEF ReleaseInv, Exclusive, Holder, Runs
<1>7. PhaseKnown'
  BY <1>2 DEF ReleaseInv, PhaseKnown, Holder
<1>8. StartedOnce'
  BY <1>2, <1>3 DEF ReleaseInv, StartedOnce, AboutTo, ReceiptTypes
<1> QED
  BY <1>4, <1>5, <1>6, <1>7, <1>8 DEF ReleaseInv

(* The platform bootstrap and its builds.                                   *)
LEMMA PlatformKeeps ==
  ASSUME ReleaseInv, NEW r \in Runs,
         \/ BootBegins(r) \/ BootIntent(r) \/ Act(r) \/ BootRecord(r) \/ BootEnds(r)
         \/ BuildIntent(r) \/ BuildFollow(r) \/ Monitor(r)
  PROVE  ReleaseInv'
<1> USE ReleaseAssumption
<1> USE DEF Shell, Quiet, world, Kept, Out
<1>1. ASSUME NEW l \in Bootstrapping, Stays(r, l), Kept, pc[r] \in Children, at[r] = "platform-started"
      PROVE  ReleaseInv'
  <2>1. Fits(r, l)
    BY <1>1, PhasesNamed DEF Fits, Labels, Children, Bootstrapping, Monitoring
  <2> QED
    BY <1>1, <2>1, StaysKeeps DEF Children, Bootstrapping, Monitoring
<1>2. ASSUME Ends(r), Kept, pc[r] \in Children PROVE ReleaseInv'
  BY <1>2, EndsKeeps DEF Children, Bootstrapping, Monitoring
<1>3. pc[r] \in Bootstrapping => at[r] = "platform-started"
  BY DEF ReleaseInv, Places
<1>4. CASE BootBegins(r)
  BY <1>1, <1>2, <1>4 DEF BootBegins, Children, Bootstrapping
<1>5. CASE BootIntent(r)
  BY <1>1, <1>3, <1>5 DEF BootIntent, Children, Bootstrapping
<1>6. CASE Act(r)
  BY <1>1, <1>3, <1>6 DEF Act, Children, Bootstrapping
<1>7. CASE BootRecord(r)
  BY <1>1, <1>3, <1>7 DEF BootRecord, Children, Bootstrapping
<1>8. CASE BootEnds(r)
  <2>1. pc[r] = "boot" /\ at[r] = "platform-started" /\ Kept /\ Returns(r, "advance")
    BY <1>3, <1>8 DEF BootEnds, Bootstrapping
  <2>2. CASE r \in orphan
    BY <1>2, <2>1, <2>2 DEF Returns, Children, Bootstrapping
  <2>3. CASE r \notin orphan
    <3>1. Fits(r, "advance")
      BY <2>1, <2>3 DEF Fits, Labels, Bootstrapping, Monitoring
    <3> QED
      BY <2>1, <2>3, <3>1, StaysKeeps DEF Returns
  <2> QED
    BY <2>2, <2>3
<1>9. CASE BuildIntent(r)
  BY <1>1, <1>3, <1>9 DEF BuildIntent, Children, Bootstrapping, Monitoring
<1>10. CASE BuildFollow(r)
  BY <1>1, <1>2, <1>3, <1>10 DEF BuildFollow, Children, Bootstrapping, Monitoring
<1>11. CASE BuildLaunch(r) \/ BuildHandle(r)
  BY <1>1, <1>3, <1>11 DEF BuildLaunch, BuildHandle, Stays, Children, Bootstrapping, Monitoring
<1>12. CASE BuildPoll(r)
  BY <1>1, <1>2, <1>3, <1>12 DEF BuildPoll, Children, Bootstrapping, Monitoring, Runs
<1> QED
  BY <1>4, <1>5, <1>6, <1>7, <1>8, <1>9, <1>10, <1>11, <1>12 DEF Monitor

(* The operator at the build, who is no invocation.                         *)
Apart == UNCHANGED <<receipt, lock, stale, attempts, at, copy, orphan>>
LEMMA OperatorKeeps == ASSUME ReleaseInv, NEW l \in Labels, Moves("operator", l), Apart PROVE ReleaseInv'
<1> USE ReleaseAssumption DEF Apart
<1>1. pc' \in [Procs -> Labels] /\ \A s \in Runs : pc'[s] = pc[s]
  BY DEF Moves, ReleaseInv, ReceiptTypes, Procs, Runs
<1>2. ReceiptTypes'
  BY <1>1 DEF ReleaseInv, ReceiptTypes
<1>3. Places' /\ Exclusive'
  BY <1>1 DEF ReleaseInv, Places, Exclusive, Holder, Runs
<1>4. PhaseKnown' /\ StartedOnce'
  BY <1>1 DEF ReleaseInv, PhaseKnown, Holder, StartedOnce, AboutTo
<1> QED
  BY <1>2, <1>3, <1>4 DEF ReleaseInv

LEMMA ApartKeeps == ASSUME ReleaseInv, Apart, UNCHANGED pc PROVE ReleaseInv'
<1>1. ReceiptTypes' /\ Places'
  BY DEF Apart, ReleaseInv, ReceiptTypes, Places
<1>2. Exclusive' /\ PhaseKnown'
  BY DEF Apart, ReleaseInv, Exclusive, Holder, PhaseKnown
<1>3. StartedOnce'
  BY DEF Apart, ReleaseInv, StartedOnce, AboutTo
<1> QED
  BY <1>1, <1>2, <1>3 DEF ReleaseInv

(* Cut short: with the traps, and without.                                  *)
LEMMA ExitKeeps == ASSUME ReleaseInv, NEW r \in Procs, Exit(r) PROVE ReleaseInv'
<1>1. CASE r \in Runs
  <2>1. Ends(r) /\ Kept /\ pc[r] \notin {"idle", "over"}
    BY <1>1, ReleaseAssumption DEF Exit, Active, Kept, Quiet, Runs
  <2> QED
    BY <1>1, <2>1, EndsKeeps
<1>2. CASE r = "operator" /\ r \notin Runs
  <2>1. Moves("operator", "idle") /\ Apart /\ "idle" \in Labels
    BY <1>2 DEF Exit, Apart, Quiet, Labels
  <2> QED
    BY <2>1, OperatorKeeps
<1> QED
  BY <1>1, <1>2 DEF Procs

LEMMA KillKeeps == ASSUME ReleaseInv, NEW r \in Runs, Kill(r) PROVE ReleaseInv'
<1> USE ReleaseAssumption
<1>1. UNCHANGED <<receipt, lock, attempts>> /\ stale' \in BOOLEAN /\ pc[r] \notin {"idle", "over"}
  BY DEF Kill, Active, ReleaseInv, ReceiptTypes
<1>2. CASE /\ Moves(r, Home(r)) /\ orphan' = orphan \ {r}
           /\ at' = [at EXCEPT ![r] = "none"] /\ copy' = [copy EXCEPT ![r] = Blank]
  <2>1. /\ \A s \in Runs \ {r} : pc'[s] = pc[s] /\ at'[s] = at[s] /\ copy'[s] = copy[s] /\ (s \in orphan' <=> s \in orphan)
        /\ pc'[r] \in {"idle", "over"} /\ (pc'[r] = "idle" => r # Install) /\ r \notin orphan'
    BY <1>2 DEF Moves, Home, ReleaseInv, ReceiptTypes, Runs, Procs
  <2>2. ReceiptTypes'
    <3>1. Blank \in Receipts
      BY PhasesNamed DEF Blank, Receipts
    <3> QED
      BY <1>1, <1>2, <3>1, PhasesNamed DEF Moves, Home, ReleaseInv, ReceiptTypes, Labels, Runs, Procs
  <2>3. Places'
    BY <2>1 DEF ReleaseInv, Places, Bootstrapping, Monitoring
  <2>4. Exclusive'
    BY <1>1, <2>1 DEF ReleaseInv, Exclusive, Holder, Runs
  <2>5. PhaseKnown'
    BY <1>1, <2>1 DEF ReleaseInv, PhaseKnown, Holder
  <2>6. StartedOnce'
    BY <1>1, <2>1 DEF ReleaseInv, StartedOnce, AboutTo
  <2> QED
    BY <2>2, <2>3, <2>4, <2>5, <2>6 DEF ReleaseInv
<1>3. CASE /\ pc[r] \in {"work", "effect", "proof"} \cup Bootstrapping
           /\ orphan' = orphan \cup {r} /\ UNCHANGED <<pc, at, copy>>
  <2>1. ReceiptTypes' /\ Places'
    BY <1>1, <1>3 DEF ReleaseInv, ReceiptTypes, Places, Children
  <2>2. Exclusive' /\ PhaseKnown'
    BY <1>1, <1>3 DEF ReleaseInv, Exclusive, Holder, PhaseKnown, Runs
  <2>3. StartedOnce'
    BY <1>1, <1>3 DEF ReleaseInv, StartedOnce, AboutTo
  <2> QED
    BY <2>1, <2>2, <2>3 DEF ReleaseInv
<1> QED
  BY <1>2, <1>3 DEF Kill

(* Every step keeps the invariant.                                          *)
LEMMA ReleaseKeeps == ASSUME Alone, ReleaseInv, [Next]_vars PROVE ReleaseInv'
<1>1. CASE UNCHANGED vars
  BY <1>1, ApartKeeps DEF vars, local, world, platform, Apart
<1>2. ASSUME NEW r \in Resumes, Resume(r) \/ Enter(r) PROVE ReleaseInv'
  BY <1>2, ResumeKeeps, EnterKeeps
<1>3. ASSUME NEW r \in Runs, Invocation(r) \/ Kill(r) PROVE ReleaseInv'
  BY <1>3, ShellKeeps, WriteKeeps, WorkKeeps, AttemptKeeps, PlatformKeeps, KillKeeps DEF Invocation
<1>4. ASSUME NEW r \in Procs, Monitor(r) \/ Exit(r) PROVE ReleaseInv'
  <2>1. CASE r \in Runs
    BY <1>4, <2>1, PlatformKeeps, ExitKeeps
  <2>2. CASE r = "operator"
    <3>1. CASE Exit(r)
      BY <3>1, ExitKeeps
    <3>2. CASE Monitor(r)
      <4>1. \E l \in Labels : Moves("operator", l) /\ Apart
        BY <2>2, <3>2 DEF Monitor, BuildLaunch, BuildHandle, BuildPoll, Apart, Quiet, world,
          Labels, Bootstrapping, Monitoring
      <4> QED
        BY <4>1, OperatorKeeps
    <3> QED
      BY <1>4, <3>1, <3>2
  <2> QED
    BY <2>1, <2>2 DEF Procs
<1>5. CASE \E i \in Ceremony : CeremonyGoes(i) \/ CeremonyEnds(i) \/ ByHand(i)
  BY <1>5, ApartKeeps DEF CeremonyGoes, CeremonyEnds, ByHand, ReleaseStays, world, local, Apart
<1>6. CASE RetryTerminal
  BY <1>6, OperatorKeeps DEF RetryTerminal, Apart, Quiet, world, Labels, Bootstrapping, Monitoring
<1>7. CASE BuildEnds \/ Calm
  BY <1>7, ApartKeeps DEF BuildEnds, Calm, Quiet, world, local, Apart
<1> QED
  BY <1>1, <1>2, <1>3, <1>4, <1>5, <1>6, <1>7 DEF Next

(* However many invocations resume the release, wherever they are cut short *)
(* and whatever children they leave behind: no ceremony is started twice,   *)
(* provided nobody resumes an installation that is still under way          *)
(* (interactive-hoodi-release.sh 257-441, interactive-hoodi-resume.py).     *)
THEOREM OnceEachHolds == ASSUME Alone PROVE Spec => []OnceEach
<1>1. ReleaseInv /\ [Next]_vars => ReleaseInv'
  BY ReleaseKeeps
<1>2. ReleaseInv => OnceEach
  BY DEF ReleaseInv, StartedOnce, OnceEach
<1> QED
  BY ReleaseBegins, <1>1, <1>2, PTL DEF Spec

-----------------------------------------------------------------------------
(* The platform bootstrap and its builds.                                   *)
Tasks == {Bootstrap[n] : n \in DOMAIN Bootstrap}
Statuses == {"IN_PROGRESS", "SUCCEEDED", "FAILED"}
BuildTypes == /\ replay = <<>> \/ replay \in [Tasks -> {"new", "intent", "complete"}]
              /\ runners \subseteq {"argocd", "vault"}
              /\ handle \in [Builds -> {"none", "start-intent", "running", "SUCCEEDED", "FAILED"}]
              /\ builds \in [Builds -> Seq(Statuses)]
              /\ pc \in [Procs -> Labels]

(* One invocation works at the platform, one process at its builds.         *)
OneAtWork == /\ \A r, s \in Runs : pc[r] \in Bootstrapping /\ pc[s] \in Bootstrapping => r = s
             /\ \A r, s \in Procs : pc[r] \in Monitoring /\ pc[s] \in Monitoring => r = s
             /\ pc["operator"] \in {"idle"} \cup Monitoring

(* What the replay checkpoint says is done was done, in its order; the      *)
(* runners are there until the builds that need them are over.              *)
Succeeded(k) == handle[k] = "SUCCEEDED" /\ builds[k] # <<>> /\ Latest(k) = "SUCCEEDED"
Complete(k) == replay[k] = "complete"
Recorded == replay # <<>> =>
  /\ \A m, n \in DOMAIN Bootstrap : m < n /\ Complete(Bootstrap[n]) => Complete(Bootstrap[m])
  /\ \A k \in Builds : Complete(k) => Succeeded(k)
  /\ Complete("argocd_apply") /\ ~Complete("vault_build") => "argocd" \in runners
  /\ Complete("vault_apply") /\ ~Complete("vault_build") => "vault" \in runners
  /\ Complete("revoke_complete") => runners = {}

(* Whoever is at work is at the current task; it records what it has done,  *)
(* and starts a build only when the earlier ones have failed.               *)
Effected(k) == /\ k \in Builds => Succeeded(k)
               /\ k = "argocd_apply" => "argocd" \in runners
               /\ k = "vault_apply" => "vault" \in runners
               /\ k = "revoke_complete" => runners = {}
Spent(k) == builds[k] = <<>> \/ Latest(k) = "FAILED"
AtWork(r) ==
  /\ pc[r] \in {"act", "record"} \cup Monitoring => replay # <<>> /\ Incomplete # {}
  /\ pc[r] = "record" => Effected(Current)
  /\ pc[r] \in Monitoring => Current \in Builds
  /\ pc[r] = "launch" => handle[Current] = "start-intent" /\ Spent(Current)
  /\ pc[r] = "handle" => handle[Current] = "start-intent" /\ builds[Current] # <<>>
  /\ pc[r] = "poll" => handle[Current] \notin {"none", "start-intent"}
  /\ pc[r] = "poll" /\ r = "operator" => handle[Current] = "running"
Booted == \A r \in Runs : pc[r] \in Bootstrapping => replay # <<>>

(* The checkpoint of a build never says more than CodeBuild.                *)
Alive(k) == \A n \in DOMAIN builds[k] : /\ n < Len(builds[k]) => builds[k][n] = "FAILED"
                                        /\ builds[k][n] = "IN_PROGRESS" => Project[k] \in runners
Tracked == \A k \in Builds : /\ handle[k] = "none" => builds[k] = <<>>
                             /\ handle[k] = "running" => builds[k] # <<>>
                             /\ handle[k] \in {"SUCCEEDED", "FAILED"} =>
                                  builds[k] # <<>> /\ Latest(k) = handle[k]
                             /\ Alive(k)

BuildInv == /\ BuildTypes /\ OneAtWork /\ Recorded /\ Booted /\ Tracked
            /\ \A r \in Procs : AtWork(r)

(* The tasks: six of them, all different; two are builds.                   *)
LEMMA TaskNames == /\ DOMAIN Bootstrap = 1 .. 6
                   /\ Tasks = {"argocd_apply", "argocd_build", "tls_ready", "vault_apply", "vault_build",
                               "revoke_complete"}
                   /\ Bootstrap[1] = "argocd_apply" /\ Bootstrap[2] = "argocd_build"
                   /\ Bootstrap[3] = "tls_ready" /\ Bootstrap[4] = "vault_apply"
                   /\ Bootstrap[5] = "vault_build" /\ Bootstrap[6] = "revoke_complete"
                   /\ Builds = {"argocd_build", "vault_build"}
                   /\ Project["argocd_build"] = "argocd" /\ Project["vault_build"] = "vault"
<1>1. DOMAIN Bootstrap = 1 .. 6
  BY DEF Bootstrap
<1>2. /\ Bootstrap[1] = "argocd_apply" /\ Bootstrap[2] = "argocd_build"
      /\ Bootstrap[3] = "tls_ready" /\ Bootstrap[4] = "vault_apply"
      /\ Bootstrap[5] = "vault_build" /\ Bootstrap[6] = "revoke_complete"
  BY DEF Bootstrap
<1>3. \A n : n \in 1 .. 6 <=> n \in {1, 2, 3, 4, 5, 6}
  OBVIOUS
<1>4. Tasks = {Bootstrap[n] : n \in {1, 2, 3, 4, 5, 6}}
  BY <1>1, <1>3 DEF Tasks
<1>5. Builds = {"argocd_build", "vault_build"}
  BY DEF Builds, Project
<1>6. Project["argocd_build"] = "argocd" /\ Project["vault_build"] = "vault"
  BY DEF Project
<1> QED
  BY <1>1, <1>2, <1>4, <1>5, <1>6

(* The current task is the first that is not complete.                      *)
LEMMA CurrentTask == ASSUME replay \in [Tasks -> {"new", "intent", "complete"}], Incomplete # {}
                     PROVE  /\ Current \in Tasks /\ ~Complete(Current)
                            /\ \E n \in 1 .. 6 : /\ Current = Bootstrap[n]
                                                 /\ \A m \in 1 .. 6 : m < n => Complete(Bootstrap[m])
<1>1. Incomplete \subseteq 1 .. 6
  BY TaskNames DEF Incomplete
<1>2. \E n \in Incomplete : \A m \in Incomplete : n <= m
  <2>1. CASE 1 \in Incomplete
    BY <1>1, <2>1
  <2>2. CASE 1 \notin Incomplete /\ 2 \in Incomplete
    BY <1>1, <2>2
  <2>3. CASE 1 \notin Incomplete /\ 2 \notin Incomplete /\ 3 \in Incomplete
    BY <1>1, <2>3
  <2>4. CASE 1 \notin Incomplete /\ 2 \notin Incomplete /\ 3 \notin Incomplete /\ 4 \in Incomplete
    BY <1>1, <2>4
  <2>5. CASE 1 \notin Incomplete /\ 2 \notin Incomplete /\ 3 \notin Incomplete /\ 4 \notin Incomplete
    <3>1. Incomplete \subseteq {5, 6}
      BY <1>1, <2>5
    <3>2. CASE 5 \in Incomplete
      BY <3>1, <3>2
    <3>3. CASE Incomplete = {6}
      BY <3>3
    <3> QED
      BY <3>1, <3>2, <3>3
  <2> QED
    BY <1>1, <2>1, <2>2, <2>3, <2>4, <2>5
<1>3. PICK n \in Incomplete : n = CHOOSE k \in Incomplete : \A m \in Incomplete : k <= m
  BY <1>2
<1>4. \A m \in Incomplete : n <= m
  BY <1>2, <1>3
<1>5. Current = Bootstrap[n]
  BY <1>3 DEF Current
<1>6. ~Complete(Bootstrap[n]) /\ \A m \in 1 .. 6 : m < n => Complete(Bootstrap[m])
  BY <1>1, <1>4, TaskNames DEF Incomplete, Complete
<1>7. n \in 1 .. 6
  BY <1>1
<1> QED
  BY <1>5, <1>6, <1>7, TaskNames DEF Tasks

(* A checkpoint that exists is not the empty sequence.                      *)
LEMMA ReplayExists == \A f \in [Tasks -> {"new", "intent", "complete"}] : f # <<>>
<1>1. "tls_ready" \in Tasks
  BY TaskNames
<1>2. DOMAIN <<>> = {}
  OBVIOUS
<1> QED
  BY <1>1, <1>2

(* Where the bootstrap stands, and what is therefore there.                 *)
LEMMA OnTask == ASSUME BuildInv, replay # <<>>, Incomplete # {}
                PROVE  /\ replay \in [Tasks -> {"new", "intent", "complete"}]
                       /\ Current \in Tasks /\ ~Complete(Current) /\ ~Complete("revoke_complete")
                       /\ Current \in Builds => Project[Current] \in runners
                       /\ Current \in Builds => ~Complete("vault_build")
                       /\ Current = "revoke_complete" =>
                            Complete("vault_build") /\ \A k \in Builds : Succeeded(k)
<1>1. replay \in [Tasks -> {"new", "intent", "complete"}]
  BY DEF BuildInv, BuildTypes
<1>2. PICK n \in 1 .. 6 : Current = Bootstrap[n] /\ \A m \in 1 .. 6 : m < n => Complete(Bootstrap[m])
  BY <1>1, CurrentTask
<1>3. Current \in Tasks /\ ~Complete(Current)
  BY <1>1, CurrentTask
<1>4. \A m \in 1 .. 6 : n <= m => ~Complete(Bootstrap[m])
  BY <1>2, <1>3, TaskNames DEF BuildInv, Recorded
<1>5. n \in {1, 2, 3, 4, 5, 6}
  OBVIOUS
<1>6. /\ Current = "argocd_build" => n = 2 /\ Complete("argocd_apply") /\ ~Complete("vault_build")
      /\ Current = "vault_build" => n = 5 /\ Complete("vault_apply") /\ ~Complete("vault_build")
      /\ Current = "revoke_complete" => n = 6 /\ Complete("argocd_build") /\ Complete("vault_build")
      /\ ~Complete("revoke_complete")
  BY <1>2, <1>4, <1>5, TaskNames
<1> QED
  BY <1>1, <1>3, <1>6, TaskNames DEF BuildInv, Recorded

(* The current task stays current until it is recorded.                     *)
LEMMA SameTask == UNCHANGED replay => Incomplete' = Incomplete /\ Current' = Current
<1> SUFFICES ASSUME UNCHANGED replay PROVE Incomplete' = Incomplete /\ Current' = Current
  OBVIOUS
<1>1. Incomplete' = Incomplete
  BY DEF Incomplete
<1> QED
  BY <1>1 DEF Current

LEMMA TaskIntended == ASSUME replay \in [Tasks -> {"new", "intent", "complete"}], Incomplete # {},
                             replay' = [replay EXCEPT ![Current] = "intent"]
                      PROVE  Incomplete' = Incomplete /\ Current' = Current
                             /\ \A k \in Tasks : Complete(k)' <=> Complete(k)
<1>1. Current \in Tasks /\ ~Complete(Current)
  BY CurrentTask
<1>2. \A k \in Tasks : Complete(k)' <=> Complete(k)
  BY <1>1 DEF Complete
<1>3. \A n \in DOMAIN Bootstrap : Bootstrap[n] \in Tasks
  BY DEF Tasks
<1>4. Incomplete' = Incomplete
  BY <1>2, <1>3 DEF Incomplete, Complete
<1> QED
  BY <1>2, <1>4 DEF Current

(* What leaves the platform alone and puts nobody to work.                  *)
LEMMA BuildApart == ASSUME BuildInv, UNCHANGED platform, pc' \in [Procs -> Labels],
                           \A s \in Procs : pc'[s] \in Bootstrapping => pc'[s] = pc[s],
                           pc'["operator"] \in {"idle"} \cup Monitoring
                    PROVE  BuildInv'
<1> USE DEF platform
<1>1. Incomplete' = Incomplete /\ Current' = Current
  BY SameTask
<1>2. BuildTypes'
  BY DEF BuildInv, BuildTypes
<1>3. OneAtWork'
  BY ReleaseAssumption DEF BuildInv, OneAtWork, Runs, Procs, Bootstrapping, Monitoring
<1>4. Recorded' /\ Tracked'
  BY DEF BuildInv, Recorded, Tracked, Complete, Succeeded, Latest, Alive
<1>5. Booted'
  BY DEF BuildInv, Booted, Runs, Procs
<1>6. ASSUME NEW r \in Procs PROVE AtWork(r)'
  <2>1. AtWork(r)
    BY DEF BuildInv
  <2>2. CASE pc'[r] \in Bootstrapping
    BY <1>1, <2>1, <2>2 DEF AtWork, Effected, Succeeded, Spent, Latest
  <2>3. CASE pc'[r] \notin Bootstrapping
    BY <2>3 DEF AtWork, Bootstrapping, Monitoring
  <2> QED
    BY <2>2, <2>3
<1> QED
  BY <1>2, <1>3, <1>4, <1>5, <1>6 DEF BuildInv

(* A process takes its place at the platform when nobody else is there.     *)
LEMMA OneKeeps == ASSUME BuildInv, NEW r \in Procs, NEW l \in Labels, pc' = [pc EXCEPT ![r] = l],
                         r \in Runs /\ l \in Bootstrapping => pc[r] \in Bootstrapping \/ ~Locked,
                         l \in Monitoring => pc[r] \in Monitoring \/ ~Monitored,
                         r = "operator" => l \in {"idle"} \cup Monitoring
                  PROVE  /\ OneAtWork' /\ pc' \in [Procs -> Labels] /\ pc'[r] = l
                         /\ \A s \in Procs \ {r} : pc'[s] = pc[s]
  BY ReleaseAssumption DEF BuildInv, BuildTypes, OneAtWork, Runs, Procs, Locked, Monitored

(* Nobody is at a build while a task is recorded.                           *)
LEMMA RecordAlone == ASSUME BuildInv, NEW r \in Runs, pc[r] = "record", NEW s \in Procs \ {r}
                     PROVE  pc[s] \notin {"act", "record"} \cup Monitoring
<1> USE DEF Bootstrapping, Monitoring
<1>1. ASSUME s \in Runs PROVE pc[s] \notin Bootstrapping
  BY <1>1 DEF BuildInv, OneAtWork
<1>2. ASSUME s = "operator", pc[s] \in Monitoring PROVE FALSE
  <2>1. AtWork(r) /\ AtWork(s)
    BY <1>2 DEF BuildInv, Procs, Runs
  <2>2. Current \in Builds /\ handle[Current] = "SUCCEEDED"
    BY <1>2, <2>1 DEF AtWork, Effected, Succeeded
  <2> QED
    BY <1>2, <2>1, <2>2 DEF AtWork
<1>3. s = "operator" => pc[s] \in {"idle"} \cup Monitoring
  BY DEF BuildInv, OneAtWork
<1> QED
  BY <1>1, <1>2, <1>3 DEF Procs

(* The bootstrap's own steps.                                               *)
LEMMA BootKeeps == ASSUME BuildInv, NEW r \in Runs,
                          BootBegins(r) \/ BootIntent(r) \/ BootRecord(r) \/ BootEnds(r)
                   PROVE  BuildInv'
<1> r \in Procs /\ r # "operator"
  BY ReleaseAssumption DEF Procs, Runs
<1>1. CASE BootBegins(r)
  <2>1. CASE Ends(r) /\ UNCHANGED platform
    <3>1. pc' \in [Procs -> Labels] /\ \A s \in Procs : pc'[s] \in Bootstrapping => pc'[s] = pc[s]
      BY <2>1 DEF Ends, Moves, Home, BuildInv, BuildTypes, Labels, Bootstrapping, Monitoring
    <3>2. pc'["operator"] = pc["operator"]
      BY <2>1 DEF Ends, Moves, BuildInv, BuildTypes, Procs
    <3> QED
      BY <2>1, <3>1, <3>2, BuildApart DEF BuildInv, OneAtWork
  <2>2. CASE /\ ~Locked /\ Stays(r, "boot") /\ UNCHANGED <<runners, handle, builds>>
             /\ replay' = IF replay = <<>> THEN [k \in {Bootstrap[n] : n \in DOMAIN Bootstrap} |-> "new"]
                          ELSE replay
    <3>1. /\ OneAtWork' /\ pc' \in [Procs -> Labels] /\ pc'[r] = "boot"
          /\ \A s \in Procs \ {r} : pc'[s] = pc[s]
      BY <2>2, OneKeeps DEF Stays, Moves, Labels, Bootstrapping, Monitoring
    <3>2. replay' # <<>> /\ BuildTypes'
      BY <2>2, <3>1, ReplayExists DEF BuildInv, BuildTypes, Tasks
    <3>3. Booted' /\ Tracked'
      BY <2>2, <3>2 DEF Booted, BuildInv, Tracked, Alive, Latest
    <3>4. CASE replay # <<>>
      <4>1. UNCHANGED replay /\ Incomplete' = Incomplete /\ Current' = Current
        BY <2>2, <3>4, SameTask
      <4>2. Recorded'
        BY <2>2, <4>1 DEF BuildInv, Recorded, Complete, Succeeded, Latest
      <4>3. ASSUME NEW s \in Procs PROVE AtWork(s)'
        BY <2>2, <3>1, <4>1 DEF BuildInv, AtWork, Effected, Succeeded, Spent, Latest, Monitoring
      <4> QED
        BY <3>1, <3>2, <3>3, <4>2, <4>3 DEF BuildInv
    <3>5. CASE replay = <<>>
      <4>1. \A k \in Tasks : replay'[k] = "new"
        BY <2>2, <3>5 DEF Tasks
      <4>2. Recorded'
        BY <4>1, TaskNames DEF Recorded, Complete
      <4>3. ASSUME NEW s \in Procs PROVE AtWork(s)'
        BY <3>1, <3>5 DEF BuildInv, AtWork, Monitoring
      <4> QED
        BY <3>1, <3>2, <3>3, <4>2, <4>3 DEF BuildInv
    <3> QED
      BY <3>4, <3>5
  <2> QED
    BY <1>1, <2>1, <2>2 DEF BootBegins, platform
<1>2. CASE BootIntent(r)
  <2>1. /\ pc[r] = "boot" /\ Incomplete # {} /\ replay' = [replay EXCEPT ![Current] = "intent"]
        /\ pc' = [pc EXCEPT ![r] = "act"] /\ UNCHANGED <<runners, handle, builds>>
    BY <1>2 DEF BootIntent, Stays, Moves
  <2>2. replay # <<>> /\ replay \in [Tasks -> {"new", "intent", "complete"}] /\ Current \in Tasks
    BY <2>1, CurrentTask DEF BuildInv, Booted, BuildTypes, Bootstrapping
  <2>3. Incomplete' = Incomplete /\ Current' = Current /\ \A k \in Tasks : Complete(k)' <=> Complete(k)
    BY <2>1, <2>2, TaskIntended
  <2>4. /\ OneAtWork' /\ pc' \in [Procs -> Labels] /\ pc'[r] = "act"
        /\ \A s \in Procs \ {r} : pc'[s] = pc[s]
    BY <2>1, OneKeeps DEF Labels, Bootstrapping, Monitoring
  <2>5. replay' \in [Tasks -> {"new", "intent", "complete"}] /\ replay' # <<>>
    BY <2>1, <2>2, ReplayExists
  <2>6. BuildTypes' /\ Booted' /\ Tracked'
    BY <2>1, <2>4, <2>5 DEF BuildInv, BuildTypes, Booted, Tracked, Alive, Latest
  <2>7. Recorded'
    <3>1. \A n \in DOMAIN Bootstrap : Bootstrap[n] \in Tasks
      BY DEF Tasks
    <3> QED
      BY <2>1, <2>2, <2>3, <3>1, TaskNames DEF BuildInv, Recorded, Succeeded, Latest
  <2>8. ASSUME NEW s \in Procs PROVE AtWork(s)'
    BY <2>1, <2>3, <2>4, <2>5 DEF BuildInv, AtWork, Effected, Succeeded, Spent, Latest, Monitoring
  <2> QED
    BY <2>4, <2>6, <2>7, <2>8 DEF BuildInv
<1>3. CASE BootRecord(r)
  <2>1. /\ pc[r] = "record" /\ replay' = [replay EXCEPT ![Current] = "complete"]
        /\ pc' = [pc EXCEPT ![r] = "boot"] /\ UNCHANGED <<runners, handle, builds>>
    BY <1>3 DEF BootRecord, Stays, Moves
  <2>2. replay # <<>> /\ Incomplete # {} /\ Effected(Current)
    BY <2>1 DEF BuildInv, AtWork
  <2>3. /\ replay \in [Tasks -> {"new", "intent", "complete"}] /\ Current \in Tasks
        /\ ~Complete("revoke_complete")
    BY <2>2, OnTask
  <2>4. /\ OneAtWork' /\ pc' \in [Procs -> Labels] /\ pc'[r] = "boot"
        /\ \A s \in Procs \ {r} : pc'[s] = pc[s]
    BY <2>1, OneKeeps DEF Labels, Bootstrapping, Monitoring
  <2>5. replay' \in [Tasks -> {"new", "intent", "complete"}] /\ replay' # <<>>
    BY <2>1, <2>3, ReplayExists
  <2>6. BuildTypes' /\ Booted' /\ Tracked'
    BY <2>1, <2>4, <2>5 DEF BuildInv, BuildTypes, Booted, Tracked, Alive, Latest
  <2>7. Recorded'
    <3>1. \A k \in Tasks : Complete(k)' <=> Complete(k) \/ k = Current
      BY <2>1, <2>3 DEF Complete
    <3>2. PICK n \in 1 .. 6 : Current = Bootstrap[n] /\ \A m \in 1 .. 6 : m < n => Complete(Bootstrap[m])
      BY <2>2, <2>3, CurrentTask
    <3>3. \A m \in 1 .. 6 : Bootstrap[m] \in Tasks /\ (Bootstrap[m] = Bootstrap[n] => m = n)
      BY TaskNames DEF Tasks
    <3>4. \A k, m \in 1 .. 6 : k < m /\ Complete(Bootstrap[m])' => Complete(Bootstrap[k])'
      BY <2>2, <3>1, <3>2, <3>3, TaskNames DEF BuildInv, Recorded
    <3>5. \A k \in Builds : Complete(k)' => Succeeded(k)'
      BY <2>1, <2>2, <3>1, TaskNames DEF BuildInv, Recorded, Effected, Succeeded, Latest
    <3>6. /\ Complete("argocd_apply")' /\ ~Complete("vault_build")' => "argocd" \in runners'
          /\ Complete("vault_apply")' /\ ~Complete("vault_build")' => "vault" \in runners'
          /\ Complete("revoke_complete")' => runners' = {}
      BY <2>1, <2>2, <2>3, <3>1, TaskNames DEF BuildInv, Recorded, Effected
    <3> QED
      BY <3>4, <3>5, <3>6, TaskNames DEF Recorded
  <2>8. ASSUME NEW s \in Procs PROVE AtWork(s)'
    <3>1. pc'[s] \notin {"act", "record"} \cup Monitoring
      BY <2>1, <2>4, RecordAlone DEF Monitoring
    <3> QED
      BY <3>1 DEF AtWork, Monitoring
  <2> QED
    BY <2>4, <2>6, <2>7, <2>8 DEF BuildInv
<1>4. CASE BootEnds(r)
  <2>1. pc' \in [Procs -> Labels] /\ \A s \in Procs : pc'[s] \in Bootstrapping => pc'[s] = pc[s]
    BY <1>4 DEF BootEnds, Returns, Ends, Stays, Moves, Home, BuildInv, BuildTypes, Labels, Bootstrapping,
      Monitoring
  <2>2. pc'["operator"] = pc["operator"]
    BY <1>4 DEF BootEnds, Returns, Ends, Stays, Moves, BuildInv, BuildTypes, Procs
  <2> QED
    BY <1>4, <2>1, <2>2, BuildApart DEF BootEnds, Shell, BuildInv, OneAtWork
<1> QED
  BY <1>1, <1>2, <1>3, <1>4

(* The runners change by the current task only.                             *)
LEMMA RunnersKeep ==
  ASSUME BuildInv, NEW r \in Runs, pc[r] = "act", runners' \in Between(runners, Applied),
         UNCHANGED <<replay, handle, builds>>, OneAtWork', pc' \in [Procs -> Labels],
         \A s \in Procs \ {r} : pc'[s] = pc[s],
         pc'[r] \in Bootstrapping => pc'[r] = "record" /\ Current \notin Builds /\ runners' = Applied
  PROVE  BuildInv'
<1>1. replay # <<>> /\ Incomplete # {} /\ r \in Procs /\ r # "operator"
  BY ReleaseAssumption DEF BuildInv, AtWork, Procs, Runs
<1>2. Incomplete' = Incomplete /\ Current' = Current
  BY SameTask
<1>3. runners' \subseteq {"argocd", "vault"} /\ (Current # "revoke_complete" => runners \subseteq runners')
  BY DEF Between, Applied, BuildInv, BuildTypes
<1>4. BuildTypes' /\ Booted'
  BY <1>1, <1>3 DEF BuildInv, BuildTypes, Booted, Bootstrapping, Procs
<1>5. Recorded'
  BY <1>1, <1>3, OnTask DEF BuildInv, Recorded, Complete, Succeeded, Latest
<1>6. Tracked'
  <2>1. CASE Current # "revoke_complete"
    BY <1>3, <2>1 DEF BuildInv, Tracked, Alive, Latest
  <2>2. CASE Current = "revoke_complete"
    <3>1. ASSUME NEW k \in Builds, NEW n \in DOMAIN builds[k] PROVE builds[k][n] # "IN_PROGRESS"
      <4>1. builds[k] \in Seq(Statuses) /\ Succeeded(k) /\ Alive(k)
        BY <1>1, <2>2, OnTask DEF BuildInv, BuildTypes, Tracked
      <4>2. n < Len(builds[k]) \/ n = Len(builds[k])
        BY <4>1
      <4> QED
        BY <4>1, <4>2 DEF Succeeded, Latest, Alive
    <3> QED
      BY <3>1 DEF BuildInv, Tracked, Alive, Latest
  <2> QED
    BY <2>1, <2>2
<1>7. ASSUME NEW s \in Procs PROVE AtWork(s)'
  <2>1. CASE s = r
    <3>1. CASE pc'[r] \notin Bootstrapping
      BY <2>1, <3>1 DEF AtWork, Bootstrapping, Monitoring
    <3>2. CASE pc'[r] = "record" /\ Current \notin Builds /\ runners' = Applied
      <4>1. Effected(Current)'
        BY <1>2, <3>2 DEF Effected, Applied
      <4> QED
        BY <1>1, <1>2, <2>1, <3>2, <4>1 DEF AtWork, Monitoring
    <3> QED
      BY <3>1, <3>2
  <2>2. CASE s # r
    <3>1. pc[s] # "record"
      BY <1>1, <2>2 DEF BuildInv, OneAtWork, Procs, Bootstrapping, Monitoring
    <3> QED
      BY <1>2, <2>2, <3>1 DEF BuildInv, AtWork, Spent, Latest, Monitoring
  <2> QED
    BY <2>1, <2>2
<1> QED
  BY <1>4, <1>5, <1>6, <1>7 DEF BuildInv

(* A build is added, or the latest one comes to its end.                    *)
LEMMA AppendKnown == ASSUME NEW q \in Seq(Statuses)
                     PROVE  /\ Append(q, "IN_PROGRESS") \in Seq(Statuses)
                            /\ Append(q, "IN_PROGRESS") # <<>>
                            /\ DOMAIN Append(q, "IN_PROGRESS") = 1 .. Len(q) + 1
                            /\ Len(Append(q, "IN_PROGRESS")) = Len(q) + 1
                            /\ \A n \in 1 .. Len(q) : Append(q, "IN_PROGRESS")[n] = q[n]
                            /\ Append(q, "IN_PROGRESS")[Len(q) + 1] = "IN_PROGRESS"
                            /\ DOMAIN q = 1 .. Len(q) /\ Len(q) \in Nat
                            /\ q = <<>> <=> Len(q) = 0
  BY DEF Statuses

LEMMA LaunchKeeps ==
  ASSUME BuildInv, NEW r \in Procs, pc[r] = "launch", builds' = Launched,
         UNCHANGED <<replay, handle, runners>>, OneAtWork', pc' \in [Procs -> Labels],
         \A s \in Procs \ {r} : pc'[s] = pc[s], pc'[r] \notin Bootstrapping \/ pc'[r] = "handle"
  PROVE  BuildInv'
<1>10. PICK k \in Builds : k = Current
  BY DEF BuildInv, AtWork, Monitoring
<1>1. replay # <<>> /\ Incomplete # {} /\ Current = k /\ handle[k] = "start-intent" /\ Spent(k)
  BY <1>10 DEF BuildInv, AtWork, Monitoring
<1>2. Incomplete' = Incomplete /\ Current' = k
  BY <1>1, SameTask
<1>3. /\ builds[k] \in Seq(Statuses) /\ builds'[k] = Append(builds[k], "IN_PROGRESS")
      /\ \A j \in Builds \ {k} : builds'[j] = builds[j]
      /\ builds' \in [Builds -> Seq(Statuses)]
  BY <1>1 DEF BuildInv, BuildTypes, Launched, Statuses
<1>4. BuildTypes' /\ Booted'
  BY <1>3 DEF BuildInv, BuildTypes, Booted, Procs, Bootstrapping, Monitoring
<1>5. Recorded'
  BY <1>1, <1>3, OnTask DEF BuildInv, Recorded, Complete, Succeeded, Latest
<1>6. Project[k] \in runners
  BY <1>1, OnTask
<1>7. Alive(k)'
  <2>1. ASSUME NEW n \in DOMAIN builds'[k] PROVE n < Len(builds'[k]) => builds'[k][n] = "FAILED"
    <3>1. n < Len(builds'[k]) => n \in 1 .. Len(builds[k]) /\ builds'[k][n] = builds[k][n]
      BY <1>3, AppendKnown
    <3>2. n \in 1 .. Len(builds[k]) => builds[k][n] = "FAILED"
      <4>1. n \in 1 .. Len(builds[k]) => n < Len(builds[k]) \/ (n = Len(builds[k]) /\ builds[k] # <<>>)
        BY <1>3, AppendKnown
      <4> QED
        BY <1>1, <1>3, <4>1, AppendKnown DEF BuildInv, Tracked, Alive, Spent, Latest
    <3> QED
      BY <3>1, <3>2
  <2> QED
    BY <1>6, <2>1 DEF Alive
<1>8. Tracked'
  <2>1. ASSUME NEW j \in Builds \ {k} PROVE UNCHANGED <<builds[j], handle[j]>>
    BY <1>3
  <2>2. handle'[k] = "start-intent"
    BY <1>1
  <2> QED
    BY <1>7, <2>1, <2>2 DEF BuildInv, Tracked, Alive, Latest
<1>9. ASSUME NEW s \in Procs PROVE AtWork(s)'
  <2>1. CASE s = r
    <3>1. builds'[k] # <<>>
      BY <1>3, AppendKnown
    <3>2. CASE pc'[r] \notin Bootstrapping
      BY <2>1, <3>2 DEF AtWork, Bootstrapping, Monitoring
    <3>3. CASE pc'[r] = "handle"
      BY <1>1, <1>2, <2>1, <3>1, <3>3 DEF AtWork
    <3> QED
      BY <3>2, <3>3
  <2>2. CASE s # r
    <3>1. pc[s] \notin Monitoring
      BY <2>2 DEF BuildInv, OneAtWork, Monitoring
    <3>2. pc[s] # "record"
      BY <1>1 DEF BuildInv, AtWork, Effected, Succeeded
    <3> QED
      BY <1>2, <2>2, <3>1, <3>2 DEF BuildInv, AtWork, Monitoring
  <2> QED
    BY <2>1, <2>2
<1> QED
  BY <1>4, <1>5, <1>8, <1>9 DEF BuildInv

(* The task at hand, and the builds that are asked for, followed and kept.  *)
LEMMA TaskKeeps == ASSUME BuildInv, NEW r \in Runs, Act(r) \/ BuildIntent(r) \/ BuildFollow(r)
                   PROVE  BuildInv'
<1> r \in Procs /\ r # "operator"
  BY ReleaseAssumption DEF Procs, Runs
<1>1. CASE Act(r)
  <2>1. /\ OneAtWork' /\ pc' \in [Procs -> Labels] /\ pc'[r] = "record"
        /\ \A s \in Procs \ {r} : pc'[s] = pc[s]
    BY <1>1, OneKeeps DEF Act, Stays, Moves, Labels, Bootstrapping, Monitoring
  <2>2. Applied \in Between(runners, Applied)
    BY DEF Between, Applied
  <2> QED
    BY <1>1, <2>1, <2>2, RunnersKeep DEF Act
<1>2. CASE BuildIntent(r)
  <2>1. PICK k \in Builds : k = Current /\ handle[k] = "none" /\ handle' = [handle EXCEPT ![k] = "start-intent"]
    BY <1>2 DEF BuildIntent, Intended
  <2>2. /\ pc[r] = "act" /\ ~Monitored /\ pc' = [pc EXCEPT ![r] = "launch"] /\ UNCHANGED <<replay, runners, builds>>
    BY <1>2 DEF BuildIntent, Stays, Moves
  <2>3. /\ OneAtWork' /\ pc' \in [Procs -> Labels] /\ pc'[r] = "launch"
        /\ \A s \in Procs \ {r} : pc'[s] = pc[s]
    BY <2>2, OneKeeps DEF Labels, Bootstrapping, Monitoring
  <2>4. /\ Incomplete' = Incomplete /\ Current' = k /\ replay # <<>> /\ Incomplete # {} /\ builds[k] = <<>>
        /\ ~Complete(k)
    BY <2>1, <2>2, SameTask, OnTask DEF BuildInv, AtWork, Tracked
  <2>5. BuildTypes' /\ Booted'
    BY <2>1, <2>2, <2>3 DEF BuildInv, BuildTypes, Booted, Bootstrapping, Monitoring
  <2>6. Recorded' /\ Tracked'
    BY <2>1, <2>2, <2>4 DEF BuildInv, BuildTypes, Recorded, Tracked, Complete, Succeeded, Latest, Alive
  <2>7. ASSUME NEW s \in Procs PROVE AtWork(s)'
    <3>1. CASE s = r
      BY <2>1, <2>2, <2>3, <2>4, <3>1 DEF AtWork, Spent, BuildInv, BuildTypes
    <3>2. CASE s # r
      <4>1. pc[s] \notin Monitoring /\ pc[s] # "record"
        BY <2>2, <3>2 DEF Monitored, BuildInv, OneAtWork, Bootstrapping, Monitoring, Procs
      <4> QED
        BY <2>2, <2>3, <2>4, <3>2, <4>1 DEF BuildInv, AtWork, Monitoring
    <3> QED
      BY <3>1, <3>2
  <2> QED
    BY <2>3, <2>5, <2>6, <2>7 DEF BuildInv
<1>3. CASE BuildFollow(r)
  <2>1. CASE Ends(r)
    <3>1. pc' \in [Procs -> Labels] /\ \A s \in Procs : pc'[s] \in Bootstrapping => pc'[s] = pc[s]
      BY <2>1 DEF Ends, Moves, Home, BuildInv, BuildTypes, Labels, Bootstrapping, Monitoring
    <3>2. pc'["operator"] = pc["operator"]
      BY <2>1 DEF Ends, Moves, BuildInv, BuildTypes, Procs
    <3> QED
      BY <1>3, <2>1, <3>1, <3>2, BuildApart DEF BuildFollow, Shell, BuildInv, OneAtWork
  <2>2. CASE ~Monitored /\ handle[Current] \notin {"none", "start-intent"} /\ Stays(r, "poll")
    <3>1. /\ OneAtWork' /\ pc' \in [Procs -> Labels] /\ pc'[r] = "poll"
          /\ \A s \in Procs \ {r} : pc'[s] = pc[s]
      BY <2>2, OneKeeps, <1>3 DEF BuildFollow, Stays, Moves, Labels, Bootstrapping, Monitoring
    <3>2. UNCHANGED platform /\ Current \in Builds /\ pc[r] = "act"
      BY <1>3 DEF BuildFollow, Shell
    <3>3. Incomplete' = Incomplete /\ Current' = Current
      BY <3>2, SameTask DEF platform
    <3>4. BuildTypes' /\ Booted' /\ Recorded' /\ Tracked'
      BY <3>1, <3>2 DEF platform, BuildInv, BuildTypes, Booted, Recorded, Tracked, Complete, Succeeded, Latest,
        Alive, Bootstrapping, Monitoring
    <3>5. ASSUME NEW s \in Procs PROVE AtWork(s)'
      BY <2>2, <3>1, <3>2, <3>3 DEF platform, BuildInv, AtWork, Effected, Succeeded, Spent, Latest, Monitoring
    <3> QED
      BY <3>1, <3>4, <3>5 DEF BuildInv
  <2> QED
    BY <1>3, <2>1, <2>2 DEF BuildFollow
<1> QED
  BY <1>1, <1>2, <1>3

(* Whoever is at a build is alone there: the builds' other users wait.      *)
LEMMA MonitorAlone == ASSUME BuildInv, NEW r \in Procs, pc[r] \in Monitoring, NEW s \in Procs \ {r}
                      PROVE  /\ pc[s] \notin Monitoring
                             /\ handle[Current] \notin {"SUCCEEDED", "FAILED"} \/ r # "operator" => pc[s] # "record"
<1>1. pc[s] \notin Monitoring
  BY DEF BuildInv, OneAtWork
<1>2. ASSUME pc[s] = "record" PROVE r = "operator" /\ handle[Current] = "SUCCEEDED"
  <2>1. AtWork(r) /\ AtWork(s)
    BY DEF BuildInv
  <2>2. handle[Current] = "SUCCEEDED"
    BY <1>2, <2>1 DEF AtWork, Effected, Succeeded
  <2>3. s # "operator"
    BY <1>2 DEF BuildInv, OneAtWork, Monitoring
  <2> QED
    BY <1>2, <2>2, <2>3 DEF BuildInv, OneAtWork, Procs, Bootstrapping, Monitoring
<1> QED
  BY <1>1, <1>2

LEMMA MonitorKeeps == ASSUME BuildInv, NEW r \in Procs, Monitor(r) PROVE BuildInv'
<1>0. PICK k \in Builds : k = Current
  BY DEF Monitor, BuildLaunch, BuildHandle, BuildPoll, BuildInv, AtWork, Monitoring
<1>1. /\ pc[r] \in Monitoring /\ replay # <<>> /\ Incomplete # {} /\ ~Complete(k) /\ AtWork(r)
      /\ builds[k] \in Seq(Statuses) /\ (builds[k] # <<>> => Latest(k) \in Statuses)
  <2>1. pc[r] \in Monitoring /\ replay # <<>> /\ Incomplete # {} /\ AtWork(r)
    BY DEF Monitor, BuildLaunch, BuildHandle, BuildPoll, BuildInv, AtWork, Monitoring
  <2>2. builds[k] \in Seq(Statuses)
    BY DEF BuildInv, BuildTypes
  <2>3. builds[k] # <<>> => Latest(k) \in Statuses
    BY <2>2 DEF Latest
  <2> QED
    BY <1>0, <2>1, <2>2, <2>3, OnTask
<1>2. CASE BuildLaunch(r)
  <2>1. /\ OneAtWork' /\ pc' \in [Procs -> Labels] /\ pc'[r] = "handle"
        /\ \A s \in Procs \ {r} : pc'[s] = pc[s]
    BY <1>2, OneKeeps DEF BuildLaunch, Moves, Labels, Bootstrapping, Monitoring
  <2> QED
    BY <1>2, <2>1, LaunchKeeps DEF BuildLaunch
<1>3. CASE BuildHandle(r)
  <2>1. /\ pc[r] = "handle" /\ handle' = [handle EXCEPT ![k] = "running"] /\ pc' = [pc EXCEPT ![r] = "poll"]
        /\ UNCHANGED <<replay, runners, builds>>
    BY <1>0, <1>3 DEF BuildHandle, Moves
  <2>2. /\ OneAtWork' /\ pc' \in [Procs -> Labels] /\ pc'[r] = "poll"
        /\ \A s \in Procs \ {r} : pc'[s] = pc[s]
    BY <2>1, OneKeeps DEF Labels, Bootstrapping, Monitoring
  <2>3. handle[k] = "start-intent" /\ builds[k] # <<>>
    BY <1>0, <1>1, <2>1 DEF AtWork
  <2>4. Incomplete' = Incomplete /\ Current' = k
    BY <1>0, <2>1, SameTask
  <2>5. BuildTypes' /\ Booted'
    BY <2>1, <2>2 DEF BuildInv, BuildTypes, Booted, Bootstrapping, Monitoring, Procs
  <2>8. handle'[k] = "running" /\ \A j \in Builds \ {k} : handle'[j] = handle[j]
    BY <2>1 DEF BuildInv, BuildTypes
  <2>6. Recorded' /\ Tracked'
    BY <1>1, <2>1, <2>3, <2>8 DEF BuildInv, Recorded, Tracked, Complete, Succeeded, Latest, Alive
  <2>7. ASSUME NEW s \in Procs PROVE AtWork(s)'
    <3>1. CASE s = r
      BY <1>1, <2>1, <2>2, <2>4, <2>8, <3>1 DEF AtWork
    <3>2. CASE s # r
      <4>1. pc[s] \notin Monitoring /\ pc[s] # "record"
        BY <1>0, <1>1, <2>3, <3>2, MonitorAlone
      <4> QED
        BY <1>0, <2>1, <2>2, <2>4, <3>2, <4>1 DEF BuildInv, AtWork, Monitoring
    <3> QED
      BY <3>1, <3>2
  <2> QED
    BY <2>2, <2>5, <2>6, <2>7 DEF BuildInv
<1>4. CASE BuildPoll(r)
  <2>1. /\ pc[r] = "poll" /\ Latest(k) # "IN_PROGRESS" /\ handle' = [handle EXCEPT ![k] = Latest(k)]
        /\ UNCHANGED <<replay, runners, builds>>
    BY <1>0, <1>4 DEF BuildPoll
  <2>2. builds[k] # <<>> /\ (r = "operator" => handle[k] = "running")
    BY <1>0, <1>1, <2>1 DEF AtWork, BuildInv, BuildTypes, Tracked
  <2>3. PICK l \in Labels : /\ pc' = [pc EXCEPT ![r] = l]
                            /\ l \in {"idle", "over", "record"} /\ (r = "operator" => l = "idle")
                            /\ l = "record" => Latest(k) = "SUCCEEDED"
    BY <1>0, <1>4, ReleaseAssumption DEF BuildPoll, Moves, Stays, Ends, Home, Labels, Bootstrapping, Procs, Runs
  <2>4. /\ OneAtWork' /\ pc' \in [Procs -> Labels] /\ pc'[r] = l
        /\ \A s \in Procs \ {r} : pc'[s] = pc[s]
    BY <2>1, <2>3, OneKeeps DEF Labels, Bootstrapping, Monitoring
  <2>5. Incomplete' = Incomplete /\ Current' = k
    BY <1>0, <2>1, SameTask
  <2>6. /\ handle'[k] = Latest(k) /\ Latest(k) \in {"SUCCEEDED", "FAILED"}
        /\ \A j \in Builds \ {k} : handle'[j] = handle[j]
    BY <1>1, <2>1, <2>2 DEF BuildInv, BuildTypes, Statuses
  <2>7. BuildTypes' /\ Booted'
    BY <2>1, <2>3, <2>4, <2>6 DEF BuildInv, BuildTypes, Booted, Bootstrapping, Monitoring, Procs
  <2>8. Recorded' /\ Tracked'
    BY <1>1, <2>1, <2>2, <2>6 DEF BuildInv, Recorded, Tracked, Complete, Succeeded, Latest, Alive
  <2>9. ASSUME NEW s \in Procs PROVE AtWork(s)'
    <3>1. CASE s = r
      <4>1. l = "record" => Effected(k)'
        BY <2>1, <2>2, <2>3, <2>6, TaskNames DEF Effected, Succeeded, Latest
      <4> QED
        BY <1>1, <2>1, <2>3, <2>4, <2>5, <3>1, <4>1 DEF AtWork, Monitoring
    <3>2. CASE s # r
      <4>1. pc[s] \notin Monitoring /\ pc[s] # "record"
        BY <1>0, <1>1, <2>2, <3>2, MonitorAlone
      <4> QED
        BY <1>0, <2>1, <2>4, <2>5, <3>2, <4>1 DEF BuildInv, AtWork, Monitoring
    <3> QED
      BY <3>1, <3>2
  <2> QED
    BY <2>4, <2>7, <2>8, <2>9 DEF BuildInv
<1> QED
  BY <1>2, <1>3, <1>4 DEF Monitor

(* The operator asks for another build.                                     *)
LEMMA RetryKeeps == ASSUME BuildInv, RetryTerminal PROVE BuildInv'
<1>1. PICK k \in Builds : k = Current /\ handle[k] = "FAILED" /\ handle' = [handle EXCEPT ![k] = "start-intent"]
  BY DEF RetryTerminal, Intended
<1>2. /\ ~Monitored /\ pc' = [pc EXCEPT !["operator"] = "launch"] /\ UNCHANGED <<replay, runners, builds>>
      /\ replay # <<>> /\ Incomplete # {}
  BY DEF RetryTerminal, Moves
<1>3. /\ OneAtWork' /\ pc' \in [Procs -> Labels] /\ pc'["operator"] = "launch"
      /\ \A s \in Procs \ {"operator"} : pc'[s] = pc[s]
  BY <1>2, OneKeeps, ReleaseAssumption DEF Labels, Bootstrapping, Monitoring, Procs, Runs
<1>4. Incomplete' = Incomplete /\ Current' = k /\ ~Complete(k) /\ Latest(k) = "FAILED"
  BY <1>1, <1>2, SameTask, OnTask DEF BuildInv, Tracked
<1>5. BuildTypes' /\ Booted'
  BY <1>1, <1>2, <1>3, ReleaseAssumption DEF BuildInv, BuildTypes, Booted, Procs, Runs
<1>8. handle'[k] = "start-intent" /\ \A j \in Builds \ {k} : handle'[j] = handle[j]
  BY <1>1 DEF BuildInv, BuildTypes
<1>6. Recorded' /\ Tracked'
  BY <1>2, <1>4, <1>8 DEF BuildInv, Recorded, Tracked, Complete, Succeeded, Latest, Alive
<1>7. ASSUME NEW s \in Procs PROVE AtWork(s)'
  <2>1. CASE s = "operator"
    BY <1>1, <1>2, <1>3, <1>4, <1>8, <2>1 DEF AtWork, Spent, Latest
  <2>2. CASE s # "operator"
    <3>1. pc[s] \notin Monitoring
      BY <1>2 DEF Monitored
    <3>2. pc[s] # "record"
      BY <1>1 DEF BuildInv, AtWork, Effected, Succeeded
    <3> QED
      BY <1>1, <1>2, <1>3, <1>4, <2>2, <3>1, <3>2 DEF BuildInv, AtWork, Monitoring
  <2> QED
    BY <2>1, <2>2
<1> QED
  BY <1>3, <1>5, <1>6, <1>7 DEF BuildInv

(* A build comes to its end.                                                *)
LEMMA EndKnown == ASSUME NEW q \in Seq(Statuses), q # <<>>, NEW e \in Statuses
                  PROVE  /\ [q EXCEPT ![Len(q)] = e] \in Seq(Statuses) /\ [q EXCEPT ![Len(q)] = e] # <<>>
                         /\ Len([q EXCEPT ![Len(q)] = e]) = Len(q)
                         /\ [q EXCEPT ![Len(q)] = e][Len(q)] = e
                         /\ DOMAIN [q EXCEPT ![Len(q)] = e] = 1 .. Len(q) /\ DOMAIN q = 1 .. Len(q)
                         /\ \A n \in 1 .. Len(q) : n # Len(q) => [q EXCEPT ![Len(q)] = e][n] = q[n]
                         /\ Len(q) \in Nat \ {0}
  BY DEF Statuses

LEMMA BuildEndKeeps == ASSUME BuildInv, BuildEnds PROVE BuildInv'
<1>1. PICK k \in Builds, e \in {"SUCCEEDED", "FAILED"} :
        /\ builds[k] # <<>> /\ Latest(k) = "IN_PROGRESS"
        /\ builds' = [builds EXCEPT ![k][Len(builds[k])] = e]
        /\ UNCHANGED <<replay, runners, handle, pc>>
  BY DEF BuildEnds, local
<1>2. /\ builds[k] \in Seq(Statuses) /\ e \in Statuses
      /\ builds'[k] = [builds[k] EXCEPT ![Len(builds[k])] = e]
      /\ \A j \in Builds \ {k} : builds'[j] = builds[j]
      /\ builds' = [builds EXCEPT ![k] = builds'[k]]
  BY <1>1 DEF BuildInv, BuildTypes, Statuses
<1>3. /\ builds'[k] \in Seq(Statuses) /\ builds'[k] # <<>> /\ Latest(k)' = e
      /\ \A n \in DOMAIN builds'[k] : n < Len(builds'[k]) => builds'[k][n] = "FAILED"
      /\ \A n \in DOMAIN builds'[k] : builds'[k][n] # "IN_PROGRESS"
  <2>1. Alive(k)
    BY DEF BuildInv, Tracked
  <2> QED
    BY <1>1, <1>2, <2>1, EndKnown DEF Alive, Latest
<1>4. Incomplete' = Incomplete /\ Current' = Current
  BY <1>1, SameTask
<1>5. BuildTypes' /\ OneAtWork' /\ Booted'
  BY <1>1, <1>2, <1>3 DEF BuildInv, BuildTypes, OneAtWork, Booted
<1>6. handle[k] \in {"start-intent", "running"}
  BY <1>1 DEF BuildInv, BuildTypes, Tracked
<1>7. Tracked'
  BY <1>1, <1>2, <1>3, <1>6 DEF BuildInv, Tracked, Alive, Latest
<1>8. \A j \in Builds : Succeeded(j) => Succeeded(j)'
  BY <1>1, <1>2 DEF Succeeded, Latest
<1>9. Recorded'
  BY <1>1, <1>8 DEF BuildInv, Recorded, Complete
<1>10. ASSUME NEW s \in Procs PROVE AtWork(s)'
  <2>1. AtWork(s)
    BY DEF BuildInv
  <2>2. pc[s] = "launch" => Spent(Current)'
    <3>1. pc[s] = "launch" => Current \in Builds /\ Current # k
      BY <1>1, <2>1 DEF AtWork, Spent, Latest, Monitoring
    <3> QED
      BY <1>2, <1>4, <2>1, <3>1 DEF AtWork, Spent, Latest
  <2>3. pc[s] = "record" => Effected(Current)'
    BY <1>1, <1>4, <1>8, <2>1 DEF AtWork, Effected
  <2>4. pc[s] = "handle" => builds'[Current] # <<>>
    BY <1>2, <1>3, <2>1 DEF AtWork, Monitoring
  <2> QED
    BY <1>1, <1>4, <2>1, <2>2, <2>3, <2>4 DEF AtWork
<1> QED
  BY <1>5, <1>7, <1>9, <1>10 DEF BuildInv

(* Cut short: what the command under way may still have done.               *)
LEMMA OutcomeKeeps == ASSUME BuildInv, NEW r \in Procs, Outcome(r), UNCHANGED <<replay, handle>>,
                             pc' \in [Procs -> Labels], \A s \in Procs \ {r} : pc'[s] = pc[s],
                             pc'[r] \notin Bootstrapping, r = "operator" => pc'[r] = "idle"
                      PROVE  BuildInv'
<1>1. OneAtWork'
  BY ReleaseAssumption DEF BuildInv, OneAtWork, Runs, Procs, Bootstrapping, Monitoring
<1>2. CASE UNCHANGED platform
  <2>1. \A s \in Procs : pc'[s] \in Bootstrapping => pc'[s] = pc[s]
    OBVIOUS
  <2>2. pc'["operator"] \in {"idle"} \cup Monitoring
    BY <1>1 DEF OneAtWork
  <2> QED
    BY <1>2, <2>1, <2>2, BuildApart
<1>3. CASE pc[r] = "act"
  <2>1. r \in Runs
    BY <1>3 DEF BuildInv, OneAtWork, Procs, Monitoring
  <2>2. runners' \in Between(runners, Applied) /\ UNCHANGED builds
    BY <1>3 DEF Outcome
  <2>3. UNCHANGED <<replay, handle, builds>>
    BY <2>2
  <2> QED
    BY <1>1, <1>3, <2>1, <2>2, <2>3, RunnersKeep
<1>4. CASE pc[r] = "launch" /\ builds' = Launched
  <2>1. UNCHANGED runners
    BY <1>4 DEF Outcome
  <2> QED
    BY <1>1, <1>4, <2>1, LaunchKeeps
<1> QED
  BY <1>2, <1>3, <1>4 DEF Outcome, platform

LEMMA CutKeeps == ASSUME BuildInv, NEW r \in Procs, Exit(r) \/ (r \in Runs /\ Kill(r)) PROVE BuildInv'
<1> "operator" \in Procs /\ "operator" \notin Runs /\ (r # "operator" => r \in Runs)
  BY ReleaseAssumption DEF Procs, Runs
<1>1. CASE /\ r \in Runs /\ pc' = [pc EXCEPT ![r] = Home(r)] /\ Outcome(r) /\ UNCHANGED <<replay, handle>>
  BY <1>1, OutcomeKeeps DEF Home, BuildInv, BuildTypes, Labels, Bootstrapping, Monitoring
<1>2. CASE /\ r = "operator" /\ pc' = [pc EXCEPT ![r] = "idle"] /\ Outcome(r) /\ UNCHANGED <<replay, handle>>
  BY <1>2, OutcomeKeeps DEF BuildInv, BuildTypes, Labels, Bootstrapping, Monitoring
<1>3. CASE UNCHANGED <<pc, platform>>
  BY <1>3, BuildApart DEF BuildInv, BuildTypes, OneAtWork
<1> QED
  BY <1>1, <1>2, <1>3 DEF Exit, Kill, Ends, Moves, platform

(* Everything else an invocation does.                                      *)
LEMMA ElsewhereKeeps ==
  ASSUME BuildInv, NEW r \in Runs,
         \/ r \in Resumes /\ (Resume(r) \/ Enter(r))
         \/ Step(r) \/ LookAdvance(r) \/ LookBind(r) \/ LookPrepare(r) \/ Write(r)
         \/ Perform(r) \/ Attempt(r) \/ Effect(r) \/ Prove(r) \/ VaultReturns(r)
  PROVE  BuildInv'
<1> DEFINE Off == Labels \ Bootstrapping
<1> r \in Procs /\ "operator" \in Procs \ {r}
  BY ReleaseAssumption DEF Procs, Runs
<1>1. UNCHANGED platform
  BY DEF Resume, Enter, Step, LookAdvance, LookBind, LookPrepare, Write, Perform, Attempt, Effect, Prove,
    VaultReturns, Shell, Quiet
<1>2. \E l \in Off : pc' = [pc EXCEPT ![r] = l]
  <2>1. \A l \in Asks(r) : l \in Off
    BY DEF Asks, Reconcile, Labels, Bootstrapping, Monitoring
  <2>2. Home(r) \in Off
    BY DEF Home, Labels, Bootstrapping, Monitoring
  <2>3. CASE (r \in Resumes /\ (Resume(r) \/ Enter(r))) \/ Step(r) \/ LookAdvance(r) \/ LookBind(r) \/ LookPrepare(r)
    BY <2>1, <2>2, <2>3 DEF Resume, Enter, Step, LookAdvance, LookBind, LookPrepare, Ends, Stays, Writes, Moves,
      Labels, Bootstrapping, Monitoring
  <2>4. CASE Write(r)
    BY <2>2, <2>4 DEF Write, Landing, Ends, Moves, Labels, Bootstrapping, Monitoring
  <2>5. CASE Perform(r) \/ Attempt(r) \/ Effect(r) \/ Prove(r) \/ VaultReturns(r)
    BY <2>2, <2>5 DEF Perform, Attempt, Effect, Prove, VaultReturns, Returns, Ends, Stays, Moves, Labels,
      Bootstrapping, Monitoring
  <2> QED
    BY <2>3, <2>4, <2>5
<1>3. /\ pc' \in [Procs -> Labels] /\ pc'["operator"] = pc["operator"]
      /\ \A s \in Procs : pc'[s] \in Bootstrapping => pc'[s] = pc[s]
  BY <1>2 DEF BuildInv, BuildTypes
<1> QED
  BY <1>1, <1>3, BuildApart DEF BuildInv, OneAtWork

LEMMA BuildKeeps == BuildInv /\ [Next]_vars => BuildInv'
<1> SUFFICES ASSUME BuildInv, [Next]_vars PROVE BuildInv'
  OBVIOUS
<1>1. CASE UNCHANGED <<pc, platform>>
  BY <1>1, BuildApart DEF BuildInv, BuildTypes, OneAtWork
<1>2. CASE UNCHANGED vars
  BY <1>1, <1>2 DEF vars, local
<1>3. CASE \E i \in Ceremony : CeremonyGoes(i) \/ CeremonyEnds(i) \/ ByHand(i)
  BY <1>1, <1>3 DEF CeremonyGoes, CeremonyEnds, ByHand, ReleaseStays, local
<1>4. ASSUME NEW r \in Resumes, Resume(r) \/ Enter(r) PROVE BuildInv'
  BY <1>4, ElsewhereKeeps DEF Runs
<1>5. ASSUME NEW r \in Runs, Invocation(r) \/ Kill(r) PROVE BuildInv'
  BY <1>5, ElsewhereKeeps, BootKeeps, TaskKeeps, CutKeeps DEF Invocation, Procs
<1>6. ASSUME NEW r \in Procs, Monitor(r) \/ Exit(r) PROVE BuildInv'
  BY <1>6, MonitorKeeps, CutKeeps
<1>7. CASE RetryTerminal \/ BuildEnds
  BY <1>7, RetryKeeps, BuildEndKeeps
<1>8. CASE Calm
  BY <1>1, <1>8 DEF Calm, local
<1> QED
  BY <1>2, <1>3, <1>4, <1>5, <1>6, <1>7, <1>8 DEF Next

LEMMA BuildBegins == Init => BuildInv
<1> SUFFICES ASSUME Init PROVE BuildInv
  OBVIOUS
<1> USE ReleaseAssumption DEF Init, Runs, Procs
<1>1. /\ pc \in [Procs -> Labels] /\ \A r \in Procs : pc[r] \notin Bootstrapping
      /\ pc["operator"] = "idle"
  BY DEF Labels, Bootstrapping, Monitoring
<1>2. BuildTypes
  BY <1>1 DEF BuildTypes
<1>3. OneAtWork /\ Recorded /\ Booted
  BY <1>1 DEF OneAtWork, Recorded, Booted, Bootstrapping, Monitoring
<1>4. Tracked
  BY DEF Tracked, Alive
<1>5. \A r \in Procs : AtWork(r)
  BY <1>1 DEF AtWork, Bootstrapping, Monitoring
<1> QED
  BY <1>2, <1>3, <1>4, <1>5 DEF BuildInv

LEMMA BuildInvariant == Spec => []BuildInv
  BY BuildBegins, BuildKeeps, PTL DEF Spec

(* One build at a time for a project, started when all earlier ones had     *)
(* failed, and its runner stays until it is over: whoever exits, is killed  *)
(* or is resumed at the same time (platform_bootstrap_build.py).            *)
THEOREM OneLiveBuildHolds == Spec => []OneLiveBuild
<1>1. BuildInv => OneLiveBuild
  BY DEF BuildInv, Tracked, Alive, OneLiveBuild
<1> QED
  BY BuildInvariant, <1>1, PTL

-----------------------------------------------------------------------------
(* What a phase stands for once the receipt has left it behind.             *)
PlatformDone == replay # <<>> /\ Incomplete = {}
Earned(p) == /\ p \in Repeatable => p \in done
             /\ p = "platform-started" => PlatformDone
             /\ p = "vault-started" => configured
             /\ \A c \in Prepared : p = Started[c] => c \in done
Behind(q) == \A p \in Phase : Index[p] < Index[q] => Earned(p)

(* What an invocation has seen to before it advances or writes, and where   *)
(* it may be.                                                               *)
AtCeremony(r) == \E c \in Prepared : at[r] = Started[c]
Fine(r) ==
  /\ pc[r] \in {"advance", "prepare", "write"} => at[r] # "complete"
  /\ pc[r] = "prepare" => Coming(at[r]) \subseteq Prepared
  /\ pc[r] = "bind" => at[r] = "platform-complete"
  /\ pc[r] \in {"effect", "proof"} => AtCeremony(r)
  /\ pc[r] = "vault" => at[r] = "vault-started"
  /\ pc[r] \in Bootstrapping => at[r] = "platform-started"
  /\ pc[r] = "write" => Behind(copy[r].phase) /\ (copy[r].phase = at[r] => Coming(at[r]) # {})
  /\ pc[r] = "advance" => Earned(at[r]) \/ AtCeremony(r)
  /\ pc[r] = "proof" => Unknown(at[r]) \subseteq done

TruthTypes == /\ ReceiptTypes /\ calm \in BOOLEAN
              /\ done \subseteq Phase \cup Ceremonies /\ proofs \subseteq Prepared
TruthInv == /\ TruthTypes /\ Behind(receipt.phase) /\ proofs \subseteq done
            /\ \A r \in Runs : Fine(r)

(* The four ceremonies' phases and what comes before them, by name.         *)
LEMMA CeremonyNames == /\ Ceremonies = {"vault", "audit", "custody", "activation"}
                       /\ Prepared = {"audit", "custody", "activation"}
                       /\ Started["vault"] = "vault-started" /\ Started["audit"] = "audit-started"
                       /\ Started["custody"] = "custody-started" /\ Started["activation"] = "activation-started"
  BY DEF Ceremonies, Prepared, Started

LEMMA ComingPhases == ASSUME NEW p \in Phase, Coming(p) # {}
                      PROVE  p \in {"platform-complete", "collector-complete", "audit-complete", "activation-pending"}
<1>1. p # "complete" /\ \E c \in Ceremonies : Started[c] = Successor(p)
  BY DEF Coming
<1>2. Index[p] \in 1 .. 17 /\ Lifecycle[Index[p]] = p
  BY <1>1, PhaseIndex, PhaseNames
<1>3. Lifecycle[Index[p] + 1] \in {"vault-started", "audit-started", "custody-started", "activation-started"}
  BY <1>1, CeremonyNames DEF Successor
<1>4. /\ Lifecycle[6] = "vault-started" /\ Lifecycle[9] = "audit-started"
      /\ Lifecycle[11] = "custody-started" /\ Lifecycle[15] = "activation-started"
      /\ Lifecycle[5] = "platform-complete" /\ Lifecycle[8] = "collector-complete"
      /\ Lifecycle[10] = "audit-complete" /\ Lifecycle[14] = "activation-pending"
  BY DEF Lifecycle
<1>5. Index[p] + 1 \in 1 .. 18
  BY <1>2
<1>6. Index[p] + 1 \in {6, 9, 11, 15}
  BY <1>3, <1>4, <1>5, PhaseNames
<1>7. Index[p] \in {5, 8, 10, 14}
  BY <1>2, <1>6
<1> QED
  BY <1>2, <1>4, <1>7

(* In these nothing has to be done.                                         *)
LEMMA Idle == \A p : p \in {"none", "infrastructure-complete", "activated", "platform-complete", "collector-complete",
                            "audit-complete", "activation-pending"} => Earned(p)
  BY CeremonyNames DEF Earned, Repeatable

LEMMA ComingEarned == \A p \in Phase : Coming(p) # {} => Earned(p)
  BY ComingPhases, Idle

(* What was earned stays earned.                                            *)
Grows == done \subseteq done' /\ (configured => configured') /\ (PlatformDone => PlatformDone')

LEMMA EarnedKeeps == ASSUME Grows, NEW p, Earned(p) PROVE Earned(p)'
  BY DEF Grows, Earned

LEMMA BehindKeeps == ASSUME Grows, NEW q, Behind(q) PROVE Behind(q)'
  BY EarnedKeeps DEF Behind

LEMMA FineKeeps == ASSUME Grows, NEW r \in Runs, Fine(r), pc'[r] = pc[r], at'[r] = at[r], copy'[r] = copy[r]
                   PROVE  Fine(r)'
<1>1. PICK p, q : p = at[r] /\ q = copy[r].phase
  OBVIOUS
<1>2. pc[r] = "advance" => Earned(p)' \/ AtCeremony(r)
  BY <1>1, EarnedKeeps DEF Fine
<1>3. pc[r] = "write" => Behind(q)' /\ (q = p => Coming(p) # {})
  BY <1>1, BehindKeeps DEF Fine
<1>4. Unknown(p) \subseteq done => Unknown(p) \subseteq done'
  BY DEF Grows
<1> QED
  BY <1>1, <1>2, <1>3, <1>4 DEF Fine, AtCeremony

(* Nothing that was earned is lost.                                         *)
LEMMA ConfiguredGrows == [Next]_vars => (configured => configured')
<1>2. ASSUME NEW i \in Ceremony, Begin(i) \/ CeremonyStep(i) \/ CeremonyExit(i) \/ CeremonyKill(i)
      PROVE  configured => configured'
  BY <1>2 DEF Begin, CeremonyStep, CeremonyExit, CeremonyKill, LookInitialized, LookNew, Initialize, InitializeRefused,
    Parse, Deliver, Acknowledge, Discard, Generate, Quorum, SharesRefused, Configure, Revoke, Cancel, CancelFails, Remove, Mark,
    vault, disk
<1>3. UNCHANGED ceremony => UNCHANGED configured
  BY DEF ceremony, vault
<1> QED
  BY <1>2, <1>3, ReleaseStepsCeremony DEF CeremonyNext

LEMMA DoneGrows == [Next]_vars => done \subseteq done'
<1> SUFFICES ASSUME [Next]_vars PROVE done \subseteq done'
  OBVIOUS
<1> USE DEF Quiet, Shell, world
<1>1. CASE UNCHANGED vars
  BY <1>1 DEF vars
<1>2. ASSUME NEW r \in Resumes, Resume(r) \/ Enter(r) PROVE done \subseteq done'
  BY <1>2 DEF Resume, Enter
<1>3. ASSUME NEW r \in Runs, Invocation(r) PROVE done \subseteq done'
  <2>1. CASE Step(r) \/ LookAdvance(r) \/ LookBind(r) \/ LookPrepare(r) \/ Write(r)
    BY <2>1 DEF Step, LookAdvance, LookBind, LookPrepare, Write
  <2>2. CASE Perform(r) \/ Attempt(r) \/ Effect(r) \/ Prove(r) \/ VaultReturns(r)
    BY <2>2 DEF Perform, Attempt, Effect, Prove, VaultReturns
  <2>3. CASE BootBegins(r) \/ BootIntent(r) \/ Act(r) \/ BootRecord(r) \/ BootEnds(r)
    BY <2>3 DEF BootBegins, BootIntent, Act, BootRecord, BootEnds
  <2>4. CASE BuildIntent(r) \/ BuildFollow(r)
    BY <2>4 DEF BuildIntent, BuildFollow
  <2> QED
    BY <1>3, <2>1, <2>2, <2>3, <2>4 DEF Invocation
<1>4. ASSUME NEW r \in Procs, Monitor(r) \/ Exit(r) \/ Kill(r) PROVE done \subseteq done'
  BY <1>4 DEF Monitor, BuildLaunch, BuildHandle, BuildPoll, Exit, Kill, Outcome
<1>5. CASE RetryTerminal \/ BuildEnds \/ Calm \/ \E i \in Ceremony : CeremonyGoes(i) \/ CeremonyEnds(i) \/ ByHand(i)
  BY <1>5 DEF RetryTerminal, BuildEnds, Calm, CeremonyGoes, CeremonyEnds, ByHand, ReleaseStays
<1> QED
  BY <1>1, <1>2, <1>3, <1>4, <1>5 DEF Next, Procs

LEMMA PlatformGrows == BuildInv /\ [Next]_vars => (PlatformDone => PlatformDone')
<1> SUFFICES ASSUME BuildInv, [Next]_vars, PlatformDone PROVE PlatformDone'
  OBVIOUS
<1>1. UNCHANGED replay => PlatformDone'
  BY SameTask DEF PlatformDone
<1> USE DEF Quiet, Shell, platform
<1>2. CASE UNCHANGED vars
  BY <1>1, <1>2 DEF vars
<1>3. ASSUME NEW r \in Resumes, Resume(r) \/ Enter(r) PROVE UNCHANGED replay
  BY <1>3 DEF Resume, Enter
<1>4. ASSUME NEW r \in Runs, Invocation(r) PROVE UNCHANGED replay
  <2>1. CASE Step(r) \/ LookAdvance(r) \/ LookBind(r) \/ LookPrepare(r) \/ Write(r)
    BY <2>1 DEF Step, LookAdvance, LookBind, LookPrepare, Write
  <2>2. CASE Perform(r) \/ Attempt(r) \/ Effect(r) \/ Prove(r) \/ VaultReturns(r)
    BY <2>2 DEF Perform, Attempt, Effect, Prove, VaultReturns
  <2>3. CASE BootBegins(r) \/ BootIntent(r) \/ Act(r) \/ BootEnds(r)
    BY <2>3 DEF BootBegins, BootIntent, Act, BootEnds, PlatformDone
  <2>4. ~BootRecord(r)
    <3>1. pc[r] # "record"
      BY DEF BuildInv, AtWork, PlatformDone, Procs
    <3> QED
      BY <3>1 DEF BootRecord
  <2>5. CASE BuildIntent(r) \/ BuildFollow(r)
    BY <2>5 DEF BuildIntent, BuildFollow
  <2> QED
    BY <1>4, <2>1, <2>2, <2>3, <2>4, <2>5 DEF Invocation
<1>5. ASSUME NEW r \in Procs, Monitor(r) \/ Exit(r) \/ Kill(r) PROVE UNCHANGED replay
  BY <1>5 DEF Monitor, BuildLaunch, BuildHandle, BuildPoll, Exit, Kill
<1>6. CASE RetryTerminal \/ BuildEnds \/ Calm \/ \E i \in Ceremony : CeremonyGoes(i) \/ CeremonyEnds(i) \/ ByHand(i)
  BY <1>1, <1>6 DEF RetryTerminal, BuildEnds, Calm, CeremonyGoes, CeremonyEnds, ByHand, ReleaseStays
<1> QED
  BY <1>1, <1>2, <1>3, <1>4, <1>5, <1>6 DEF Next, Procs

LEMMA AlwaysGrows == BuildInv /\ [Next]_vars => Grows
  BY ConfiguredGrows, DoneGrows, PlatformGrows DEF Grows

-----------------------------------------------------------------------------
(* One invocation moves, what was earned stays.                             *)
LEMMA TruthMoves == ASSUME TruthInv, Grows, TruthTypes', proofs' \subseteq done', Behind(receipt.phase)',
                           NEW r \in Runs, Fine(r)',
                           \A s \in Runs \ {r} : pc'[s] = pc[s] /\ at'[s] = at[s] /\ copy'[s] = copy[s]
                    PROVE  TruthInv'
<1>1. ASSUME NEW s \in Runs \ {r} PROVE Fine(s)'
  BY FineKeeps DEF TruthInv
<1> QED
  BY <1>1 DEF TruthInv

(* The receipt stays; what else may be added.                               *)
Credits == /\ Grows /\ UNCHANGED receipt /\ stale' \in BOOLEAN /\ calm' \in BOOLEAN
           /\ attempts' \in [Ceremonies -> 0 .. 2]
           /\ done' \subseteq Phase \cup Ceremonies /\ proofs' \subseteq Prepared /\ proofs' \subseteq done'

LEMMA ReceiptStays == ASSUME TruthInv, Grows, UNCHANGED receipt PROVE Behind(receipt.phase)'
<1>1. PICK q : q = receipt.phase
  OBVIOUS
<1> QED
  BY <1>1, BehindKeeps DEF TruthInv

(* It ends.                                                                 *)
LEMMA TruthLeaves == ASSUME TruthInv, Credits, NEW r \in Runs, pc' = [pc EXCEPT ![r] = Home(r)],
                            at' = [at EXCEPT ![r] = "none"], copy' = [copy EXCEPT ![r] = Blank],
                            orphan' \subseteq orphan, lock' \subseteq lock
                     PROVE  TruthInv'
<1> USE DEF Credits
<1>1. r \in Procs /\ Home(r) \in {"idle", "over"} /\ Blank \in Receipts /\ "none" \in Phase
  BY PhasesNamed DEF Procs, Home, Blank, Receipts
<1>2. TruthTypes'
  BY <1>1 DEF TruthInv, TruthTypes, ReceiptTypes, Labels
<1>3. /\ pc'[r] \in {"idle", "over"}
      /\ \A s \in Runs \ {r} : pc'[s] = pc[s] /\ at'[s] = at[s] /\ copy'[s] = copy[s]
  BY <1>1 DEF TruthInv, TruthTypes, ReceiptTypes, Procs
<1>4. Fine(r)'
  BY <1>3 DEF Fine, Bootstrapping, Monitoring
<1>5. Behind(receipt.phase)'
  BY ReceiptStays
<1> QED
  BY <1>2, <1>3, <1>4, <1>5, TruthMoves

LEMMA TruthEnds == ASSUME TruthInv, Credits, NEW r \in Runs, Ends(r) PROVE TruthInv'
  BY TruthLeaves DEF Ends, Moves

(* It goes on in the same phase, to what suits it.                          *)
Suits(r, l) ==
  /\ l \in Labels \ {"write"}
  /\ l \in {"advance", "prepare"} => at[r] # "complete"
  /\ l = "prepare" => Coming(at[r]) \subseteq Prepared
  /\ l = "bind" => at[r] = "platform-complete"
  /\ l \in {"effect", "proof"} => AtCeremony(r)
  /\ l = "vault" => at[r] = "vault-started"
  /\ l \in Bootstrapping => at[r] = "platform-started"

LEMMA TruthStays == ASSUME TruthInv, Credits, NEW r \in Runs, NEW l, pc' = [pc EXCEPT ![r] = l], Suits(r, l),
                           NEW p, p = at[r], l = "advance" => Earned(p)' \/ AtCeremony(r),
                           l = "proof" => Unknown(p) \subseteq done', UNCHANGED <<lock, at, copy, orphan>>
                    PROVE  TruthInv'
<1> USE DEF Credits
<1>1. r \in Procs
  BY DEF Procs
<1>2. TruthTypes'
  BY <1>1 DEF TruthInv, TruthTypes, ReceiptTypes, Suits
<1>3. pc'[r] = l /\ \A s \in Runs \ {r} : pc'[s] = pc[s] /\ at'[s] = at[s] /\ copy'[s] = copy[s]
  BY <1>1 DEF TruthInv, TruthTypes, ReceiptTypes, Procs
<1>4. Fine(r)'
  BY <1>3 DEF Fine, AtCeremony, Suits
<1>5. Behind(receipt.phase)'
  BY ReceiptStays
<1> QED
  BY <1>2, <1>3, <1>4, <1>5, TruthMoves

(* Nobody moves.                                                            *)
LEMMA TruthRests == ASSUME TruthInv, Credits, pc' \in [Procs -> Labels], \A s \in Runs : pc'[s] = pc[s],
                           UNCHANGED <<lock, at, copy>>, orphan' \subseteq Runs
                    PROVE  TruthInv'
<1> USE DEF Credits
<1>1. TruthTypes'
  BY DEF TruthInv, TruthTypes, ReceiptTypes
<1>2. ASSUME NEW s \in Runs PROVE Fine(s)'
  BY FineKeeps DEF TruthInv
<1>3. Behind(receipt.phase)'
  BY ReceiptStays
<1> QED
  BY <1>1, <1>2, <1>3 DEF TruthInv

(* It builds a new receipt from the one it has read.                        *)
LEMMA TruthWrites == ASSUME TruthInv, Credits, NEW r \in Runs, NEW new \in Receipts, Writes(r, new), at[r] # "complete",
                            Behind(new.phase)', new.phase = at[r] => Coming(at[r]) # {}
                     PROVE  TruthInv'
<1> USE DEF Credits
<1>1. r \in Procs
  BY DEF Procs
<1>2. TruthTypes'
  BY <1>1 DEF Writes, Moves, TruthInv, TruthTypes, ReceiptTypes, Labels
<1>3. /\ pc'[r] = "write" /\ copy'[r] = new /\ at'[r] = at[r]
      /\ \A s \in Runs \ {r} : pc'[s] = pc[s] /\ at'[s] = at[s] /\ copy'[s] = copy[s]
  BY <1>1 DEF Writes, Moves, TruthInv, TruthTypes, ReceiptTypes, Procs
<1>4. Fine(r)'
  BY <1>3 DEF Fine, Bootstrapping, Monitoring
<1>5. Behind(receipt.phase)'
  BY ReceiptStays
<1> QED
  BY <1>2, <1>3, <1>4, <1>5, TruthMoves

-----------------------------------------------------------------------------
LEMMA PhaseList == Phase = {"none", "infrastructure", "infrastructure-complete", "platform-started",
  "platform-complete", "vault-started", "vault-complete", "collector-complete", "audit-started",
  "audit-complete", "custody-started", "custody-complete", "runtime-complete",
  "activation-pending", "activation-started", "activated", "observing", "complete"}
<1>1. \A n : n \in 1 .. 18 <=> n \in {1, 2, 3, 4, 5, 6, 7, 8, 9, 10, 11, 12, 13, 14, 15, 16, 17, 18}
  OBVIOUS
<1>2. Phase = {Lifecycle[n] : n \in {1, 2, 3, 4, 5, 6, 7, 8, 9, 10, 11, 12, 13, 14, 15, 16, 17, 18}}
  BY <1>1, PhaseIndex, PhaseNames
<1> QED
  BY <1>2 DEF Lifecycle

(* What is behind the next phase.                                           *)
LEMMA BehindNext == ASSUME NEW p \in Phase \ {"complete"}, Behind(p), Earned(p) PROVE Behind(Successor(p))
<1>1. ASSUME NEW q \in Phase, Index[q] < Index[Successor(p)] PROVE Earned(q)
  <2>1. Index[Successor(p)] = Index[p] + 1 /\ Index[p] \in Nat /\ Index[q] \in Nat
    BY PhaseOrder, PhaseIndex
  <2>2. Index[q] < Index[p] \/ Index[q] = Index[p]
    BY <1>1, <2>1
  <2>3. Index[q] = Index[p] => q = p
    BY PhaseIndex
  <2> QED
    BY <2>2, <2>3 DEF Behind
<1> QED
  BY <1>1 DEF Behind

(* A ceremony whose receipt is there was done.                              *)
LEMMA CeremonyEarned == ASSUME NEW c \in Prepared, c \in done PROVE Earned(Started[c])
  BY CeremonyNames DEF Earned, Repeatable

(* What the phase asks for suits the invocation.                            *)
LEMMA AsksWell == ASSUME TruthInv, ConfiguredTrue, NEW r \in Runs, NEW l \in Asks(r), NEW p, p = at[r]
                  PROVE  /\ Suits(r, l) /\ l \notin {"proof", "write"}
                         /\ l = "advance" => Earned(p) \/ AtCeremony(r)
<1>1. p \in Phase
  BY DEF TruthInv, TruthTypes, ReceiptTypes
<1>2. l \in {"advance", "work", "bind", "prepare"}
  BY DEF Asks, Reconcile
<1>3. l = "bind" => p = "platform-complete"
  BY DEF Asks, Reconcile
<1>4. l = "prepare" => Coming(p) # {} /\ Coming(p) \subseteq Prepared
  BY DEF Asks, Reconcile
<1>5. ASSUME l = "advance" PROVE p # "complete" /\ (Earned(p) \/ AtCeremony(r))
  <2>1. CASE p \in {"none", "infrastructure-complete", "activated"}
    BY <2>1, Idle
  <2>2. p \notin Repeatable \cup {"complete", "platform-started"}
    <3>1. CASE p \in Repeatable \cup {"complete"}
      <4>1. /\ p \notin {"none", "infrastructure-complete", "activated", "platform-started", "platform-complete"}
            /\ Coming(p) = {}
        BY <1>1, <3>1, ComingPhases DEF Repeatable
      <4>2. Asks(r) = {"work"}
        BY <3>1, <4>1 DEF Asks
      <4> QED
        BY <1>5, <4>2
    <3>2. CASE p = "platform-started"
      <4>1. p \notin Repeatable \cup {"complete"} /\ Coming(p) = {}
        BY <1>1, <3>2, ComingPhases DEF Repeatable
      <4>2. Asks(r) \subseteq {"work"}
        BY <3>2, <4>1 DEF Asks
      <4> QED
        BY <1>5, <4>2
    <3> QED
      BY <3>1, <3>2
  <2>3. CASE Coming(p) # {}
    BY <1>1, <2>2, <2>3, ComingEarned
  <2>4. CASE p = "platform-complete"
    BY <2>4, Idle
  <2>5. CASE /\ p \notin {"none", "infrastructure-complete", "activated"} /\ Coming(p) = {}
             /\ p # "platform-complete"
    <3>1. Asks(r) = Reconcile(p)
      BY <2>2, <2>5 DEF Asks
    <3>2. p \in {"vault-started", "audit-started", "custody-started", "activation-started"}
      <4>1. /\ Coming("collector-complete") # {} /\ Coming("audit-complete") # {}
            /\ Coming("activation-pending") # {}
        <5>1. /\ Successor("collector-complete") = "audit-started"
              /\ Successor("audit-complete") = "custody-started"
              /\ Successor("activation-pending") = "activation-started"
          <6>1. /\ Lifecycle[8] = "collector-complete" /\ Lifecycle[10] = "audit-complete"
                /\ Lifecycle[14] = "activation-pending" /\ Lifecycle[9] = "audit-started"
                /\ Lifecycle[11] = "custody-started" /\ Lifecycle[15] = "activation-started"
            BY DEF Lifecycle
          <6>2. /\ Index["collector-complete"] = 8 /\ Index["audit-complete"] = 10
                /\ Index["activation-pending"] = 14
            BY <6>1, PhaseIndex, PhaseNames, PhaseList
          <6> QED
            BY <6>1, <6>2 DEF Successor
        <5> QED
          BY <5>1, CeremonyNames DEF Coming
      <4> QED
        BY <1>1, <2>2, <2>5, <4>1, PhaseList DEF Repeatable
    <3>3. p = "vault-started" => configured
      <4>1. "vault" \in Unknown("vault-started")
        BY CeremonyNames DEF Unknown
      <4> QED
        BY <3>1, <4>1 DEF Reconcile, ConfiguredTrue
    <3>4. p = "vault-started" => Earned(p)
      BY <3>3, CeremonyNames DEF Earned, Repeatable
    <3>5. p # "vault-started" => AtCeremony(r)
      BY <3>2, CeremonyNames DEF AtCeremony
    <3> QED
      BY <3>2, <3>4, <3>5
  <2> QED
    BY <2>1, <2>2, <2>3, <2>4, <2>5
<1>6. Coming("complete") = {}
  BY DEF Coming
<1> QED
  BY <1>2, <1>3, <1>4, <1>5, <1>6 DEF Suits, Labels, Bootstrapping, Monitoring

-----------------------------------------------------------------------------
(* An operator resumes.                                                     *)
LEMMA TruthEnters == ASSUME TruthInv, Grows, NEW r \in Resumes, Resume(r) \/ Enter(r) PROVE TruthInv'
<1>1. Credits /\ r \in Runs /\ r \in Procs
  BY DEF Resume, Enter, Shell, Quiet, world, Credits, TruthInv, TruthTypes, ReceiptTypes, Runs, Procs
<1>2. CASE Resume(r)
  <2>1. TruthTypes'
    BY <1>1, <1>2 DEF Resume, Moves, Credits, TruthInv, TruthTypes, ReceiptTypes, Receipts, Labels
  <2>2. pc'[r] = "prompted" /\ \A s \in Runs \ {r} : pc'[s] = pc[s] /\ at'[s] = at[s] /\ copy'[s] = copy[s]
    BY <1>1, <1>2 DEF Resume, Moves, TruthInv, TruthTypes, ReceiptTypes, Procs
  <2>3. Fine(r)'
    BY <2>2 DEF Fine, Bootstrapping, Monitoring
  <2> QED
    BY <1>1, <2>1, <2>2, <2>3, ReceiptStays, TruthMoves DEF Credits
<1>3. CASE Ends(r)
  BY <1>1, <1>3, TruthEnds
<1>4. CASE lock' = {r} /\ Moves(r, "step") /\ UNCHANGED <<at, copy, orphan>>
  <2>1. TruthTypes'
    BY <1>1, <1>4 DEF Moves, Credits, TruthInv, TruthTypes, ReceiptTypes, Labels
  <2>2. pc'[r] = "step" /\ \A s \in Runs \ {r} : pc'[s] = pc[s] /\ at'[s] = at[s] /\ copy'[s] = copy[s]
    BY <1>1, <1>4 DEF Moves, TruthInv, TruthTypes, ReceiptTypes, Procs
  <2>3. Fine(r)'
    BY <2>2 DEF Fine, Bootstrapping, Monitoring
  <2> QED
    BY <1>1, <2>1, <2>2, <2>3, ReceiptStays, TruthMoves DEF Credits
<1> QED
  BY <1>2, <1>3, <1>4 DEF Enter

(* It asks what to do, and reads the receipt to take it further.            *)
LEMMA TruthLooks ==
  ASSUME TruthInv, ConfiguredTrue, Grows, NEW r \in Runs, Step(r) \/ LookAdvance(r) \/ LookBind(r) \/ LookPrepare(r)
  PROVE  TruthInv'
<1>1. Credits
  BY DEF Step, LookAdvance, LookBind, LookPrepare, Shell, Quiet, world, Credits, TruthInv, TruthTypes, ReceiptTypes
<1>2. PICK p, q : p = at[r] /\ q = receipt.phase
  OBVIOUS
<1>3. p \in Phase /\ q \in Phase /\ receipt \in Receipts /\ Fine(r) /\ Behind(q) /\ Behind(q)'
  BY <1>1, <1>2, BehindKeeps DEF TruthInv, TruthTypes, ReceiptTypes, Receipts, Credits
<1>4. CASE Ends(r)
  BY <1>1, <1>4, TruthEnds
<1>5. CASE Step(r)
  <2>1. ASSUME NEW l \in Asks(r), Stays(r, l) PROVE TruthInv'
    <3>1. /\ Suits(r, l) /\ l \notin {"proof", "write"}
          /\ l = "advance" => Earned(p)' \/ AtCeremony(r)
      BY <1>2, AsksWell, EarnedKeeps
    <3> QED
      BY <1>1, <1>2, <2>1, <3>1, TruthStays DEF Stays, Moves
  <2> QED
    BY <1>4, <1>5, <2>1 DEF Step
<1>6. CASE LookAdvance(r) /\ ~Ends(r)
  <2>1. pc[r] = "advance" /\ Advanceable(r) /\ Writes(r, [receipt EXCEPT !.phase = Successor(p)]) /\ p = q
    BY <1>2, <1>6 DEF LookAdvance, Advanceable
  <2>2. p # "complete" /\ (Earned(p) \/ AtCeremony(r))
    BY <1>2, <1>3, <2>1 DEF Fine
  <2>3. Earned(p)
    <3>1. CASE AtCeremony(r)
      <4>1. PICK c \in Prepared : p = Started[c]
        BY <1>2, <3>1 DEF AtCeremony
      <4>2. c \in done
        BY <1>2, <2>1, <4>1, CeremonyNames DEF Advanceable, Proven, Unknown, TruthInv
      <4> QED
        BY <4>1, <4>2, CeremonyEarned
    <3> QED
      BY <2>2, <3>1
  <2>4. PICK n : n = Successor(p)
    OBVIOUS
  <2>5. Behind(n) /\ Behind(n)' /\ n \in Phase /\ Index[n] = Index[p] + 1 /\ Index[p] \in Nat
    BY <1>3, <2>1, <2>2, <2>3, <2>4, BehindNext, BehindKeeps, PhaseOrder, PhaseIndex
  <2>6. /\ [receipt EXCEPT !.phase = n] \in Receipts
        /\ [receipt EXCEPT !.phase = n].phase = n /\ n # p
    BY <1>3, <2>5 DEF Receipts
  <2> QED
    BY <1>1, <1>2, <2>1, <2>2, <2>4, <2>5, <2>6, TruthWrites
<1>7. CASE LookBind(r) /\ ~Ends(r)
  <2>1. p = "platform-complete" /\ Writes(r, [receipt EXCEPT !.bound = TRUE]) /\ q = p
    BY <1>2, <1>3, <1>7 DEF LookBind, Fine
  <2>2. /\ [receipt EXCEPT !.bound = TRUE] \in Receipts
        /\ [receipt EXCEPT !.bound = TRUE].phase = q
    BY <1>2, <1>3 DEF Receipts
  <2>3. Coming(p) # {}
    <3>1. Lifecycle[5] = "platform-complete" /\ Lifecycle[6] = "vault-started"
      BY DEF Lifecycle
    <3>2. Index["platform-complete"] = 5
      BY <3>1, PhaseIndex, PhaseNames, PhasesNamed
    <3> QED
      BY <2>1, <3>1, <3>2, CeremonyNames DEF Coming, Successor
  <2> QED
    BY <1>1, <1>2, <1>3, <2>1, <2>2, <2>3, TruthWrites
<1>8. CASE LookPrepare(r) /\ ~Ends(r)
  <2>1. pc[r] = "prepare" /\ p # "complete" /\ Coming(p) \subseteq Prepared
    BY <1>2, <1>3, <1>8 DEF LookPrepare, Fine
  <2>2. PICK c \in Coming(p) : Stays(r, "advance") \/ Writes(r, [receipt EXCEPT !.prepared = @ \cup {c}])
    BY <1>2, <1>8 DEF LookPrepare
  <2>3. CASE Stays(r, "advance")
    <3>1. Earned(p) /\ Earned(p)'
      BY <1>3, <2>2, ComingEarned, EarnedKeeps
    <3>2. Suits(r, "advance")
      BY <1>2, <2>1 DEF Suits, Labels, Bootstrapping, Monitoring
    <3> QED
      BY <1>1, <1>2, <2>3, <3>1, <3>2, TruthStays DEF Stays, Moves
  <2>4. CASE Writes(r, [receipt EXCEPT !.prepared = @ \cup {c}])
    <3>1. /\ [receipt EXCEPT !.prepared = @ \cup {c}] \in Receipts
          /\ [receipt EXCEPT !.prepared = @ \cup {c}].phase = q
      BY <1>2, <1>3, <2>1, <2>2 DEF Receipts
    <3> QED
      BY <1>1, <1>2, <1>3, <2>1, <2>2, <2>4, <3>1, TruthWrites
  <2> QED
    BY <2>2, <2>3, <2>4
<1> QED
  BY <1>4, <1>5, <1>6, <1>7, <1>8

(* The receipt is replaced by one that is true.                             *)
LEMMA TruthReplaced == ASSUME TruthInv, Grows, NEW r \in Runs, Write(r) PROVE TruthInv'
<1>1. PICK p, q : p = at[r] /\ q = copy[r].phase
  OBVIOUS
<1>2. /\ pc[r] = "write" /\ p # "complete" /\ Behind(q)' /\ (q = p => Coming(p) # {}) /\ p \in Phase
      /\ q \in Phase /\ copy[r] \in Receipts /\ r \in Procs /\ receipt' = copy[r]
      /\ UNCHANGED <<stale, calm, done, attempts, proofs>>
  BY <1>1, BehindKeeps DEF Write, Quiet, world, Fine, TruthInv, TruthTypes, ReceiptTypes, Receipts, Procs
<1>3. CASE Closes(r)
  <2>1. Ends(r)
    BY <1>1, <1>3 DEF Write
  <2>2. Blank \in Receipts /\ "none" \in Phase /\ Home(r) \in {"idle", "over"}
    BY PhasesNamed DEF Blank, Receipts, Home
  <2>3. TruthTypes'
    BY <1>2, <2>1, <2>2 DEF Ends, Moves, TruthInv, TruthTypes, ReceiptTypes, Labels
  <2>4. /\ pc'[r] \in {"idle", "over"}
        /\ \A s \in Runs \ {r} : pc'[s] = pc[s] /\ at'[s] = at[s] /\ copy'[s] = copy[s]
    BY <1>2, <2>1, <2>2 DEF Ends, Moves, TruthInv, TruthTypes, ReceiptTypes, Procs
  <2>5. Fine(r)'
    BY <2>4 DEF Fine, Bootstrapping, Monitoring
  <2>6. Behind(receipt.phase)' /\ proofs' \subseteq done'
    BY <1>1, <1>2 DEF TruthInv
  <2> QED
    BY <2>3, <2>4, <2>5, <2>6, TruthMoves
<1>4. CASE ~Closes(r)
  <2>1. PICK l : l = Landing(r)
    OBVIOUS
  <2>2. /\ pc' = [pc EXCEPT ![r] = l] /\ at' = [at EXCEPT ![r] = q] /\ copy' = [copy EXCEPT ![r] = Blank]
        /\ UNCHANGED <<lock, orphan>> /\ q # "complete"
    BY <1>1, <1>4, <2>1 DEF Write, Moves, Closes
  <2>3. l \in {"advance", "work", "step"} /\ (l = "advance" => q = p)
    BY <1>1, <2>1 DEF Landing, Began
  <2>4. Blank \in Receipts
    BY PhasesNamed DEF Blank, Receipts
  <2>5. TruthTypes'
    BY <1>2, <2>2, <2>3, <2>4 DEF TruthInv, TruthTypes, ReceiptTypes, Labels
  <2>6. /\ pc'[r] = l /\ at'[r] = q
        /\ \A s \in Runs \ {r} : pc'[s] = pc[s] /\ at'[s] = at[s] /\ copy'[s] = copy[s]
    BY <1>2, <2>2 DEF TruthInv, TruthTypes, ReceiptTypes, Procs
  <2>7. l = "advance" => Earned(q)'
    BY <1>2, <2>3, ComingEarned, EarnedKeeps
  <2>8. Fine(r)'
    BY <2>2, <2>3, <2>6, <2>7 DEF Fine, Bootstrapping, Monitoring
  <2>9. Behind(receipt.phase)' /\ proofs' \subseteq done'
    BY <1>1, <1>2 DEF TruthInv
  <2> QED
    BY <2>5, <2>6, <2>8, <2>9, TruthMoves
<1> QED
  BY <1>3, <1>4

(* A child ends well, and its invocation advances if there still is one.    *)
LEMMA TruthReturns == ASSUME TruthInv, Credits, NEW r \in Runs, NEW p, p = at[r], p # "complete",
                             Returns(r, "advance"), Earned(p)' \/ AtCeremony(r)
                      PROVE  TruthInv'
<1>1. CASE Ends(r)
  BY <1>1, TruthEnds
<1>2. CASE Stays(r, "advance")
  <2>1. Suits(r, "advance")
    BY DEF Suits, Labels, Bootstrapping, Monitoring
  <2> QED
    BY <1>2, <2>1, TruthStays DEF Stays, Moves
<1> QED
  BY <1>1, <1>2 DEF Returns

(* Work that is repeated, and the ceremonies.                               *)
LEMMA TruthWorks ==
  ASSUME TruthInv, ConfiguredTrue, Grows, NEW r \in Runs,
         Perform(r) \/ Attempt(r) \/ Effect(r) \/ Prove(r) \/ VaultReturns(r)
  PROVE  TruthInv'
<1>1. PICK p : p = at[r]
  OBVIOUS
<1>2. p \in Phase /\ Fine(r) /\ Unknown(p) \subseteq Ceremonies
  BY <1>1 DEF TruthInv, TruthTypes, ReceiptTypes, Unknown
<1>3. AtCeremony(r) => p # "complete" /\ Unknown(p) \subseteq Prepared
  BY <1>1, CeremonyNames DEF AtCeremony, Unknown
<1> USE DEF Quiet, Shell, world
<1>4. CASE Perform(r)
  <2>1. p \in Repeatable \cup {"complete"} /\ done' = done \cup {p}
    BY <1>1, <1>4 DEF Perform
  <2>2. Credits
    BY <1>2, <1>4, <2>1 DEF Perform, Credits, TruthInv, TruthTypes, ReceiptTypes
  <2>3. CASE p = "complete"
    BY <1>1, <1>4, <2>2, <2>3, TruthEnds DEF Perform
  <2>4. CASE p # "complete"
    <3>1. Earned(p)'
      BY <2>1, <2>4, CeremonyNames DEF Earned, Repeatable
    <3> QED
      BY <1>1, <1>4, <2>2, <2>4, <3>1, TruthReturns DEF Perform
  <2> QED
    BY <2>3, <2>4
<1>5. CASE Attempt(r)
  <2>1. PICK c \in Unknown(p) : /\ attempts' = [attempts EXCEPT ![c] = IF @ < 2 THEN @ + 1 ELSE @]
                                /\ Stays(r, IF c = "vault" THEN "vault" ELSE "effect")
    BY <1>1, <1>5 DEF Attempt
  <2>2. Credits
    <3>1. attempts \in [Ceremonies -> 0 .. 2] /\ c \in Ceremonies
      BY <1>2 DEF TruthInv, TruthTypes, ReceiptTypes
    <3>2. attempts' \in [Ceremonies -> 0 .. 2]
      BY <2>1, <3>1
    <3> QED
      BY <1>5, <3>2 DEF Attempt, Credits, TruthInv, TruthTypes, ReceiptTypes
  <2>3. c \in Ceremonies /\ p = Started[c]
    BY DEF Unknown
  <2>4. PICK l : l = IF c = "vault" THEN "vault" ELSE "effect"
    OBVIOUS
  <2>5. Suits(r, l)
    BY <1>1, <2>3, <2>4, CeremonyNames DEF Suits, Labels, AtCeremony, Bootstrapping, Monitoring
  <2>6. l \notin {"advance", "proof"} /\ pc' = [pc EXCEPT ![r] = l] /\ UNCHANGED <<lock, at, copy, orphan>>
    BY <2>1, <2>4 DEF Stays, Moves
  <2> QED
    BY <2>2, <2>5, <2>6, TruthStays
<1>6. CASE Effect(r)
  <2>1. AtCeremony(r) /\ done' = done \cup Unknown(p) /\ Stays(r, "proof")
    BY <1>1, <1>2, <1>6 DEF Effect, Fine
  <2>2. Credits
    BY <1>2, <1>6, <2>1 DEF Effect, Credits, TruthInv, TruthTypes, ReceiptTypes
  <2>3. Suits(r, "proof") /\ Unknown(p) \subseteq done'
    BY <2>1 DEF Suits, Labels, Bootstrapping, Monitoring
  <2> QED
    BY <1>1, <2>1, <2>2, <2>3, TruthStays DEF Stays, Moves
<1>7. CASE Prove(r)
  <2>1. AtCeremony(r) /\ Unknown(p) \subseteq done /\ proofs' = proofs \cup Unknown(p)
    BY <1>1, <1>2, <1>7 DEF Prove, Fine
  <2>2. Credits
    BY <1>3, <1>7, <2>1 DEF Prove, Credits, TruthInv, TruthTypes, ReceiptTypes
  <2> QED
    BY <1>1, <1>3, <1>7, <2>1, <2>2, TruthReturns DEF Prove
<1>8. CASE VaultReturns(r)
  <2>1. p = "vault-started"
    BY <1>1, <1>2, <1>8 DEF VaultReturns, Fine
  <2>2. Credits
    BY <1>8 DEF VaultReturns, Credits, TruthInv, TruthTypes, ReceiptTypes
  <2>3. CASE Ends(r)
    BY <2>2, <2>3, TruthEnds
  <2>4. CASE stage[r] = "passed" /\ Returns(r, "advance")
    <3>1. configured'
      BY <2>4, ReleaseAssumption DEF ConfiguredTrue, Grows, Runs
    <3>2. Earned(p)'
      BY <2>1, <3>1, CeremonyNames DEF Earned, Repeatable
    <3> QED
      BY <1>1, <2>1, <2>2, <2>4, <3>2, TruthReturns
  <2> QED
    BY <1>8, <2>3, <2>4 DEF VaultReturns
<1> QED
  BY <1>4, <1>5, <1>6, <1>7, <1>8

(* The bootstrap under way: its invocation stays in its phase.              *)
LEMMA TruthBoots == ASSUME TruthInv, Credits, NEW r \in Runs, at[r] = "platform-started",
                           NEW l \in Bootstrapping, pc' = [pc EXCEPT ![r] = l], UNCHANGED <<lock, at, copy, orphan>>
                    PROVE  TruthInv'
<1>1. Suits(r, l)
  BY DEF Suits, AtCeremony, Labels, Bootstrapping, Monitoring
<1>2. l \notin {"advance", "proof"}
  BY DEF Bootstrapping, Monitoring
<1> QED
  BY <1>1, <1>2, TruthStays

LEMMA TruthAtPlatform ==
  ASSUME TruthInv, BuildInv, Grows, NEW r \in Runs,
         BootBegins(r) \/ BootIntent(r) \/ BootRecord(r) \/ BootEnds(r) \/ Act(r) \/ BuildIntent(r) \/ BuildFollow(r)
           \/ Monitor(r)
  PROVE  TruthInv'
<1> USE DEF Quiet, Shell, world
<1>1. Credits
  BY DEF Credits, BootBegins, BootIntent, BootRecord, BootEnds, Act, BuildIntent, BuildFollow, Monitor, BuildLaunch,
    BuildHandle, BuildPoll, TruthInv, TruthTypes, ReceiptTypes
<1>2. at[r] = "platform-started"
  BY DEF BootBegins, BootIntent, BootRecord, BootEnds, Act, BuildIntent, BuildFollow, Monitor, BuildLaunch,
    BuildHandle, BuildPoll, TruthInv, Fine, Bootstrapping, Monitoring
<1>3. r # "operator"
  BY ReleaseAssumption DEF Runs
<1>4. ASSUME Ends(r) PROVE TruthInv'
  BY <1>1, <1>4, TruthEnds
<1>5. ASSUME NEW l \in Bootstrapping, Moves(r, l), UNCHANGED <<lock, at, copy, orphan>> PROVE TruthInv'
  BY <1>1, <1>2, <1>5, TruthBoots DEF Moves
<1>6. {"boot", "act", "record", "launch", "poll", "handle"} \subseteq Bootstrapping
  BY DEF Bootstrapping, Monitoring
<1>7. CASE BootEnds(r)
  <2>1. PlatformDone
    BY <1>7 DEF BootEnds, BuildInv, Booted, PlatformDone, Bootstrapping
  <2>2. Earned("platform-started")'
    BY <2>1, CeremonyNames DEF Grows, Earned, Repeatable
  <2> QED
    BY <1>1, <1>2, <1>7, <2>2, TruthReturns DEF BootEnds
<1>8. CASE BootBegins(r) \/ BootIntent(r) \/ BootRecord(r) \/ Act(r) \/ BuildIntent(r) \/ BuildFollow(r)
  BY <1>4, <1>5, <1>6, <1>8 DEF BootBegins, BootIntent, BootRecord, Act, BuildIntent, BuildFollow, Stays
<1>9. CASE Monitor(r)
  BY <1>3, <1>4, <1>5, <1>6, <1>9 DEF Monitor, BuildLaunch, BuildHandle, BuildPoll, Stays
<1> QED
  BY <1>7, <1>8, <1>9

(* The operator beside them, and CodeBuild.                                 *)
LEMMA TruthBeside ==
  ASSUME TruthInv, Grows, Monitor("operator") \/ Exit("operator") \/ RetryTerminal \/ BuildEnds \/ Calm
  PROVE  TruthInv'
<1> "operator" \in Procs /\ "operator" \notin Runs
  BY ReleaseAssumption DEF Procs, Runs
<1> USE DEF Quiet, world, local
<1>1. Credits
  <2>1. /\ UNCHANGED <<receipt, stale, attempts, proofs>> /\ done' \subseteq done \cup Ceremonies
        /\ calm' \in BOOLEAN
    BY DEF Monitor, BuildLaunch, BuildHandle, BuildPoll, Exit, Outcome, Unknown, RetryTerminal, BuildEnds, Calm,
      TruthInv, TruthTypes
  <2> QED
    BY <2>1 DEF Credits, Grows, TruthInv, TruthTypes, ReceiptTypes
<1>2. \E l \in Labels : /\ pc' = [pc EXCEPT !["operator"] = l] \/ UNCHANGED pc
                        /\ UNCHANGED <<lock, at, copy, orphan>>
  BY DEF Monitor, BuildLaunch, BuildHandle, BuildPoll, Exit, RetryTerminal, BuildEnds, Calm, Moves, Labels,
    Bootstrapping, Monitoring
<1>3. pc' \in [Procs -> Labels] /\ \A s \in Runs : pc'[s] = pc[s]
  BY <1>2 DEF TruthInv, TruthTypes, ReceiptTypes, Procs
<1>4. UNCHANGED <<lock, at, copy>> /\ orphan' \subseteq Runs
  BY <1>2 DEF TruthInv, TruthTypes, ReceiptTypes
<1> QED
  BY <1>1, <1>3, <1>4, TruthRests

(* An invocation is cut short.                                              *)
LEMMA TruthCut == ASSUME TruthInv, Grows, NEW r \in Runs, Exit(r) \/ Kill(r) PROVE TruthInv'
<1> r # "operator" /\ r \in Procs
  BY ReleaseAssumption DEF Procs, Runs
<1>1. Credits
  <2>1. /\ UNCHANGED <<receipt, calm, attempts, proofs>> /\ done' \subseteq done \cup Ceremonies
        /\ stale' \in BOOLEAN
    BY DEF Exit, Kill, Quiet, Outcome, Unknown, TruthInv, TruthTypes, ReceiptTypes
  <2> QED
    BY <2>1 DEF Credits, Grows, TruthInv, TruthTypes, ReceiptTypes
<1>2. CASE /\ pc' = [pc EXCEPT ![r] = Home(r)] /\ at' = [at EXCEPT ![r] = "none"]
           /\ copy' = [copy EXCEPT ![r] = Blank] /\ orphan' \subseteq orphan /\ lock' \subseteq lock
  BY <1>1, <1>2, TruthLeaves
<1>3. CASE /\ UNCHANGED <<lock, pc, at, copy>> /\ orphan' = orphan \cup {r}
  BY <1>1, <1>3, TruthRests DEF TruthInv, TruthTypes, ReceiptTypes
<1> QED
  BY <1>2, <1>3 DEF Exit, Kill, Ends, Moves

(* The ceremonies on their own.                                             *)
LEMMA TruthApart == ASSUME TruthInv, Grows, UNCHANGED <<receipt, lock, stale, world, local, calm>> PROVE TruthInv'
<1>1. Credits
  BY DEF world, Credits, Grows, TruthInv, TruthTypes, ReceiptTypes
<1>2. pc' \in [Procs -> Labels] /\ UNCHANGED <<lock, pc, at, copy>> /\ orphan' \subseteq Runs
  BY DEF local, TruthInv, TruthTypes, ReceiptTypes
<1> QED
  BY <1>1, <1>2, TruthRests

LEMMA TruthKeeps == TruthInv /\ BuildInv /\ ConfiguredTrue /\ [Next]_vars => TruthInv'
<1> SUFFICES ASSUME TruthInv, BuildInv, ConfiguredTrue, [Next]_vars PROVE TruthInv'
  OBVIOUS
<1> Grows
  BY AlwaysGrows
<1>1. CASE UNCHANGED vars
  BY <1>1, TruthApart DEF vars
<1>2. CASE \E i \in Ceremony : CeremonyGoes(i) \/ CeremonyEnds(i) \/ ByHand(i)
  BY <1>2, TruthApart DEF CeremonyGoes, CeremonyEnds, ByHand, ReleaseStays
<1>3. ASSUME NEW r \in Resumes, Resume(r) \/ Enter(r) PROVE TruthInv'
  BY <1>3, TruthEnters
<1>4. ASSUME NEW r \in Runs, Invocation(r) \/ Kill(r) PROVE TruthInv'
  BY <1>4, TruthLooks, TruthReplaced, TruthWorks, TruthAtPlatform, TruthCut DEF Invocation
<1>5. ASSUME NEW r \in Procs, Monitor(r) \/ Exit(r) PROVE TruthInv'
  BY <1>5, TruthAtPlatform, TruthBeside, TruthCut DEF Procs
<1>6. CASE RetryTerminal \/ BuildEnds \/ Calm
  BY <1>6, TruthBeside
<1> QED
  BY <1>1, <1>2, <1>3, <1>4, <1>5, <1>6 DEF Next

LEMMA TruthBegins == Init => TruthInv
<1> SUFFICES ASSUME Init PROVE TruthInv
  OBVIOUS
<1>1. ReceiptTypes /\ receipt.phase = "none"
  BY ReleaseBegins DEF ReleaseInv, Init, Blank
<1>2. TruthTypes /\ proofs \subseteq done
  BY <1>1 DEF Init, TruthTypes
<1>3. Behind(receipt.phase)
  <2>1. Lifecycle[1] = "none" /\ "none" \in Phase
    BY PhaseNames, PhasesNamed
  <2>2. Index["none"] = 1
    BY <2>1, PhaseIndex, PhaseNames
  <2> QED
    BY <1>1, <2>2, PhaseIndex DEF Behind
<1>4. \A r \in Runs : Fine(r)
  BY ReleaseAssumption DEF Init, Runs, Procs, Fine, Bootstrapping, Monitoring
<1> QED
  BY <1>2, <1>3, <1>4 DEF TruthInv

LEMMA TruthInvariant == Spec => [](BuildInv /\ TruthInv /\ CeremonyTypeOK)
<1>1. Spec => []ConfiguredTrue /\ []CeremonyTypeOK
  BY ReleaseImplementsCeremony, ConfiguredIsTrue, CeremonyTypes, PTL
<1> QED
  BY BuildInvariant, TruthBegins, TruthKeeps, <1>1, PTL DEF Spec

(* Type correctness of the release, for any number of invocations.          *)
THEOREM ReleaseTyped == Spec => []TypeOK
<1>1. BuildInv /\ TruthInv /\ CeremonyTypeOK => TypeOK
  BY DEF BuildInv, BuildTypes, TruthInv, TruthTypes, ReceiptTypes, TypeOK, Receipts, Labels, Tasks, Statuses
<1> QED
  BY TruthInvariant, <1>1, PTL

(* The receipt never runs ahead, whoever resumes, is cut short or is left   *)
(* behind, and also when a resume begins beside a release that is under     *)
(* way: each completed phase was done, Vault is configured, the platform is *)
(* complete and its temporary cluster administrators are gone.              *)
THEOREM PhaseTrueHolds == Spec => []PhaseTrue
<1>1. ASSUME BuildInv, TruthInv PROVE PhaseTrue
  <2>1. PICK q \in Phase : q = receipt.phase
    BY <1>1 DEF TruthInv, TruthTypes, ReceiptTypes, Receipts
  <2>2. \A p \in Phase : Index[q] > Index[p] => Earned(p)
    BY <1>1, <2>1, PhaseIndex DEF TruthInv, Behind
  <2>3. Repeatable \subseteq Phase /\ \A c \in Ceremonies : Started[c] \in Phase
    BY PhaseList, PhasesNamed DEF Repeatable
  <2>4. \A p \in Repeatable : Index[q] > Index[p] => p \in done
    BY <2>2, <2>3 DEF Earned
  <2>5. \A c \in Prepared : Index[q] > Index[Started[c]] => c \in done
    BY <2>2, <2>3, CeremonyNames DEF Earned
  <2>6. Index[q] > Index["vault-started"] => configured
    BY <2>2, PhaseList DEF Earned
  <2>7. ASSUME Reached(q, "platform-complete")
        PROVE  runners = {} /\ \A k \in Builds : builds[k] # <<>> /\ Latest(k) = "SUCCEEDED"
    <3>1. Index[q] > Index["platform-started"]
      <4>1. Lifecycle[4] = "platform-started" /\ Lifecycle[5] = "platform-complete"
        BY DEF Lifecycle
      <4>2. Index["platform-started"] = 4 /\ Index["platform-complete"] = 5
        BY <4>1, PhaseIndex, PhaseNames, PhaseList
      <4> QED
        BY <2>7, <4>2, PhaseIndex DEF Reached
    <3>2. PlatformDone
      BY <2>2, <3>1, PhaseList DEF Earned
    <3>3. \A n \in 1 .. 6 : Complete(Bootstrap[n])
      BY <3>2, TaskNames DEF PlatformDone, Incomplete, Complete
    <3>4. Complete("revoke_complete") /\ \A k \in Builds : Complete(k)
      BY <3>3, TaskNames
    <3> QED
      BY <1>1, <3>2, <3>4 DEF PlatformDone, BuildInv, Recorded, Succeeded
  <2> QED
    BY <2>1, <2>4, <2>5, <2>6, <2>7 DEF PhaseTrue
<1> QED
  BY TruthInvariant, <1>1, PTL
=============================================================================
