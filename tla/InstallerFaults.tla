--------------------------- MODULE InstallerFaults ---------------------------
(* What the models of the installer have in common.                         *)
EXTENDS Naturals

CONSTANTS Faults,    \* how an invocation may be cut short
          MaxBuilds  \* bound: builds CodeBuild may ever be asked for

ASSUME PlatformAssumption == Faults \subseteq {"exception", "kill"} /\ MaxBuilds \in Nat
=============================================================================
