------------------------------ MODULE MCCleanup ------------------------------
(* Instance of Cleanup for TLC: one resource of each kind, a log group that *)
(* comes late, and four that may go to another owner.                       *)
EXTENDS Cleanup

CONSTANTS cluster, workers, net, gateway, subnet, group, address, host, profile, role, schedule,
          log, bucket, state, key
MCResource == {cluster, workers, net, gateway, subnet, group, address, host, profile, role, schedule,
               log, bucket, state, key}
MCKind == [r \in MCResource |->
  CASE r = cluster -> "eks" [] r = workers -> "nodegroup" [] r = net -> "vpc" [] r = gateway -> "nat"
    [] r = subnet -> "subnet" [] r = group -> "group" [] r = address -> "eip"
    [] r = host -> "instance" [] r = profile -> "profile" [] r = role -> "iam"
    [] r = schedule -> "scheduler" [] r = log -> "logs" [] r = bucket -> "data" [] r = state -> "backend"
    [] OTHER -> "kms"]
MCHome == [r \in MCResource |->
  CASE r = workers -> cluster [] r \in {cluster, host, gateway, subnet, group} -> net
    [] r = address -> gateway [] r \in {schedule, profile} -> role [] OTHER -> r]
=============================================================================
