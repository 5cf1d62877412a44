--------------------------- MODULE ListPoolsReport ---------------------------
(***************************************************************************)
(* What build-tools/staking-test/list_pools.py promises: for the nodes    *)
(* 0 .. NODES_COUNT - 1 in order, a report made of a header line and one   *)
(* line per staking pool the node's wallet lists, each pool line giving   *)
(* the pool id, the staker's pledge and the pool's total balance.  The     *)
(* listing either ends after the last node or fails, and the report then   *)
(* holds the complete reports of the nodes before the failure.             *)
(***************************************************************************)
EXTENDS Naturals, Sequences

CONSTANTS
    NODES_COUNT,   \* number of nodes of the staking test network
    PoolIds,       \* pool identifiers a wallet may report
    Amounts,       \* decimal amounts a wallet may report
    MaxPools       \* bound on the length of one node's pool list

VARIABLES
    replies,  \* the pool list each reported node's wallet answered
    report,   \* the complete node reports printed so far
    nodes,    \* how many nodes have been reported
    status    \* "running", "done" or "failed"

absVars == <<replies, report, nodes, status>>

\* A well-formed pool entry of staking_list_pools: an id, a pledge, a balance.
GoodPools == [pool_id : PoolIds, pledge : Amounts, balance : Amounts]

\* The lists a node's wallet may return, of well-formed pools.
GoodLists == UNION {[1..n -> GoodPools] : n \in 0..MaxPools}

Header(n) == [node |-> n, id |-> "header", staker |-> "", total |-> ""]
PoolLine(n, p) ==
    [node |-> n, id |-> p.pool_id, staker |-> p.pledge, total |-> p.balance]

\* The report of node n whose wallet listed ps: its header, then its pools.
NodeReport(n, ps) ==
    [k \in 1..Len(ps) + 1 |-> IF k = 1 THEN Header(n) ELSE PoolLine(n, ps[k - 1])]

AInit ==
    /\ replies = <<>>
    /\ report = <<>>
    /\ nodes = 0
    /\ status = "running"

ReportNode ==
    /\ status = "running"
    /\ nodes < NODES_COUNT
    /\ \E ps \in GoodLists :
          /\ replies' = Append(replies, ps)
          /\ report' = report \o NodeReport(nodes, ps)
    /\ nodes' = nodes + 1
    /\ UNCHANGED status

Finish ==
    /\ status = "running"
    /\ nodes = NODES_COUNT
    /\ status' = "done"
    /\ UNCHANGED <<replies, report, nodes>>

Fail ==
    /\ status = "running"
    /\ status' = "failed"
    /\ UNCHANGED <<replies, report, nodes>>

ANext == ReportNode \/ Finish \/ Fail

SafeSpec == AInit /\ [][ANext]_absVars

\* The listing does not stop half way: it ends, done or failed.
ASpec == SafeSpec /\ WF_absVars(ANext)
=============================================================================
