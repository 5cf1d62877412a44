------------------------------ MODULE ListPools ------------------------------
(***************************************************************************)
(* build-tools/staking-test/list_pools.py: for each node of the staking   *)
(* test network, build its wallet's RPC proxy, ask it for the staking      *)
(* pools of account 0, and print a header and one line per pool.           *)
(*                                                                         *)
(* The script handles no error: an import that fails, an RPC call that     *)
(* raises (node down, JSON-RPC error) or a pool entry without one of the  *)
(* keys the f-string reads ends it with a traceback, after whatever it     *)
(* had printed.  Printed text is abstracted to records; the f-string of    *)
(* line 36 reads pool_id, pledge, balance in that order, and a KeyError in *)
(* any of them prints nothing of the line.                                 *)
(***************************************************************************)
EXTENDS Naturals, Sequences

CONSTANTS
    NODES_COUNT,   \* from common: number of nodes of the test network
    PoolIds,       \* pool identifiers a wallet may report
    Amounts,       \* decimal amounts a wallet may report
    Absent,        \* a key missing from a pool entry of the RPC reply
    MaxPools       \* bound on the length of one node's pool list

ASSUME NodesAssumption == NODES_COUNT \in Nat
ASSUME PoolsAssumption ==
    /\ MaxPools \in Nat
    /\ Absent \notin PoolIds \cup Amounts

VARIABLES
    pc,      \* where the script is: "import", "loop", "pool", "done", "failed"
    i,       \* the node of the outer for loop
    pools,   \* the list staking_list_pools returned for node i
    j,       \* lines printed for node i; pools[j] is the next pool to print
    out,     \* the lines printed on stdout
    answers  \* history: the lists staking_list_pools returned, in order

vars == <<pc, i, pools, j, out, answers>>

\* The refinement mapping to ListPoolsReport: the printed lines without the
\* partial report of the node in progress (or of the one that failed).
Partial == IF pc \in {"pool", "failed"} THEN j ELSE 0

Status == CASE pc \in {"import", "loop", "pool"} -> "running"
            [] pc = "done" -> "done"
            [] pc = "failed" -> "failed"

Abs == INSTANCE ListPoolsReport
         WITH replies <- SubSeq(answers, 1, i),
              report <- SubSeq(out, 1, Len(out) - Partial),
              nodes <- i,
              status <- Status

\* A pool entry as the daemon may send it, any of its keys possibly missing.
Pools == [pool_id : PoolIds \cup {Absent}, pledge : Amounts \cup {Absent},
          balance : Amounts \cup {Absent}]
PoolLists == UNION {[1..n -> Pools] : n \in 0..MaxPools}

\* The f-string of line 36 finds every key it reads.
WellFormed(p) == p.pool_id # Absent /\ p.pledge # Absent /\ p.balance # Absent

Line == [node : Nat, id : PoolIds \cup {"header"}, staker : Amounts \cup {""},
         total : Amounts \cup {""}]

TypeOK ==
    /\ pc \in {"import", "loop", "pool", "done", "failed"}
    /\ i \in 0..NODES_COUNT
    /\ pools \in PoolLists
    /\ j \in Nat
    /\ out \in Seq(Line)
    /\ answers \in Seq(PoolLists)

Init ==
    /\ pc = "import"
    /\ i = 0
    /\ pools = <<>>
    /\ j = 0
    /\ out = <<>>
    /\ answers = <<>>

\* Lines 16-27: the imports and the sys.path set-up; `from common import *`
\* or the import of test_framework.authproxy may raise ImportError.
Import ==
    /\ pc = "import"
    /\ pc' \in {"loop", "failed"}
    /\ UNCHANGED <<i, pools, j, out, answers>>

\* Faulty variant of Call: the outer loop runs one node too far
\* (range(NODES_COUNT + 1)).
CallOffByOne ==
    /\ pc = "loop"
    /\ i <= NODES_COUNT
    /\ \/ \E ps \in PoolLists :
             /\ pools' = ps
             /\ answers' = Append(answers, ps)
             /\ out' = Append(out, Abs!Header(i))
             /\ j' = 1
             /\ pc' = "pool"
       \/ /\ pc' = "failed"
          /\ UNCHANGED <<pools, j, out, answers>>
    /\ UNCHANGED i

\* Lines 30-34: the next node's proxy is made and staking_list_pools(0)
\* called; it returns a list and the header is printed, or it raises.
Call ==
    /\ pc = "loop"
    /\ i < NODES_COUNT
    /\ \/ \E ps \in PoolLists :
             /\ pools' = ps
             /\ answers' = Append(answers, ps)
             /\ out' = Append(out, Abs!Header(i))
             /\ j' = 1
             /\ pc' = "pool"
       \/ /\ pc' = "failed"
          /\ UNCHANGED <<pools, j, out, answers>>
    /\ UNCHANGED i

\* Faulty variant of PrintPool: the staker and total columns swapped.
PrintPoolSwapped ==
    /\ pc = "pool"
    /\ j \in 1..Len(pools)
    /\ IF WellFormed(pools[j])
       THEN /\ out' = Append(out, [node |-> i, id |-> pools[j].pool_id,
                                   staker |-> pools[j].balance,
                                   total |-> pools[j].pledge])
            /\ j' = j + 1
            /\ UNCHANGED pc
       ELSE /\ pc' = "failed"
            /\ UNCHANGED <<j, out>>
    /\ UNCHANGED <<i, pools, answers>>

\* Lines 35-36: one iteration of the inner for loop prints the next pool,
\* or raises KeyError.
PrintPool ==
    /\ pc = "pool"
    /\ j \in 1..Len(pools)
    /\ IF WellFormed(pools[j])
       THEN /\ out' = Append(out, Abs!PoolLine(i, pools[j]))
            /\ j' = j + 1
            /\ UNCHANGED pc
       ELSE /\ pc' = "failed"
            /\ UNCHANGED <<j, out>>
    /\ UNCHANGED <<i, pools, answers>>

\* Line 35 exhausted, back to line 30 with the next node.
NextNode ==
    /\ pc = "pool"
    /\ j = Len(pools) + 1
    /\ i' = i + 1
    /\ j' = 0
    /\ pc' = "loop"
    /\ UNCHANGED <<pools, out, answers>>

\* Line 30 exhausted: the script ends normally.
Finish ==
    /\ pc = "loop"
    /\ i = NODES_COUNT
    /\ pc' = "done"
    /\ UNCHANGED <<i, pools, j, out, answers>>

Next == Import \/ Call \/ PrintPool \/ NextNode \/ Finish

\* A single-threaded script: each statement runs once it is reached; the
\* RPC proxy's HTTP timeout makes a call return or raise.
Spec == Init /\ [][Next]_vars /\ WF_vars(Next)

-----------------------------------------------------------------------------
(***************************************************************************)
(* Refinement: the printed lines, without the partial report of the node  *)
(* in progress (or the one that failed), are the complete reports of the  *)
(* nodes 0 .. i - 1, each a header followed by one line per pool its      *)
(* wallet listed, every pool well formed.                                  *)
(***************************************************************************)

\* list_pools.py prints, node after node, the header and the pool lines of
\* each node's staking_list_pools reply, never a line of a malformed entry,
\* and its listing ends, done after the last node or failed.
ImplementsReport == Abs!ASpec
=============================================================================
