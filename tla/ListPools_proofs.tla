--------------------------- MODULE ListPools_proofs ---------------------------
(***************************************************************************)
(* Proofs about list_pools.py: type correctness, and that the script      *)
(* implements the safety part of its report specification ListPoolsReport *)
(* under the refinement mapping Abs, for every NODES_COUNT and every set  *)
(* of pools and amounts.                                                   *)
(***************************************************************************)
EXTENDS ListPools, SequenceTheorems, TLAPS

USE NodesAssumption, PoolsAssumption

\* A header line is a line.
LEMMA HeaderType ==
    ASSUME NEW n \in 0..NODES_COUNT
    PROVE  Abs!Header(n) \in Line
<1>1. n \in Nat
  OBVIOUS
<1>. QED
  BY <1>1, Zenon DEF Abs!Header, Line

\* The line of a well-formed pool is a line.
LEMMA PoolLineType ==
    ASSUME NEW n \in 0..NODES_COUNT, NEW p \in Pools, WellFormed(p)
    PROVE  Abs!PoolLine(n, p) \in Line
<1>1. n \in Nat
  OBVIOUS
<1>2. p.pool_id \in PoolIds /\ p.pledge \in Amounts /\ p.balance \in Amounts
  BY DEF Pools, WellFormed
<1>. QED
  BY <1>1, <1>2, Zenon DEF Abs!PoolLine, Line

\* A list the daemon may return is a sequence of at most MaxPools entries.
LEMMA PoolListsSeq ==
    ASSUME NEW ps \in PoolLists
    PROVE  /\ ps \in Seq(Pools)
           /\ Len(ps) \in 0..MaxPools
           /\ \A k \in 1..Len(ps) : ps[k] \in Pools
<1>1. PICK n \in 0..MaxPools : ps \in [1..n -> Pools]
  BY DEF PoolLists
<1>. QED
  BY <1>1

(***************************************************************************)
(* The inductive invariant.  While node i's pools are printed, the last j *)
(* printed lines are the first j lines of its report, the pools printed   *)
(* so far were well formed, and the reply of node i is the last answer;   *)
(* between nodes nothing is partial and there is one answer per node.     *)
(***************************************************************************)
Rep == Abs!NodeReport(i, pools)

PoolInv ==
    pc = "pool" =>
        /\ i < NODES_COUNT
        /\ j \in 1..Len(pools) + 1
        /\ j <= Len(out)
        /\ Len(answers) = i + 1
        /\ answers[i + 1] = pools
        /\ \A k \in 1..j - 1 : WellFormed(pools[k])
        /\ \A k \in 1..j : out[Len(out) - j + k] = Rep[k]

IdleInv == pc \in {"import", "loop", "done"} => j = 0 /\ Len(answers) = i

FailInv == pc = "failed" => j <= Len(out) /\ i <= Len(answers)

Inv == TypeOK /\ PoolInv /\ IdleInv /\ FailInv

LEMMA InvInit == Init => Inv
<1>1. <<>> \in PoolLists
  BY DEF PoolLists
<1>. QED
  BY <1>1 DEF Init, Inv, TypeOK, PoolInv, IdleInv, FailInv

LEMMA InvStep == Inv /\ [Next]_vars => Inv'
<1> SUFFICES ASSUME Inv, [Next]_vars PROVE Inv'
  OBVIOUS
<1> USE DEF Inv
<1>1. CASE Import
  BY <1>1 DEF Import, TypeOK, PoolInv, IdleInv, FailInv
<1>2. CASE Call
  <2>1. CASE pc' = "failed"
    BY <1>2, <2>1 DEF Call, TypeOK, PoolInv, IdleInv, FailInv
  <2>2. CASE pc' # "failed"
    <3>1. PICK ps \in PoolLists :
            /\ pools' = ps
            /\ answers' = Append(answers, ps)
            /\ out' = Append(out, Abs!Header(i))
            /\ j' = 1
            /\ pc' = "pool"
      BY <1>2, <2>2 DEF Call
    <3>2. Abs!Header(i) \in Line
      BY HeaderType DEF TypeOK
    <3>3. i < NODES_COUNT /\ j = 0 /\ Len(answers) = i /\ i' = i
      BY <1>2 DEF Call, IdleInv
    <3>4. TypeOK'
      BY <3>1, <3>2, <3>3 DEF TypeOK
    <3>5. Rep' = Abs!NodeReport(i, ps)
      BY <3>1, <3>3 DEF Rep
    <3>6. Abs!NodeReport(i, ps)[1] = Abs!Header(i)
      BY DEF Abs!NodeReport
    <3>7. PoolInv'
      BY <3>1, <3>3, <3>5, <3>6 DEF PoolInv, TypeOK
    <3>. QED
      BY <3>1, <3>4, <3>7 DEF IdleInv, FailInv
  <2>. QED
    BY <2>1, <2>2
<1>3. CASE PrintPool
  <2>1. /\ pc = "pool"
        /\ i < NODES_COUNT /\ j \in 1..Len(pools) /\ j <= Len(out)
        /\ Len(answers) = i + 1 /\ answers[i + 1] = pools
        /\ \A k \in 1..j - 1 : WellFormed(pools[k])
        /\ \A k \in 1..j : out[Len(out) - j + k] = Rep[k]
        /\ UNCHANGED <<i, pools, answers>>
    BY <1>3 DEF PrintPool, PoolInv
  <2>2. pools[j] \in Pools /\ pools \in Seq(Pools)
    BY <2>1, PoolListsSeq DEF TypeOK
  <2>3. CASE ~WellFormed(pools[j])
    <3>1. pc' = "failed" /\ UNCHANGED <<j, out>>
      BY <1>3, <2>3 DEF PrintPool
    <3>. QED
      BY <2>1, <3>1 DEF TypeOK, PoolInv, IdleInv, FailInv
  <2>4. CASE WellFormed(pools[j])
    <3>1. /\ out' = Append(out, Abs!PoolLine(i, pools[j]))
          /\ j' = j + 1
          /\ pc' = pc
      BY <1>3, <2>4 DEF PrintPool
    <3>2. Abs!PoolLine(i, pools[j]) \in Line
      BY <2>2, <2>4, PoolLineType DEF TypeOK
    <3>3. TypeOK'
      BY <2>1, <3>1, <3>2 DEF TypeOK
    <3>4. Rep' = Rep /\ Rep[j + 1] = Abs!PoolLine(i, pools[j])
      BY <2>1, <2>2 DEF Rep, Abs!NodeReport
    <3>5. \A k \in 1..j + 1 : out'[Len(out') - j' + k] = Rep'[k]
      <4>1. Len(out') = Len(out) + 1
        BY <3>1 DEF TypeOK
      <4>2. ASSUME NEW k \in 1..j + 1
            PROVE  out'[Len(out) - j + k] = Rep[k]
        <5>1. CASE k <= j
          BY <2>1, <3>1, <5>1 DEF TypeOK
        <5>2. CASE k = j + 1
          BY <2>1, <3>1, <3>4, <5>2 DEF TypeOK
        <5>. QED
          BY <5>1, <5>2, <2>1 DEF TypeOK
      <4>3. Len(out') - j' = Len(out) - j
        BY <4>1, <3>1, <2>1 DEF TypeOK
      <4>4. \A k \in 1..j + 1 : out'[Len(out) - j + k] = Rep'[k]
        BY <4>2, <3>4
      <4>. QED
        BY <4>3, <4>4
    <3>6. \A k \in 1..j' - 1 : WellFormed(pools'[k])
      <4>1. ASSUME NEW k \in 1..j PROVE WellFormed(pools[k])
        <5>1. CASE k < j
          BY <2>1, <5>1 DEF TypeOK
        <5>2. CASE k = j
          BY <2>4, <5>2
        <5>. QED
          BY <5>1, <5>2, <2>1 DEF TypeOK
      <4>. QED
        BY <4>1, <2>1, <3>1
    <3>7. /\ i' < NODES_COUNT
          /\ j' \in 1..Len(pools') + 1
          /\ j' <= Len(out')
          /\ Len(answers') = i' + 1
          /\ answers'[i' + 1] = pools'
      BY <2>1, <3>1, <3>2 DEF TypeOK
    <3>8. PoolInv'
      BY <2>1, <3>1, <3>5, <3>6, <3>7 DEF PoolInv
    <3>. QED
      BY <2>1, <3>1, <3>3, <3>8 DEF IdleInv, FailInv
  <2>. QED
    BY <2>3, <2>4
<1>4. CASE NextNode
  <2>1. i < NODES_COUNT /\ Len(answers) = i + 1
    BY <1>4 DEF NextNode, PoolInv
  <2>. QED
    BY <1>4, <2>1 DEF NextNode, TypeOK, PoolInv, IdleInv, FailInv
<1>5. CASE Finish
  BY <1>5 DEF Finish, TypeOK, PoolInv, IdleInv, FailInv
<1>6. CASE UNCHANGED vars
  BY <1>6 DEF vars, TypeOK, PoolInv, IdleInv, FailInv, Rep
<1>. QED
  BY <1>1, <1>2, <1>3, <1>4, <1>5, <1>6 DEF Next

\* list_pools.py never prints a malformed line: every reachable state has
\* the types of TypeOK (the loop index stays within range(NODES_COUNT)).
THEOREM TypeCorrect == Spec => []TypeOK
<1>1. Inv => TypeOK
  BY DEF Inv
<1>. QED
  BY InvInit, InvStep, <1>1, PTL DEF Spec

-----------------------------------------------------------------------------
(***************************************************************************)
(* Lemmas on sequences for the refinement mapping.                         *)
(***************************************************************************)

\* Appending to a sequence leaves its prefixes alone.
LEMMA AppendPrefix ==
    ASSUME NEW S, NEW s \in Seq(S), NEW e \in S, NEW n \in 0..Len(s)
    PROVE  SubSeq(Append(s, e), 1, n) = SubSeq(s, 1, n)
<1>1. Append(s, e) \in Seq(S) /\ Len(Append(s, e)) = Len(s) + 1
  BY AppendProperties
<1>2. /\ SubSeq(Append(s, e), 1, n) \in Seq(S)
      /\ Len(SubSeq(Append(s, e), 1, n)) = n
      /\ \A k \in 1..n : SubSeq(Append(s, e), 1, n)[k] = Append(s, e)[k]
  BY <1>1, SubSeqProperties
<1>3. /\ SubSeq(s, 1, n) \in Seq(S)
      /\ Len(SubSeq(s, 1, n)) = n
      /\ \A k \in 1..n : SubSeq(s, 1, n)[k] = s[k]
  BY SubSeqProperties
<1>4. \A k \in 1..n : Append(s, e)[k] = s[k]
  BY AppendProperties
<1>. QED
  BY <1>2, <1>3, <1>4, SeqEqual

\* A sequence whose last Len(r) elements are r is its prefix followed by r.
LEMMA TailSplit ==
    ASSUME NEW S, NEW s \in Seq(S), NEW r \in Seq(S), Len(r) <= Len(s),
           \A k \in 1..Len(r) : s[Len(s) - Len(r) + k] = r[k]
    PROVE  s = SubSeq(s, 1, Len(s) - Len(r)) \o r
<1> DEFINE m == Len(s) - Len(r)
           pre == SubSeq(s, 1, m)
<1>1. m \in 0..Len(s)
  OBVIOUS
<1>2. pre \in Seq(S) /\ Len(pre) = m /\ \A k \in 1..m : pre[k] = s[k]
  BY <1>1, SubSeqProperties
<1>3. /\ pre \o r \in Seq(S)
      /\ Len(pre \o r) = Len(s)
      /\ \A k \in 1..Len(s) :
            (pre \o r)[k] = IF k <= m THEN pre[k] ELSE r[k - m]
  BY <1>2, ConcatProperties
<1>4. \A k \in 1..Len(s) : s[k] = (pre \o r)[k]
  <2>1. SUFFICES ASSUME NEW k \in 1..Len(s) PROVE s[k] = (pre \o r)[k]
    OBVIOUS
  <2>2. CASE k <= m
    BY <1>2, <1>3, <2>2
  <2>3. CASE k > m
    <3>1. k - m \in 1..Len(r) /\ m + (k - m) = k
      BY <2>3
    <3>. QED
      BY <1>3, <2>3, <3>1
  <2>. QED
    BY <2>2, <2>3
<1>. QED
  BY <1>3, <1>4, SeqEqual

-----------------------------------------------------------------------------
(***************************************************************************)
(* Refinement of ListPoolsReport's safety part.                            *)
(***************************************************************************)

\* An entry the f-string can print is an entry of the report specification.
LEMMA GoodPool ==
    ASSUME NEW p \in Pools, WellFormed(p)
    PROVE  p \in Abs!GoodPools
<1>1. p.pool_id \in PoolIds /\ p.pledge \in Amounts /\ p.balance \in Amounts
  BY DEF Pools, WellFormed
<1>2. p = [pool_id |-> p.pool_id, pledge |-> p.pledge, balance |-> p.balance]
  BY DEF Pools
<1>. QED
  BY <1>1, <1>2, Zenon DEF Abs!GoodPools

LEMMA RefineInit == Init => Abs!AInit
BY DEF Init, Abs!AInit, Partial, Status

LEMMA RefineStep == Inv /\ [Next]_vars => [Abs!ANext]_Abs!absVars
<1> SUFFICES ASSUME Inv, [Next]_vars PROVE [Abs!ANext]_Abs!absVars
  OBVIOUS
<1> USE DEF Inv
<1>0. answers \in Seq(PoolLists) /\ out \in Seq(Line) /\ i \in 0..NODES_COUNT
  BY DEF TypeOK
<1>1. CASE Import
  <2>1. j = 0 /\ UNCHANGED <<i, pools, j, out, answers>>
    BY <1>1 DEF Import, IdleInv
  <2>2. CASE pc' = "loop"
    BY <1>1, <2>1, <2>2 DEF Import, Abs!absVars, Partial, Status
  <2>3. CASE pc' = "failed"
    BY <1>1, <2>1, <2>3 DEF Import, Abs!ANext, Abs!Fail, Partial, Status
  <2>. QED
    BY <1>1, <2>2, <2>3 DEF Import
<1>2. CASE Call
  <2>1. pc = "loop" /\ j = 0 /\ Len(answers) = i /\ i' = i
    BY <1>2 DEF Call, IdleInv
  <2>2. CASE pc' = "failed"
    BY <1>2, <2>1, <2>2 DEF Call, Abs!ANext, Abs!Fail, Partial, Status
  <2>3. CASE pc' # "failed"
    <3>1. PICK ps \in PoolLists :
            /\ answers' = Append(answers, ps)
            /\ out' = Append(out, Abs!Header(i))
            /\ j' = 1
            /\ pc' = "pool"
      BY <1>2, <2>3 DEF Call
    <3>2. Abs!Header(i) \in Line
      BY <1>0, HeaderType
    <3>3. SubSeq(answers', 1, i') = SubSeq(answers, 1, i)
      BY <1>0, <2>1, <3>1, AppendPrefix
    <3>4. SubSeq(out', 1, Len(out') - 1) = SubSeq(out, 1, Len(out) - 0)
      <4>1. Len(out') - 1 = Len(out)
        BY <1>0, <3>1, <3>2, AppendProperties
      <4>. QED
        BY <1>0, <3>1, <3>2, <4>1, AppendPrefix
    <3>. QED
      BY <2>1, <3>1, <3>3, <3>4 DEF Abs!absVars, Partial, Status
  <2>. QED
    BY <2>2, <2>3
<1>3. CASE PrintPool
  <2>1. /\ pc = "pool" /\ j \in 1..Len(pools) /\ j <= Len(out)
        /\ UNCHANGED <<i, pools, answers>>
        /\ pools[j] \in Pools
    BY <1>3, PoolListsSeq DEF PrintPool, PoolInv, TypeOK
  <2>2. CASE ~WellFormed(pools[j])
    BY <1>3, <2>1, <2>2 DEF PrintPool, Abs!ANext, Abs!Fail, Partial, Status
  <2>3. CASE WellFormed(pools[j])
    <3>1. /\ out' = Append(out, Abs!PoolLine(i, pools[j]))
          /\ j' = j + 1
          /\ pc' = pc
      BY <1>3, <2>3 DEF PrintPool
    <3>2. Abs!PoolLine(i, pools[j]) \in Line
      BY <1>0, <2>1, <2>3, PoolLineType
    <3>3. Len(out') - j' = Len(out) - j
      BY <1>0, <2>1, <3>1, <3>2, AppendProperties
    <3>4. SubSeq(out', 1, Len(out') - j') = SubSeq(out, 1, Len(out) - j)
      BY <1>0, <2>1, <3>1, <3>2, <3>3, AppendPrefix
    <3>. QED
      BY <2>1, <3>1, <3>4 DEF Abs!absVars, Partial, Status
  <2>. QED
    BY <2>2, <2>3
<1>4. CASE NextNode
  <2>1. /\ pc = "pool" /\ pc' = "loop"
        /\ i < NODES_COUNT /\ i' = i + 1
        /\ j = Len(pools) + 1 /\ j <= Len(out)
        /\ Len(answers) = i + 1 /\ answers[i + 1] = pools
        /\ \A k \in 1..Len(pools) : WellFormed(pools[k])
        /\ \A k \in 1..j : out[Len(out) - j + k] = Rep[k]
        /\ UNCHANGED <<pools, out, answers>>
    BY <1>4 DEF NextNode, PoolInv
  <2>2. pools \in Abs!GoodLists
    <3>1. PICK n \in 0..MaxPools : pools \in [1..n -> Pools]
      BY DEF TypeOK, PoolLists
    <3>2. \A k \in 1..n : pools[k] \in Abs!GoodPools
      BY <2>1, <3>1, GoodPool
    <3>. QED
      BY <3>1, <3>2 DEF Abs!GoodLists
  <2>3. SubSeq(answers, 1, i + 1) = Append(SubSeq(answers, 1, i), pools)
    <3>1. SubSeq(answers, 1, i + 1) = SubSeq(answers, 1, i) \o <<pools>>
      BY <1>0, <2>1, SubSeqRecursiveSecond
    <3>2. SubSeq(answers, 1, i) \in Seq(PoolLists) /\ pools \in PoolLists
      BY <1>0, <2>1, SubSeqProperties DEF TypeOK
    <3>. QED
      BY <3>1, <3>2, AppendIsConcat
  <2>4. Rep \in Seq(Line) /\ Len(Rep) = j
    <3>1. Rep = [k \in 1..j |-> IF k = 1 THEN Abs!Header(i)
                                ELSE Abs!PoolLine(i, pools[k - 1])]
      BY <2>1 DEF Rep, Abs!NodeReport
    <3>2. \A k \in 1..j : Rep[k] \in Line
      BY <1>0, <2>1
    <3>. QED
      BY <3>1, <3>2, <2>1
  <2>5. out = SubSeq(out, 1, Len(out) - j) \o Rep
    BY <1>0, <2>1, <2>4, TailSplit
  <2>6. SubSeq(out, 1, Len(out)) = out
    BY <1>0, SubSeqFull
  <2>7. Status = "running" /\ Status' = "running"
    BY <2>1 DEF Status
  <2>8. Partial = j /\ Partial' = 0
    BY <2>1 DEF Partial
  <2>9. SubSeq(answers, 1, i)' = Append(SubSeq(answers, 1, i), pools)
    BY <2>1, <2>3
  <2>10. SubSeq(out, 1, Len(out) - Partial)'
           = SubSeq(out, 1, Len(out) - Partial) \o Abs!NodeReport(i, pools)
    <3>1. SubSeq(out, 1, Len(out) - Partial)' = SubSeq(out, 1, Len(out))
      BY <2>1, <2>8
    <3>2. SubSeq(out, 1, Len(out) - Partial) \o Abs!NodeReport(i, pools)
            = SubSeq(out, 1, Len(out) - j) \o Rep
      BY <2>8 DEF Rep
    <3>. QED
      BY <2>5, <2>6, <3>1, <3>2
  <2>11. Abs!ReportNode
    BY <2>1, <2>2, <2>7, <2>9, <2>10 DEF Abs!ReportNode
  <2>. QED
    BY <2>11 DEF Abs!ANext
<1>5. CASE Finish
  BY <1>5 DEF Finish, IdleInv, Abs!ANext, Abs!Finish, Partial, Status
<1>6. CASE UNCHANGED vars
  BY <1>6 DEF vars, Abs!absVars, Partial, Status
<1>. QED
  BY <1>1, <1>2, <1>3, <1>4, <1>5, <1>6 DEF Next

\* list_pools.py implements the safety part of its report specification:
\* the lines it prints, less the partial report of the node in progress,
\* are the header and the pool lines of each node in turn, of the lists the
\* nodes' wallets answered, and it stops only after the last node or on an
\* error.
THEOREM Refinement == Spec => Abs!SafeSpec
<1>1. Spec => []Inv
  BY InvInit, InvStep, PTL DEF Spec
<1>. QED
  BY <1>1, RefineInit, RefineStep, PTL DEF Spec, Abs!SafeSpec
=============================================================================
