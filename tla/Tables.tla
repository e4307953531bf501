-------------------------------- MODULE Tables --------------------------------
(***************************************************************************)
(* Selecting a row of a table (model/hwCollection/dataStructure/table).    *)
(* The code hands doReducBinIdx, doReducOHIdx and findMBO a C++ function   *)
(* that tells from two rows whether the left one is selected, and builds a *)
(* tree of muxes over the rows from it.  Here that function is a record:   *)
(* its "op" names one of the functions the code passes, its other fields   *)
(* are the hardware the function captures.  A table is a function from its *)
(* row numbers; the number of rows is a power of two.                       *)
(***************************************************************************)
EXTENDS Integers, FiniteSets

(* doReduceBase takes its nodes in pairs, and reads a queue that is empty   *)
(* when one is left over.                                                   *)
PowerOfTwo(n) ==
  n \in Nat \ {0} /\ \A a, b \in 1..n : a * b = n /\ b % 2 = 1 => b = 1

Rows(t) == Cardinality(DOMAIN t)

(* A node of the reduction: a row and its index.                            *)
Node(t, i) == [slot |-> t[i], idx |-> i]

Ready(e) == e.busy /\ e.v1 /\ e.v2

(* The busy bit searchIdx looks at: with a set of tags to be killed, the    *)
(* one after this cycle.                                                    *)
BusyAfter(e, killed) == e.busy /\ ~(e.spec /\ e.specTag \in killed)

(* ORsv::buildIssue with a sort bit: the ready one, then the one of the     *)
(* current turn of the ring, then the smaller tag.                          *)
Older(l, r) ==
  \/ Ready(l) /\ ~Ready(r)
  \/ /\ Ready(l) = Ready(r)
     /\ \/ l.sortBit < r.sortBit
        \/ l.sortBit = r.sortBit /\ l.rrftag < r.rrftag

(* findMatchedOrdered for the newest: rows from "start" on are the old ones *)
Newer(q, l, r) ==
  LET user(n) == n.slot.busy /\ n.slot.mem_addr = q.addr
      old(n)  == q.start <= n.idx
  IN  user(l) /\ (user(r) => ~old(l) /\ old(r))

SelectLeft(q, l, r) ==
  CASE q.op = "free"   -> ~l.slot.busy /\ l.idx # q.except
    [] q.op = "ready"  -> Ready(l.slot)
    [] q.op = "oldest" -> Older(l.slot, r.slot)
    [] q.op = "first"  -> BusyAfter(l.slot, q.killed) = q.value
    [] q.op = "last"   -> BusyAfter(r.slot, q.killed) # q.value
    [] q.op = "newest" -> Newer(q, l, r)

(* doReduceBase: neighbours are muxed, level by level, until one is left.   *)
MuxPairs(q, up) ==
  [i \in 0..(Rows(up) \div 2 - 1) |->
     IF SelectLeft(q, up[2*i], up[2*i+1]) THEN up[2*i] ELSE up[2*i+1]]

NextLevel(q, up) == IF Rows(up) = 1 THEN up ELSE MuxPairs(q, up)

(* There are fewer levels than rows.                                        *)
Levels(q, t) ==
  LET level[d \in Nat] ==
        IF d = 0 THEN [i \in DOMAIN t |-> Node(t, i)]
        ELSE NextLevel(q, level[d-1])
  IN  level

Reduce(q, t) == Levels(q, t)[Rows(t)][0]

(* joinTableByRowInterleave: row i of the left table is row 2i, row i of    *)
(* the right one row 2i+1.                                                  *)
Interleave(l, r) ==
  [i \in 0..(2 * Rows(l) - 1) |->
     IF i % 2 = 0 THEN l[i \div 2] ELSE r[i \div 2]]

(* search_idx.h: is there a row whose busy bit has the value, and which is  *)
(* the first or the last one.                                               *)
SearchIdx(t, value, op, killed) ==
  LET n == Reduce([op |-> op, value |-> value, killed |-> killed], t)
  IN  [valid |-> BusyAfter(n.slot, killed) = value, idx |-> n.idx]
=============================================================================
