-------------------------- MODULE SimEngineProofs --------------------------
(***************************************************************************)
(* The sort of the generated model's statements is right for every graph:  *)
(* what comes out is complete and in order, and only a cycle is refused.   *)
(* So it is in the generated model, which runs what was sorted; and its    *)
(* performance counters count what they should, whatever the blocks.       *)
(***************************************************************************)
EXTENDS SimEngine, SequenceTheorems, WellFoundedInduction, TLAPS

Frame == [mpd : DOMAIN graph.dep, nextDepIdx : Nat \ {0}]

TypeOK ==
  /\ graph \in Graphs
  /\ at \in 1 .. Len(graph.nodes) + 1
  /\ dfs \in Seq(Frame)
  /\ visited \subseteq InGraph
  /\ result \in Seq(InGraph)
  /\ outcome \in {"sorting", "sorted", "abort"}

(* An element below the top has been entered and reads the one above it.    *)
Linked(i) ==
  /\ dfs[i].nextDepIdx > 1 =>
       dfs[i].mpd \in visited /\ dfs[i].nextDepIdx <= Len(graph.dep[dfs[i].mpd]) + 1
  /\ i < Len(dfs) =>
       dfs[i].nextDepIdx > 1 /\ dfs[i + 1].mpd = graph.dep[dfs[i].mpd][dfs[i].nextDepIdx - 1]

Path == \A i \in 1 .. Len(dfs) : Linked(i)

(* What has been entered and is not put down is still on the stack.         *)
OnStack ==
  \A v \in visited \ Resulted :
    \E i \in 1 .. Len(dfs) : dfs[i].mpd = v /\ dfs[i].nextDepIdx > 1

(* Of an element on the stack everything that was searched is put down; of  *)
(* one below the top, all but the last.                                     *)
Done(d) == d \in InGraph => d \in Resulted

Searched ==
  \A i \in 1 .. Len(dfs) : \A j \in 1 .. dfs[i].nextDepIdx - 1 :
    i = Len(dfs) \/ j < dfs[i].nextDepIdx - 1 => Done(graph.dep[dfs[i].mpd][j])

(* An element the search was started from is put down or is the bottom.     *)
Tried ==
  \A k \in 1 .. at - 1 :
    \/ graph.nodes[k] \in Resulted
    \/ k = at - 1 /\ dfs # <<>> /\ dfs[1].mpd = graph.nodes[k]

Ended ==
  /\ outcome = "sorted" => dfs = <<>> /\ at > Len(graph.nodes)
  /\ outcome = "abort" => StackIsCycle

IInv == TypeOK /\ Path /\ OnStack /\ Searched /\ DepsFirst /\ Tried /\ Ended

-----------------------------------------------------------------------------
(* Every graph is one of those assumed.                                     *)
LEMMA GraphTyped ==
  ASSUME TypeOK
  PROVE  /\ graph.nodes \in Seq(DOMAIN graph.dep)
         /\ graph.dep \in [DOMAIN graph.dep -> Seq(DOMAIN graph.dep)]
         /\ InGraph \subseteq DOMAIN graph.dep
<1>1. /\ graph.nodes \in Seq(DOMAIN graph.dep)
      /\ graph.dep \in [DOMAIN graph.dep -> Seq(DOMAIN graph.dep)]
  BY GraphsAssumption DEF TypeOK
<1>2. InGraph \subseteq DOMAIN graph.dep
  BY <1>1 DEF InGraph, ToSet
<1> QED BY <1>1, <1>2

LEMMA FrontProperties ==
  ASSUME NEW S, NEW s \in Seq(S), s # <<>>
  PROVE  /\ Front(s) \in Seq(S)
         /\ Len(Front(s)) = Len(s) - 1
         /\ \A i \in 1 .. Len(s) - 1 : Front(s)[i] = s[i]
<1> DEFINE n == Len(s) - 1
<1>1. n \in Nat /\ \A i \in 1 .. n : s[i] \in S
  OBVIOUS
<1> HIDE DEF n
<1>2. /\ SubSeq(s, 1, n) \in Seq(S)
      /\ Len(SubSeq(s, 1, n)) = IF 1 <= n THEN n - 1 + 1 ELSE 0
      /\ \A i \in 1 .. n - 1 + 1 : SubSeq(s, 1, n)[i] = s[1 + i - 1]
  BY <1>1, SubSeqProperties
<1>3. Front(s) = SubSeq(s, 1, n)
  BY DEF Front, n
<1> DEFINE f == SubSeq(s, 1, n)
<1> HIDE DEF f
<1>4. Front(s) = f /\ f \in Seq(S) /\ Len(f) = IF 1 <= n THEN n - 1 + 1 ELSE 0
  BY <1>2, <1>3 DEF f
<1>5. \A i \in 1 .. n : f[i] = s[i]
  BY <1>1, <1>2 DEF f
<1>6. Len(f) = n
  BY <1>1, <1>4
<1>7. f \in Seq(S) /\ Len(f) = n /\ \A i \in 1 .. n : f[i] = s[i]
  BY <1>4, <1>5, <1>6
<1>8. Front(s) \in Seq(S) /\ Len(Front(s)) = n /\ \A i \in 1 .. n : Front(s)[i] = s[i]
  BY <1>4, <1>7, Zenon
<1> QED BY <1>8 DEF n

(* The top of a stack, and the stack without it.                            *)
LEMMA Popped ==
  ASSUME TypeOK, dfs # <<>>, dfs' = Front(dfs), UNCHANGED graph
  PROVE  /\ dfs' \in Seq(Frame) /\ Len(dfs') = Len(dfs) - 1 /\ Len(dfs) \in Nat \ {0}
         /\ \A i \in 1 .. Len(dfs) - 1 : dfs'[i] = dfs[i]
         /\ Top = dfs[Len(dfs)] /\ Top \in Frame
<1>1. dfs \in Seq(Frame) /\ Len(dfs) \in Nat \ {0}
  BY DEF TypeOK
<1>2. Top = dfs[Len(dfs)] /\ Top \in Frame
  BY <1>1 DEF Top, Last
<1> QED BY <1>1, <1>2, FrontProperties

(* What is put down stays.                                                  *)
LEMMA ResultGrows ==
  ASSUME NEW e, result \in Seq(InGraph),
         result' = result \/ (result' = Append(result, e) /\ e \in InGraph)
  PROVE  result' \in Seq(InGraph) /\ Resulted \subseteq Resulted'
<1>1. CASE result' = result
  BY <1>1 DEF Resulted
<1>2. CASE result' = Append(result, e) /\ e \in InGraph
  <2>1. result' \in Seq(InGraph)
    BY <1>2
  <2>2. ASSUME NEW i \in DOMAIN result PROVE i \in DOMAIN result' /\ result'[i] = result[i]
    BY <1>2
  <2> QED BY <2>1, <2>2 DEF Resulted, ToSet
<1> QED BY <1>1, <1>2

(* Taking an element off the stack that needs no more search.               *)
LEMMA PopKeeps ==
  ASSUME IInv, dfs # <<>>, dfs' = Front(dfs), UNCHANGED <<graph, at>>,
         outcome = "sorting", outcome' = outcome,
         visited' \subseteq visited \cup {Top.mpd}, visited \subseteq visited',
         result' = result \/ (result' = Append(result, Top.mpd) /\ Top.mpd \in InGraph),
         Top.mpd \in InGraph => Top.mpd \in Resulted',
         visited' \subseteq InGraph,
         DepsFirst'
  PROVE  IInv'
<1> USE DEF IInv
<1>0. graph' = graph /\ at' = at
  OBVIOUS
<1>1. /\ dfs' \in Seq(Frame) /\ Len(dfs') = Len(dfs) - 1 /\ Len(dfs) \in Nat \ {0}
      /\ \A i \in 1 .. Len(dfs) - 1 : dfs'[i] = dfs[i]
      /\ Top = dfs[Len(dfs)] /\ Top \in Frame
  BY Popped
<1>2. result \in Seq(InGraph) /\ result' \in Seq(InGraph) /\ Resulted \subseteq Resulted'
  BY ResultGrows DEF TypeOK
<1>3. TypeOK'
  BY <1>1, <1>2 DEF TypeOK, InGraph, Frame
<1>4. Path'
  <2> SUFFICES ASSUME NEW i \in 1 .. Len(dfs') PROVE Linked(i)'
    BY DEF Path
  <2>1. i \in 1 .. Len(dfs) /\ Linked(i) /\ dfs'[i] = dfs[i]
    BY <1>1 DEF Path
  <2>2. i < Len(dfs') => i < Len(dfs) /\ dfs'[i + 1] = dfs[i + 1]
    BY <1>1
  <2> QED BY <1>0, <2>1, <2>2 DEF Linked
<1>5. OnStack'
  <2> SUFFICES ASSUME NEW v \in visited' \ Resulted'
               PROVE  \E i \in 1 .. Len(dfs') : dfs'[i].mpd = v /\ dfs'[i].nextDepIdx > 1
    BY DEF OnStack
  <2>1. v \in visited \ Resulted /\ v # Top.mpd
    BY <1>2 DEF TypeOK
  <2>2. PICK i \in 1 .. Len(dfs) : dfs[i].mpd = v /\ dfs[i].nextDepIdx > 1
    BY <2>1 DEF OnStack
  <2> QED BY <2>1, <2>2, <1>1
<1>6. Searched'
  <2> SUFFICES ASSUME NEW i \in 1 .. Len(dfs'), NEW j \in 1 .. dfs'[i].nextDepIdx - 1,
                      i = Len(dfs') \/ j < dfs'[i].nextDepIdx - 1
               PROVE  Done(graph.dep[dfs[i].mpd][j])'
    BY <1>1 DEF Searched
  <2>1. i \in 1 .. Len(dfs) - 1 /\ dfs'[i] = dfs[i] /\ dfs[i] \in Frame
    BY <1>1 DEF TypeOK
  <2>2. CASE j < dfs[i].nextDepIdx - 1
    <3>1. Done(graph.dep[dfs[i].mpd][j])
      BY <2>1, <2>2, <1>1 DEF Searched
    <3> QED BY <3>1, <1>1, <1>2 DEF Done, InGraph
  <2>3. CASE j = dfs[i].nextDepIdx - 1
    <3>1. i = Len(dfs) - 1
      BY <2>1, <2>3, <1>1
    <3>2. graph.dep[dfs[i].mpd][j] = Top.mpd
      BY <2>1, <2>3, <3>1, <1>1 DEF Path, Linked
    <3> QED BY <3>2, <2>1 DEF Done, InGraph
  <2> QED BY <2>1, <2>2, <2>3 DEF Frame
<1>7. Tried'
  <2> SUFFICES ASSUME NEW k \in 1 .. at - 1, graph.nodes[k] \notin Resulted'
               PROVE  k = at - 1 /\ dfs' # <<>> /\ dfs'[1].mpd = graph.nodes[k]
    BY DEF Tried
  <2>1. k = at - 1 /\ dfs[1].mpd = graph.nodes[k]
    BY <1>2 DEF Tried
  <2>2. graph.nodes[k] \in InGraph
    BY GraphTyped DEF TypeOK, InGraph, ToSet
  <2>3. Len(dfs) # 1
    BY <2>1, <2>2, <1>1
  <2> QED BY <2>1, <2>3, <1>1
<1>8. Ended'
  BY DEF Ended
<1> QED BY <1>3, <1>4, <1>5, <1>6, <1>7, <1>8

-----------------------------------------------------------------------------
LEMMA StartKeeps ==
  ASSUME IInv, StartFrom
  PROVE  IInv'
<1> USE DEF IInv
<1> DEFINE e == graph.nodes[at]
<1>1. /\ graph' = graph /\ visited' = visited /\ result' = result /\ outcome' = outcome
      /\ at' = at + 1 /\ at <= Len(graph.nodes) /\ outcome = "sorting"
      /\ dfs = <<>> /\ dfs' = <<[mpd |-> e, nextDepIdx |-> 1]>>
  BY DEF StartFrom, Running, Meta
<1>2. at \in 1 .. Len(graph.nodes) /\ e \in DOMAIN graph.dep
  BY <1>1, GraphTyped DEF TypeOK
<1>3. Len(dfs') = 1 /\ dfs'[1].mpd = e /\ dfs'[1].nextDepIdx = 1 /\ dfs' # <<>>
  BY <1>1
<1>4. dfs' \in Seq(Frame)
  <2>1. [mpd |-> e, nextDepIdx |-> 1] \in Frame
    BY <1>2 DEF Frame
  <2> QED BY <1>1, <2>1
<1>5. TypeOK'
  BY <1>1, <1>2, <1>4, GraphTyped DEF TypeOK, InGraph, Frame
<1>6. Path' /\ Searched'
  BY <1>3 DEF Path, Linked, Searched
<1>7. OnStack' /\ DepsFirst'
  BY <1>1 DEF OnStack, DepsFirst, Resulted, InGraph
<1>8. Tried'
  <2> SUFFICES ASSUME NEW k \in 1 .. at
               PROVE  graph.nodes[k] \in Resulted \/ k = at
    BY <1>1, <1>2, <1>3 DEF Tried, Resulted
  <2> QED BY <1>1, <1>2 DEF Tried
<1>9. Ended'
  BY <1>1 DEF Ended
<1> QED BY <1>5, <1>6, <1>7, <1>8, <1>9

LEMMA SearchKeeps ==
  ASSUME IInv, SearchNext
  PROVE  IInv'
<1> USE DEF IInv
<1> DEFINE n == Len(dfs)
           e == Top.mpd
           k == Top.nextDepIdx
           d == graph.dep[e][k]
           up == [mpd |-> e, nextDepIdx |-> k + 1]
           in == [mpd |-> d, nextDepIdx |-> 1]
<1>1. /\ graph' = graph /\ at' = at /\ result' = result /\ outcome' = outcome
      /\ outcome = "sorting" /\ dfs # <<>> /\ e \in InGraph
      /\ visited' = visited \cup {e} /\ k <= Len(graph.dep[e])
      /\ dfs' = Append([dfs EXCEPT ![n].nextDepIdx = @ + 1], in)
  BY DEF SearchNext, Enter, Running, Meta, Deps
<1>2. n \in Nat \ {0} /\ dfs \in Seq(Frame) /\ Top = dfs[n] /\ Top \in Frame
  BY <1>1 DEF TypeOK, Top, Last
<1>3. e \in DOMAIN graph.dep /\ k \in Nat \ {0} /\ Top = [mpd |-> e, nextDepIdx |-> k]
  BY <1>2 DEF Frame
<1>4. d \in DOMAIN graph.dep
  BY <1>1, <1>3, GraphTyped
<1>5. up \in Frame /\ in \in Frame
  BY <1>3, <1>4 DEF Frame
<1> DEFINE raised == [dfs EXCEPT ![n] = up]
<1>6. [dfs EXCEPT ![n].nextDepIdx = @ + 1] = raised
  <2>1. [dfs[n] EXCEPT !.nextDepIdx = @ + 1] = up
    BY <1>2, <1>3
  <2> HIDE DEF up
  <2> QED BY <2>1, Zenon
<1>7. /\ raised \in Seq(Frame) /\ Len(raised) = n /\ raised[n] = up
      /\ \A i \in 1 .. n - 1 : raised[i] = dfs[i]
  BY <1>2, <1>5
<1> HIDE DEF up, in, raised
<1>8. /\ dfs' \in Seq(Frame) /\ Len(dfs') = n + 1 /\ dfs'[n + 1] = in /\ dfs'[n] = up
      /\ \A i \in 1 .. n - 1 : dfs'[i] = dfs[i]
  <2>1. dfs' = Append(raised, in)
    BY <1>1, <1>6
  <2> QED BY <1>2, <1>5, <1>7, <2>1
<1>9. /\ up.mpd = e /\ up.nextDepIdx = k + 1 /\ in.mpd = d /\ in.nextDepIdx = 1
      /\ dfs[n].mpd = e /\ dfs[n].nextDepIdx = k
  BY <1>2 DEF up, in
<1> HIDE DEF e, k, d, n
<1>10. TypeOK'
  BY <1>1, <1>8 DEF TypeOK, InGraph, Frame
<1>11. Path'
  <2> SUFFICES ASSUME NEW i \in 1 .. n + 1 PROVE Linked(i)'
    BY <1>8 DEF Path
  <2>1. CASE i = n + 1
    BY <2>1, <1>8, <1>9 DEF Linked
  <2>2. CASE i = n
    <3>1. Len(graph.dep[e]) \in Nat
      BY <1>3, GraphTyped
    <3>2. dfs'[n].mpd = e /\ dfs'[n].nextDepIdx = k + 1 /\ dfs'[n + 1].mpd = d
      BY <1>8, <1>9
    <3>3. k + 1 > 1 /\ k + 1 <= Len(graph.dep[e]) + 1 /\ k + 1 - 1 = k
      BY <3>1, <1>1, <1>3
    <3>4. /\ dfs'[n].mpd \in visited' /\ dfs'[n].nextDepIdx <= Len(graph'.dep[dfs'[n].mpd]) + 1
          /\ dfs'[n].nextDepIdx > 1
      BY <3>2, <3>3, <1>1
    <3>5. dfs'[n].nextDepIdx - 1 = k
      BY <3>2, <1>3
    <3>6. dfs'[n + 1].mpd = graph.dep[e][k]
      BY <3>2 DEF d
    <3>7. dfs'[n + 1].mpd = graph'.dep[dfs'[n].mpd][dfs'[n].nextDepIdx - 1]
      BY <3>2, <3>5, <3>6, <1>1
    <3> QED BY <2>2, <3>4, <3>7 DEF Linked
  <2>3. CASE i \in 1 .. n - 1
    <3>1. Linked(i) /\ dfs'[i] = dfs[i] /\ i < Len(dfs)
      BY <2>3, <1>2, <1>8 DEF Path, n
    <3>2. dfs'[i + 1].mpd = dfs[i + 1].mpd
      BY <2>3, <1>2, <1>8, <1>9
    <3> QED BY <3>1, <3>2, <1>1 DEF Linked
  <2> QED BY <2>1, <2>2, <2>3, <1>2
<1>12. OnStack'
  <2> SUFFICES ASSUME NEW v \in visited' \ Resulted'
               PROVE  \E i \in 1 .. n + 1 : dfs'[i].mpd = v /\ dfs'[i].nextDepIdx > 1
    BY <1>8 DEF OnStack
  <2>1. CASE v = e
    BY <2>1, <1>2, <1>3, <1>8, <1>9
  <2>2. CASE v # e
    <3>1. PICK i \in 1 .. n : dfs[i].mpd = v /\ dfs[i].nextDepIdx > 1
      BY <2>2, <1>1 DEF OnStack, Resulted, n
    <3> QED BY <3>1, <2>2, <1>2, <1>8, <1>9
  <2> QED BY <2>1, <2>2
<1>13. Searched'
  <2>1. Resulted' = Resulted /\ InGraph' = InGraph
    BY <1>1 DEF Resulted, InGraph
  <2> SUFFICES ASSUME NEW i \in 1 .. n + 1, NEW j \in 1 .. dfs'[i].nextDepIdx - 1,
                      i = n + 1 \/ j < dfs'[i].nextDepIdx - 1
               PROVE  Done(graph.dep[dfs'[i].mpd][j])
    BY <1>1, <1>8, <2>1 DEF Searched, Done
  <2>2. CASE i = n + 1
    BY <2>2, <1>8, <1>9
  <2>3. CASE i = n
    <3>1. dfs'[i].mpd = dfs[n].mpd /\ dfs'[i].nextDepIdx = dfs[n].nextDepIdx + 1 /\ i # n + 1
      BY <2>3, <1>2, <1>8, <1>9
    <3>2. n \in 1 .. Len(dfs) /\ n = Len(dfs) /\ dfs[n].nextDepIdx \in Nat
      BY <1>2, <1>3, <1>9 DEF n
    <3>3. j \in 1 .. dfs[n].nextDepIdx - 1
      BY <3>1, <3>2
    <3> QED BY <3>1, <3>2, <3>3, Zenon DEF Searched
  <2>4. CASE i \in 1 .. n - 1
    <3>1. dfs'[i] = dfs[i] /\ i \in 1 .. Len(dfs) /\ i # n + 1
      BY <2>4, <1>2, <1>8 DEF n
    <3>2. j \in 1 .. dfs[i].nextDepIdx - 1 /\ j < dfs[i].nextDepIdx - 1
      BY <3>1, Zenon
    <3> QED BY <3>1, <3>2, Zenon DEF Searched
  <2> QED BY <2>2, <2>3, <2>4, <1>2
<1>14. DepsFirst' /\ Ended'
  BY <1>1 DEF DepsFirst, Ended, InGraph
<1>15. Tried'
  <2>1. dfs' # <<>> /\ dfs'[1].mpd = dfs[1].mpd
    BY <1>2, <1>8, <1>9
  <2> QED BY <2>1, <1>1 DEF Tried, Resulted
<1> QED BY <1>10, <1>11, <1>12, <1>13, <1>14, <1>15

LEMMA Appended ==
  ASSUME NEW S, NEW s \in Seq(S), NEW x \in S
  PROVE  /\ Len(s) \in Nat /\ Len(Append(s, x)) = Len(s) + 1 /\ Append(s, x)[Len(s) + 1] = x
         /\ \A i \in 1 .. Len(s) : Append(s, x)[i] = s[i]
         /\ DOMAIN Append(s, x) = 1 .. Len(s) + 1 /\ Len(s) + 1 \in DOMAIN Append(s, x)
  OBVIOUS

LEMMA LastOutKeeps ==
  ASSUME IInv, LastOut
  PROVE  IInv'
<1> USE DEF IInv
<1> DEFINE n == Len(dfs)
           e == Top.mpd
<1>1. /\ graph' = graph /\ at' = at /\ outcome' = outcome
      /\ outcome = "sorting" /\ dfs # <<>> /\ e \in InGraph
      /\ visited' = visited \cup {e} /\ Top.nextDepIdx > Len(graph.dep[e])
      /\ dfs' = Front(dfs)
      /\ result' = IF e \in Resulted THEN result ELSE Append(result, e)
  BY DEF LastOut, Enter, Running, Deps
<1>2. n \in Nat \ {0} /\ Top = dfs[n] /\ Top \in Frame
  BY <1>1 DEF TypeOK, Top, Last
<1> HIDE DEF e
<1>3. \A j \in 1 .. Len(graph.dep[e]) : Done(graph.dep[e][j])
  <2>1. e \in DOMAIN graph.dep /\ graph.dep[e] \in Seq(DOMAIN graph.dep) /\ Top.nextDepIdx \in Nat
    BY <1>2, GraphTyped DEF Frame, e
  <2>2. \A j \in 1 .. dfs[n].nextDepIdx - 1 : Done(graph.dep[dfs[n].mpd][j])
    BY <1>2 DEF Searched
  <2> QED BY <2>1, <2>2, <1>1, <1>2 DEF e
<1>4. e \notin Resulted =>
        /\ Len(result) \in Nat /\ Len(result') = Len(result) + 1 /\ result'[Len(result) + 1] = e
        /\ \A i \in 1 .. Len(result) : result'[i] = result[i]
        /\ DOMAIN result' = 1 .. Len(result) + 1 /\ Len(result) + 1 \in DOMAIN result'
  <2> SUFFICES ASSUME e \notin Resulted
               PROVE  /\ Len(result) \in Nat /\ Len(result') = Len(result) + 1 /\ result'[Len(result) + 1] = e
                      /\ \A i \in 1 .. Len(result) : result'[i] = result[i]
                      /\ DOMAIN result' = 1 .. Len(result) + 1 /\ Len(result) + 1 \in DOMAIN result'
    OBVIOUS
  <2>1. result \in Seq(InGraph) /\ e \in InGraph /\ result' = Append(result, e)
    BY <1>1 DEF TypeOK
  <2> DEFINE S == InGraph
             s == result
             a == Append(s, e)
  <2>2. s \in Seq(S) /\ e \in S
    BY <2>1
  <2>3. /\ Len(s) \in Nat /\ Len(a) = Len(s) + 1 /\ a[Len(s) + 1] = e
        /\ \A i \in 1 .. Len(s) : a[i] = s[i]
        /\ DOMAIN a = 1 .. Len(s) + 1 /\ Len(s) + 1 \in DOMAIN a
    <3> HIDE DEF S, s
    <3> QED BY <2>2, Appended
  <2>4. result' = a /\ s = result
    BY <2>1
  <2> HIDE DEF a, s
  <2> QED BY <2>3, <2>4
<1>5. DepsFirst'
  <2>1. CASE e \in Resulted
    <3>1. result' = result /\ graph' = graph
      BY <2>1, <1>1
    <3> QED BY <3>1 DEF DepsFirst, InGraph
  <2>2. CASE e \notin Resulted
    <3>1. /\ result \in Seq(InGraph) /\ result' = Append(result, e)
      BY <2>2, <1>1 DEF TypeOK
    <3>2. /\ Len(result) \in Nat /\ Len(result') = Len(result) + 1 /\ result'[Len(result) + 1] = e
          /\ \A i \in 1 .. Len(result) : result'[i] = result[i]
          /\ DOMAIN result' = 1 .. Len(result) + 1
      BY <2>2, <1>4
    <3> SUFFICES ASSUME NEW i \in 1 .. Len(result) + 1,
                        NEW x \in ToSet(graph.dep[result'[i]]) \cap InGraph
                 PROVE  \E j \in 1 .. i - 1 : result'[j] = x
      BY <3>2, <1>1 DEF DepsFirst, InGraph
    <3>3. CASE i = Len(result) + 1
      <4>1. graph.dep[e] \in Seq(DOMAIN graph.dep)
        BY <1>1, GraphTyped
      <4>2. x \in Resulted
        BY <3>2, <3>3, <4>1, <1>3 DEF ToSet, Done
      <4> QED BY <4>2, <3>1, <3>2, <3>3 DEF Resulted, ToSet
    <3>4. CASE i \in 1 .. Len(result)
      <4>1. i \in DOMAIN result /\ result'[i] = result[i]
        BY <3>1, <3>2, <3>4
      <4>2. PICK j \in 1 .. i - 1 : result[j] = x
        BY <4>1 DEF DepsFirst
      <4> QED BY <4>2, <3>2, <3>4
    <3> QED BY <3>2, <3>3, <3>4
  <2> QED BY <2>1, <2>2
<1>6. e \in Resulted'
  <2>1. CASE e \in Resulted
    BY <2>1, <1>1 DEF Resulted
  <2>2. CASE e \notin Resulted
    <3>1. /\ result \in Seq(InGraph) /\ result' = Append(result, e)
      BY <2>2, <1>1 DEF TypeOK
    <3>2. Len(result) + 1 \in DOMAIN result' /\ result'[Len(result) + 1] = e
      BY <2>2, <1>4
    <3> QED BY <3>2 DEF Resulted, ToSet
  <2> QED BY <2>1, <2>2
<1>7. visited' \subseteq InGraph
  BY <1>1 DEF TypeOK
<1>8. result' = result \/ (result' = Append(result, e) /\ e \in InGraph)
  BY <1>1
<1> QED BY <1>1, <1>5, <1>6, <1>7, <1>8, PopKeeps DEF e

LEMMA MeetKeeps ==
  ASSUME IInv, MeetAgain
  PROVE  IInv'
<1> USE DEF IInv
<1>1. /\ graph' = graph /\ at' = at /\ visited' = visited /\ result' = result
      /\ outcome = "sorting" /\ dfs # <<>> /\ Top.mpd \in visited /\ Top.nextDepIdx = 1
      /\ Resulted' = Resulted /\ InGraph' = InGraph
  BY DEF MeetAgain, Running, FirstIn, Resulted, InGraph
<1>2. CASE Top.mpd \in Resulted
  <2>1. dfs' = Front(dfs) /\ outcome' = outcome
    BY <1>2 DEF MeetAgain
  <2>2. DepsFirst' /\ visited' \subseteq InGraph
    BY <1>1 DEF DepsFirst, TypeOK
  <2> QED BY <1>1, <1>2, <2>1, <2>2, PopKeeps
<1>3. CASE Top.mpd \notin Resulted
  <2>1. dfs' = dfs /\ outcome' = "abort"
    BY <1>3 DEF MeetAgain
  <2>2. PICK i \in 1 .. Len(dfs) : dfs[i].mpd = Top.mpd /\ dfs[i].nextDepIdx > 1
    BY <1>1, <1>3 DEF OnStack
  <2>3. Len(dfs) \in Nat /\ Top = dfs[Len(dfs)] /\ i \in 1 .. Len(dfs) - 1
    BY <1>1, <2>2 DEF TypeOK, Top, Last
  <2>4. \A m \in 1 .. Len(dfs) - 1 : dfs[m + 1].mpd \in ToSet(graph.dep[dfs[m].mpd])
    <3> SUFFICES ASSUME NEW m \in 1 .. Len(dfs) - 1
                 PROVE  dfs[m + 1].mpd \in ToSet(graph.dep[dfs[m].mpd])
      OBVIOUS
    <3>1. m \in 1 .. Len(dfs) /\ m < Len(dfs) /\ dfs[m] \in Frame
      BY <2>3 DEF TypeOK
    <3>2. graph.dep[dfs[m].mpd] \in Seq(DOMAIN graph.dep)
      <4>1. dfs[m].mpd \in DOMAIN graph.dep
        BY <3>1 DEF Frame
      <4>2. graph.dep \in [DOMAIN graph.dep -> Seq(DOMAIN graph.dep)]
        BY GraphTyped
      <4> QED BY ONLY <4>1, <4>2
    <3>3. /\ dfs[m].nextDepIdx - 1 \in 1 .. Len(graph.dep[dfs[m].mpd])
          /\ dfs[m + 1].mpd = graph.dep[dfs[m].mpd][dfs[m].nextDepIdx - 1]
      <4>1. Linked(m)
        BY <3>1 DEF Path
      <4>2. dfs[m].nextDepIdx \in Nat /\ Len(graph.dep[dfs[m].mpd]) \in Nat
        BY <3>1, <3>2 DEF Frame
      <4> QED BY ONLY <4>1, <4>2, <3>1 DEF Linked
    <3>4. dfs[m].nextDepIdx - 1 \in DOMAIN graph.dep[dfs[m].mpd]
      BY ONLY <3>2, <3>3
    <3> QED BY ONLY <3>3, <3>4 DEF ToSet
  <2>5. StackIsCycle'
    BY <2>1, <2>2, <2>3, <2>4, <1>1 DEF StackIsCycle, Top
  <2> QED BY <1>1, <2>1, <2>5
    DEF TypeOK, Frame, Path, Linked, OnStack, Searched, Done, DepsFirst, Tried, Ended
<1> QED BY <1>2, <1>3

(* The order of the generated statements: whatever the graph, the sort ends *)
(* with every element behind what it reads, or has found a cycle.           *)
THEOREM SortIsRight == SortSpec => []SortsOrAborts
<1>1. SortInit => IInv
  <2> SUFFICES ASSUME SortInit PROVE IInv
    OBVIOUS
  <2>1. TypeOK
    BY GraphsAssumption DEF SortInit, TypeOK
  <2> QED BY <2>1
    DEF SortInit, IInv, Path, OnStack, Searched, DepsFirst, Tried, Ended
<1>2. IInv /\ [SortNext]_sortVars => IInv'
  <2>1. ASSUME IInv, OutOfRegion PROVE IInv'
    <3>1. DepsFirst' /\ visited' \subseteq InGraph
      BY <2>1 DEF OutOfRegion, IInv, TypeOK, DepsFirst, InGraph
    <3> QED BY <2>1, <3>1, PopKeeps DEF OutOfRegion, Running
  <2>2. ASSUME IInv, AllTried PROVE IInv'
    BY <2>2 DEF AllTried, Running, IInv, TypeOK, InGraph, Frame, Path, Linked, OnStack,
                Resulted, Searched, Done, DepsFirst, Tried, Ended
  <2>3. ASSUME IInv, UNCHANGED sortVars PROVE IInv'
    BY <2>3 DEF sortVars, IInv, TypeOK, InGraph, Frame, Path, Linked, OnStack, Resulted,
                Searched, Done, DepsFirst, Tried, Ended, StackIsCycle, Top
  <2> QED BY <2>1, <2>2, <2>3, StartKeeps, SearchKeeps, LastOutKeeps, MeetKeeps DEF SortNext
<1>3. IInv => SortsOrAborts
  <2> SUFFICES ASSUME IInv, outcome = "sorted" PROVE Resulted = InGraph
    BY DEF IInv, SortsOrAborts, Ended
  <2>1. Resulted \subseteq InGraph
    BY DEF IInv, TypeOK, Resulted, ToSet
  <2>2. InGraph \subseteq Resulted
    BY GraphTyped DEF IInv, TypeOK, Tried, Ended, InGraph, ToSet
  <2> QED BY <2>1, <2>2
<1> QED BY <1>1, <1>2, <1>3, PTL DEF SortSpec
-----------------------------------------------------------------------------
(* A set of natural numbers has a least one.                                *)
LEMMA Least ==
  ASSUME NEW S \in SUBSET Nat, S # {}
  PROVE  \E n \in S : \A k \in S : n <= k
<1> DEFINE R == OpToRel(<, Nat)
<1>1. IsWellFoundedOn(R, Nat)
  BY NatLessThanWellFounded
<1>2. PICK n \in S : \A k \in S : <<k, n>> \notin R
  <2> HIDE DEF R
  <2> QED BY <1>1, WFMin
<1>3. \A k \in S : <<k, n>> \in R <=> k < n
  <2>1. R = {ss \in Nat \X Nat : ss[1] < ss[2]}
    BY DEF OpToRel
  <2> HIDE DEF R
  <2>2. ASSUME NEW k \in S PROVE <<k, n>> \in R <=> k < n
    <3>1. <<k, n>> \in Nat \X Nat
      OBVIOUS
    <3>2. <<k, n>>[1] = k /\ <<k, n>>[2] = n
      OBVIOUS
    <3> QED BY <2>1, <3>1, <3>2
  <2> QED BY <2>2
<1> HIDE DEF R
<1>4. \A k \in S : ~(k < n)
  BY <1>2, <1>3
<1> QED
  BY <1>4

(* What a block looks at: the blocks in it, and those that continue them.   *)
Inner(d, b) ==
  LET B == Blocks[d]
  IN ToSet(B[b].subs) \cup UNION {ToSet(B[k].cons) : k \in ToSet(B[b].subs)}

(* They were closed before it.                                              *)
LEMMA InnerBelow ==
  ASSUME NEW d \in Designs, NEW b \in DOMAIN Blocks[d]
  PROVE  /\ b \in Nat /\ Inner(d, b) \subseteq DOMAIN Blocks[d]
         /\ \A c \in Inner(d, b) : c \in Nat /\ c < b
         /\ ToSet(Blocks[d][b].subs) \subseteq DOMAIN Blocks[d]
<1> DEFINE B == Blocks[d]
<1>1. DOMAIN B = 1 .. Len(B) /\ Len(B) \in Nat
  BY BlocksAssumption
<1>2. \A k \in DOMAIN B : ToSet(B[k].subs) \subseteq 1 .. k - 1 /\ ToSet(B[k].cons) \subseteq 1 .. k - 1
  BY BlocksAssumption
<1> HIDE DEF B
<1>3. \A k \in DOMAIN B : \A c \in 1 .. k - 1 : c \in DOMAIN B /\ c \in Nat /\ c < k
  BY <1>1
<1>4. ASSUME NEW c \in Inner(d, b) PROVE c \in DOMAIN B /\ c \in Nat /\ c < b
  <2>1. CASE c \in ToSet(B[b].subs)
    BY <1>2, <1>3, <2>1 DEF B
  <2>2. CASE \E k \in ToSet(B[b].subs) : c \in ToSet(B[k].cons)
    <3> PICK k \in ToSet(B[b].subs) : c \in ToSet(B[k].cons)
      BY <2>2
    <3>1. k \in DOMAIN B /\ k \in Nat /\ k < b
      BY <1>2, <1>3 DEF B
    <3>2. c \in DOMAIN B /\ c \in Nat /\ c < k
      BY <1>2, <1>3, <3>1
    <3> QED BY <1>1, <3>1, <3>2 DEF B
  <2> QED BY <2>1, <2>2 DEF Inner, B
<1>5. ToSet(B[b].subs) \subseteq DOMAIN B
  BY <1>4 DEF Inner, B
<1> QED BY <1>1, <1>4, <1>5 DEF B

(* What the recursive functions of the model say: what is inside a block,   *)
(* and whether it runs.                                                     *)
IsInside(d, f) ==
  f = [k \in DOMAIN Blocks[d] |->
         {k} \cup UNION {f[c] \cup UNION {f[e] : e \in ToSet(Blocks[d][c].cons)} :
                           c \in ToSet(Blocks[d][k].subs)}]

Sets(d, s, b) == \E r \in Blocks[d][b].regs : s.val[r] # 0

IsRunning(d, s, f) ==
  f = [b \in DOMAIN Blocks[d] |->
         \/ Sets(d, s, b)
         \/ \E k \in ToSet(Blocks[d][b].subs) :
              f[k] \/ \E c \in ToSet(Blocks[d][k].cons) : f[c]]

(* The pairs of blocks of which the second is inside the first: the least   *)
(* relation that holds of every block and itself and goes through what a    *)
(* block looks at.                                                          *)
Closed(d, R) ==
  \A b \in DOMAIN Blocks[d] :
    /\ <<b, b>> \in R
    /\ \A c \in Inner(d, b), k \in DOMAIN Blocks[d] : <<c, k>> \in R => <<b, k>> \in R

Within(d) ==
  {p \in (DOMAIN Blocks[d]) \X (DOMAIN Blocks[d]) : \A R : Closed(d, R) => p \in R}

(* It is what one step through the blocks makes of itself.                  *)
LEMMA WithinIs ==
  ASSUME NEW d \in Designs, NEW b \in DOMAIN Blocks[d], NEW k \in DOMAIN Blocks[d]
  PROVE  <<b, k>> \in Within(d)
           <=> k = b \/ \E c \in Inner(d, b) : <<c, k>> \in Within(d)
<1> DEFINE D == DOMAIN Blocks[d]
           L == Within(d)
           M == {p \in D \X D : p[1] = p[2] \/ \E c \in Inner(d, p[1]) : <<c, p[2]>> \in L}
<1>1. Closed(d, L)
  BY DEF Closed, Within
<1>2. M \subseteq L
  <2> SUFFICES ASSUME NEW x \in D, NEW y \in D,
                      x = y \/ \E c \in Inner(d, x) : <<c, y>> \in L
               PROVE  <<x, y>> \in L
    OBVIOUS
  <2> HIDE DEF L
  <2> QED BY <1>1 DEF Closed
<1>3. Closed(d, M)
  <2> SUFFICES ASSUME NEW x \in D
               PROVE  /\ <<x, x>> \in M
                      /\ \A c \in Inner(d, x), y \in D : <<c, y>> \in M => <<x, y>> \in M
    BY DEF Closed
  <2>1. \A y \in D : <<x, y>> \in M <=> x = y \/ \E c \in Inner(d, x) : <<c, y>> \in L
    <3> HIDE DEF L
    <3> QED OBVIOUS
  <2> HIDE DEF M, L
  <2> QED BY <1>2, <2>1
<1>4. L \subseteq M
  <2> HIDE DEF M
  <2> QED BY <1>3 DEF Within
<1>5. <<b, k>> \in M <=> b = k \/ \E c \in Inner(d, b) : <<c, k>> \in L
  <2> HIDE DEF L
  <2> QED OBVIOUS
<1> HIDE DEF M, L
<1> QED BY <1>2, <1>4, <1>5 DEF L

(* What is inside a block is the block and what is inside what it looks at. *)
LEMMA InsideIs ==
  ASSUME NEW d \in Designs
  PROVE  \A b \in DOMAIN Blocks[d] : \A k :
           k \in Inside(d, b) <=> k = b \/ \E c \in Inner(d, b) : k \in Inside(d, c)
<1> DEFINE D == DOMAIN Blocks[d]
           Made(h, b) == {b} \cup UNION {h[c] \cup UNION {h[e] : e \in ToSet(Blocks[d][c].cons)} :
                                           c \in ToSet(Blocks[d][b].subs)}
           f == [b \in D |-> {k \in D : <<b, k>> \in Within(d)}]
           g == CHOOSE h : IsInside(d, h)
<1>1. \A h : \A b \in D : \A k :
        k \in Made(h, b) <=> k = b \/ \E c \in Inner(d, b) : k \in h[c]
  BY DEF Inner
<1>2. \A h : IsInside(d, h) <=> h = [b \in D |-> Made(h, b)]
  BY DEF IsInside
<1> HIDE DEF Made
<1>3. IsInside(d, f)
  <2> SUFFICES ASSUME NEW b \in D
               PROVE  f[b] = Made(f, b)
    BY <1>2
  <2>1. Inner(d, b) \subseteq D
    BY InnerBelow
  <2>2. \A c \in D : \A k : k \in f[c] <=> k \in D /\ <<c, k>> \in Within(d)
    OBVIOUS
  <2>3. \A k \in D : <<b, k>> \in Within(d)
                       <=> k = b \/ \E c \in Inner(d, b) : <<c, k>> \in Within(d)
    BY WithinIs
  <2>4. \A k : k \in Made(f, b) <=> k = b \/ \E c \in Inner(d, b) : k \in f[c]
    BY <1>1
  <2> HIDE DEF f
  <2>5. \A k : k \in f[b] <=> k \in Made(f, b)
    BY <2>1, <2>2, <2>3, <2>4
  <2> QED BY <2>5 DEF Made, f
<1>4. IsInside(d, g)
  <2> HIDE DEF f
  <2> QED BY <1>3
<1>5. \A b : Inside(d, b) = g[b]
  BY DEF Inside, IsInside
<1> HIDE DEF g
<1>6. \A b \in D : g[b] = Made(g, b)
  BY <1>2, <1>4
<1> QED BY <1>1, <1>5, <1>6

(* A block runs if a register of it is set, or of a block inside it.        *)
Runs(d, s) == [b \in DOMAIN Blocks[d] |-> \E k \in Inside(d, b) : Sets(d, s, k)]

(* That is what the recursive function of the counters says of a block ...  *)
LEMMA RunsIsRunning ==
  ASSUME NEW d \in Designs, NEW s
  PROVE  IsRunning(d, s, Runs(d, s))
<1> DEFINE D == DOMAIN Blocks[d]
           f == Runs(d, s)
<1> SUFFICES ASSUME NEW b \in D
             PROVE  f[b] = \/ Sets(d, s, b)
                           \/ \E k \in ToSet(Blocks[d][b].subs) :
                                f[k] \/ \E c \in ToSet(Blocks[d][k].cons) : f[c]
  BY DEF IsRunning, Runs
<1>1. \A c \in D : f[c] = \E k \in Inside(d, c) : Sets(d, s, k)
  BY DEF Runs
<1> HIDE DEF f
<1>2. f[b] = (Sets(d, s, b) \/ \E c \in Inner(d, b) : f[c])
  BY <1>1, InsideIs, InnerBelow
<1>3. (\E c \in Inner(d, b) : f[c])
        = \E k \in ToSet(Blocks[d][b].subs) : f[k] \/ \E c \in ToSet(Blocks[d][k].cons) : f[c]
  <2>1. \A c : c \in Inner(d, b) <=>
          \/ c \in ToSet(Blocks[d][b].subs)
          \/ \E k \in ToSet(Blocks[d][b].subs) : c \in ToSet(Blocks[d][k].cons)
    BY DEF Inner
  <2> QED BY <2>1
<1> QED BY <1>2, <1>3

(* ... and nothing else says it.                                            *)
LEMMA OneRunning ==
  ASSUME NEW d \in Designs, NEW s, NEW f, NEW g, IsRunning(d, s, f), IsRunning(d, s, g)
  PROVE  f = g
<1> DEFINE D == DOMAIN Blocks[d]
           T == {b \in D : f[b] # g[b]}
<1>1. \A h : IsRunning(d, s, h) =>
        \A b \in D : h[b] = (Sets(d, s, b) \/ \E c \in Inner(d, b) : h[c])
  <2> SUFFICES ASSUME NEW h, IsRunning(d, s, h), NEW b \in D
               PROVE  h[b] = (Sets(d, s, b) \/ \E c \in Inner(d, b) : h[c])
    OBVIOUS
  <2>1. h[b] = (\/ Sets(d, s, b)
                \/ \E k \in ToSet(Blocks[d][b].subs) :
                     h[k] \/ \E c \in ToSet(Blocks[d][k].cons) : h[c])
    BY DEF IsRunning
  <2>2. \A c : c \in Inner(d, b) <=>
          \/ c \in ToSet(Blocks[d][b].subs)
          \/ \E k \in ToSet(Blocks[d][b].subs) : c \in ToSet(Blocks[d][k].cons)
    BY DEF Inner
  <2> QED BY <2>1, <2>2
<1>2. CASE T # {}
  <2>1. T \subseteq Nat
    BY InnerBelow
  <2>2. PICK b \in T : \A c \in T : b <= c
    <3> HIDE DEF T
    <3> QED BY <2>1, <1>2, Least
  <2>3. \A c \in Inner(d, b) : c \in D /\ c \notin T
    BY <2>2, <2>1, InnerBelow
  <2>4. \A c \in Inner(d, b) : f[c] = g[c]
    BY <2>3
  <2>5. f[b] = g[b]
    BY <2>2, <2>4, <1>1
  <2> QED BY <2>2, <2>5
<1>3. CASE T = {}
  <2>1. \A b \in D : f[b] = g[b]
    BY <1>3
  <2>2. f = [b \in D |-> f[b]] /\ g = [b \in D |-> g[b]]
    BY DEF IsRunning
  <2> QED BY <2>1, <2>2
<1> QED BY <1>2, <1>3

(* The bits of the counters are right for every design and every state.     *)
LEMMA BitsAreRight ==
  ASSUME NEW d \in Designs, NEW s
  PROVE  CurBits(d, s) = Ran(d, s)
<1>1. CurBits(d, s) = CHOOSE f : IsRunning(d, s, f)
  BY DEF CurBits, IsRunning, Sets
<1>2. IsRunning(d, s, CurBits(d, s))
  BY <1>1, RunsIsRunning
<1>3. Ran(d, s) = Runs(d, s)
  BY DEF Ran, Runs, Sets
<1> QED BY <1>2, <1>3, RunsIsRunning, OneRunning

-----------------------------------------------------------------------------
(* What was sorted before is what the model runs.                           *)
Generated ==
  /\ graph = GraphOf(design)
  /\ phase # "build" => outcome = "sorted"

(* A model that runs has a statement for every element, each behind those   *)
(* of the elements it reads.                                                *)
RunsInOrder == phase # "build" => Resulted = ToSet(GraphOf(design).nodes) /\ DepsFirst

(* Outside of "build" the sort is left alone.                               *)
LEMMA SortOnlyInBuild ==
  ASSUME Next, ~Build
  PROVE  /\ UNCHANGED sortVars /\ UNCHANGED <<design, long>>
         /\ phase # "build" /\ phase' # "build"
<1>1. CASE StartCycle \/ AssignSimValue
  BY <1>1 DEF StartCycle, AssignSimValue
<1>2. CASE StartMainOpEleSimNeg \/ StartFinalizeEleSimNeg \/ StartMainOpEleSimPos
  BY <1>2 DEF StartMainOpEleSimNeg, StartFinalizeEleSimNeg, StartMainOpEleSimPos, Step
<1>3. CASE CurCycleCollectDataPos \/ StartFinalizeEleSimPos
  BY <1>3 DEF CurCycleCollectDataPos, StartFinalizeEleSimPos, Step
<1>4. CASE LongRunGoesOn \/ LongRunReturns \/ GenNextEvent
  BY <1>4 DEF LongRunGoesOn, LongRunReturns, GenNextEvent
<1> QED BY <1>1, <1>2, <1>3, <1>4 DEF Next

(* The generated model sorts the elements of its design, and runs only what *)
(* was sorted: every element, none before one it reads.                     *)
THEOREM ModelRunsInOrder == Spec => []RunsInOrder
<1>1. Init => SortInit
  BY DEF Init
<1>2. [Next]_simVars => [SortNext]_sortVars
  <2>1. ASSUME Build PROVE SortNext
    BY <2>1 DEF Build
  <2>2. UNCHANGED simVars => UNCHANGED sortVars
    BY DEF simVars
  <2> QED BY <2>1, <2>2, SortOnlyInBuild
<1>3. Spec => []SortsOrAborts
  BY <1>1, <1>2, SortIsRight, PTL DEF Spec, SortSpec
<1>4. Init => Generated
  BY DEF Init, Generated
<1>5. Generated /\ [Next]_simVars => Generated'
  <2>1. ASSUME Generated, Build PROVE Generated'
    <3>1. graph' = graph
      BY <2>1 DEF Build, SortNext, StartFrom, OutOfRegion, MeetAgain, SearchNext, LastOut, AllTried
    <3>2. design' = design /\ phase' = IF outcome' = "sorted" THEN "front" ELSE "build"
      BY <2>1 DEF Build
    <3> QED BY <2>1, <3>1, <3>2 DEF Generated
  <2>2. ASSUME Generated, Next, ~Build PROVE Generated'
    BY <2>2, SortOnlyInBuild DEF Generated, sortVars
  <2>3. ASSUME Generated, UNCHANGED simVars PROVE Generated'
    BY <2>3 DEF Generated, simVars, sortVars
  <2> QED BY <2>1, <2>2, <2>3
<1>6. Generated /\ SortsOrAborts => RunsInOrder
  BY DEF Generated, SortsOrAborts, RunsInOrder, InGraph
<1> QED BY <1>3, <1>4, <1>5, <1>6, PTL DEF Spec

-----------------------------------------------------------------------------
(* The inductive invariant of the counters: between the collection and the  *)
(* edge they are one cycle ahead, in the blocks that run.                   *)
Counting ==
  /\ design \in Designs
  /\ DOMAIN ran = DOMAIN Blocks[design]
  /\ ~long => perf = IF phase = "posFinal" THEN Increased(ran, Ran(design, store)) ELSE ran

(* The performance counters of a model that is run cycle by cycle count the *)
(* cycles in which a block, or what is inside it, ran: for every design,    *)
(* and for blocks in blocks of any depth.                                   *)
THEOREM CountersExact == Spec => []PerfExact
<1>1. Init => Counting
  BY DEF Init, Counting
<1>2. Counting /\ [Next]_simVars => Counting'
  <2> SUFFICES ASSUME Counting, [Next]_simVars PROVE Counting'
    OBVIOUS
  <2> USE DEF Counting
  <2>1. CASE Build
    BY <2>1 DEF Build
  <2>2. CASE StartCycle \/ AssignSimValue
    BY <2>2 DEF StartCycle, AssignSimValue
  <2>3. CASE StartMainOpEleSimNeg \/ StartFinalizeEleSimNeg \/ StartMainOpEleSimPos
    BY <2>3 DEF StartMainOpEleSimNeg, StartFinalizeEleSimNeg, StartMainOpEleSimPos, Step
  <2>4. CASE CurCycleCollectDataPos
    <3>1. /\ phase = "posCollect" /\ phase' = "posFinal" /\ store' = store
          /\ design' = design /\ long' = long /\ ran' = ran
      BY <2>4 DEF CurCycleCollectDataPos, Step
    <3>2. ~long => perf' = Increased(perf, CurBits(design, store))
      BY <2>4 DEF CurCycleCollectDataPos, PerfCol
    <3>3. CurBits(design, store) = Ran(design, store)
      BY BitsAreRight
    <3> QED BY <3>1, <3>2, <3>3
  <2>5. CASE StartFinalizeEleSimPos
    <3>1. /\ phase = "posFinal" /\ phase' # "posFinal"
          /\ design' = design /\ long' = long /\ ran' = Increased(ran, Ran(design, store))
      BY <2>5 DEF StartFinalizeEleSimPos, Step
    <3>2. ~long => perf' = perf
      BY <2>5 DEF StartFinalizeEleSimPos
    <3>3. DOMAIN ran' = DOMAIN ran
      BY <3>1 DEF Increased
    <3> QED BY <3>1, <3>2, <3>3
  <2>6. CASE LongRunGoesOn \/ LongRunReturns \/ GenNextEvent
    BY <2>6 DEF LongRunGoesOn, LongRunReturns, GenNextEvent
  <2>7. CASE UNCHANGED simVars
    BY <2>7 DEF simVars
  <2> QED BY <2>1, <2>2, <2>3, <2>4, <2>5, <2>6, <2>7 DEF Next
<1>3. Counting => PerfExact
  BY DEF Counting, PerfExact
<1> QED BY <1>1, <1>2, <1>3, PTL DEF Spec
=============================================================================
