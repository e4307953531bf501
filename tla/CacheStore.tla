----------------------------- MODULE CacheStore -----------------------------
(***************************************************************************)
(* What the cache server of example/cacheAc promises.  Requests stand in   *)
(* one line; the first may go on to the place its bank has for one request.*)
(* A bank executes the request in its place when it likes: a write changes *)
(* the store, a load is answered with what the store holds then, and one   *)
(* load is answered at a time.  A bank may also clear a row.               *)
(***************************************************************************)
EXTENDS Naturals, Sequences

CONSTANTS Banks, Rows, Value, Cleared, Capacity

VARIABLES line, place, store, answer

storeVars == <<line, place, store, answer>>

Request == [isLoad : BOOLEAN, bank : Banks, row : Rows, value : Value]

Nothing  == [is |-> "nothing"]
Asks(r)  == [is |-> "request", request |-> r]
Answers(r, v) == [is |-> "answer", bank |-> r.bank, row |-> r.row, value |-> v]

StoreInit ==
  /\ line = << >>
  /\ place = [b \in Banks |-> Nothing]
  /\ store = [b \in Banks |-> [r \in Rows |-> Cleared]]
  /\ answer = Nothing

Ask ==
  /\ Len(line) < Capacity
  /\ \E r \in Request : line' = Append(line, r)
  /\ UNCHANGED <<place, store, answer>>

(* A turn: the banks of "write" and "load" execute what they have, those of *)
(* "clear" clear a row, and the first request moves if "move".              *)
Occupied(b) == place[b] # Nothing
Mine(b)     == place[b].request

Turn(write, load, clear, move) ==
  /\ \A b \in write : Occupied(b) /\ ~Mine(b).isLoad
  /\ \A b \in load : /\ Occupied(b) /\ Mine(b).isLoad
                     /\ answer' = Answers(Mine(b), store[b][Mine(b).row])
  /\ load = {} => answer' = Nothing
  /\ \A b \in Banks \ (write \cup clear) : store'[b] = store[b]
  /\ \A b \in write : store'[b] = [store[b] EXCEPT ![Mine(b).row] = Mine(b).value]
  /\ \A b \in clear : \E r \in Rows : store'[b] = [store[b] EXCEPT ![r] = Cleared]
  /\ move => /\ line # << >>
             /\ Occupied(Head(line).bank) => Head(line).bank \in write \cup load
  /\ line'  = IF move THEN Tail(line) ELSE line
  /\ place' = [b \in Banks |-> IF move /\ Head(line).bank = b THEN Asks(Head(line))
                               ELSE IF b \in write \cup load THEN Nothing ELSE place[b]]

TurnNext ==
  \E write \in SUBSET Banks : \E clear \in SUBSET (Banks \ write) :
    \E load \in {{}} \cup {{b} : b \in Banks \ (write \cup clear)} :
      \E move \in BOOLEAN : Turn(write, load, clear, move)

StoreNext == Ask \/ TurnNext

StoreSpec == StoreInit /\ [][StoreNext]_storeVars
=============================================================================
