------------------------------- MODULE Store -------------------------------
(***************************************************************************)
(* What linking promises: a memory or a table is one object, made by one   *)
(* module, and every module that imports it sees the size all the others   *)
(* see.  A module never changes its objects, and they only grow.           *)
(***************************************************************************)
EXTENDS Integers

CONSTANTS Slots

VARIABLES status,   \* of the module in each slot
          object,   \* the slot that made its memory and its table, or 0
          size      \* what it sees of them

Shared == {"memory", "table"}

Nothing == [k \in Shared |-> 0]

Init ==
  /\ status = [s \in Slots |-> "none"]
  /\ object = [s \in Slots |-> Nothing]
  /\ size = [s \in Slots |-> Nothing]

Load(s) ==
  /\ status[s] = "none"
  /\ status' = [status EXCEPT ![s] = "loaded"]
  /\ UNCHANGED <<object, size>>

Makes(s, k) == object'[s][k] = s

Links(s, k) ==
  \E t \in Slots \ {s} :
    object[t][k] # 0 /\ object'[s][k] = object[t][k] /\ size'[s][k] = size[t][k]

(* A module makes or links the objects it does not have yet.               *)
Attach(s) ==
  /\ status[s] # "none"
  /\ object' \in [Slots -> [Shared -> Slots \cup {0}]]
  /\ \A t \in Slots \ {s} : object'[t] = object[t] /\ size'[t] = size[t]
  /\ \A k \in Shared :
       \/ object'[s][k] = object[s][k] /\ size'[s][k] = size[s][k]
       \/ object[s][k] = 0 /\ (Makes(s, k) \/ Links(s, k))
  /\ UNCHANGED status

Instantiate(s) ==
  /\ status[s] = "loaded"
  /\ status' = [status EXCEPT ![s] = "instantiated"]
  /\ UNCHANGED <<object, size>>

(* Every module that has the object sees it grow.                          *)
Grow(k, o) ==
  /\ \E n \in {size'[o][k]} :
       /\ n > size[o][k]
       /\ size' = [s \in Slots |->
            IF object[s][k] = o THEN [size[s] EXCEPT ![k] = n] ELSE size[s]]
  /\ object[o][k] = o
  /\ UNCHANGED <<status, object>>

Unload ==
  /\ status' = [s \in Slots |-> "none"]
  /\ object' = [s \in Slots |-> Nothing]
  /\ size' = [s \in Slots |-> Nothing]

Next ==
  \/ \E s \in Slots : Load(s) \/ Attach(s) \/ Instantiate(s)
  \/ \E k \in Shared, o \in Slots : Grow(k, o)
  \/ Unload

Spec == Init /\ [][Next]_<<status, object, size>>
=============================================================================
