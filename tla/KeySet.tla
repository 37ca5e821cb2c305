-------------------------------- MODULE KeySet --------------------------------
(***************************************************************************)
(* A set in which a key stands for its element: what the code that looks   *)
(* up by a field takes a HashSet of elements for.                          *)
(***************************************************************************)
CONSTANTS
  Names,     \* the keys
  Others,    \* what else is in an element
  Nothing    \* no element

VARIABLES
  held,      \* held[k]: the rest of the element with the key k
  call,      \* the last call, and its key
  answer     \* what the last call returned

keySet == <<held, call, answer>>

KeySetInit ==
  held = [k \in Names |-> Nothing] /\ call = <<>> /\ answer = Nothing

\* An element whose key is there is not put in its place.
Insert(k, o) ==
  /\ call' = <<"insert", k>>
  /\ answer' = (held[k] = Nothing)
  /\ held' = IF answer' THEN [held EXCEPT ![k] = o] ELSE held

Get(k) ==
  /\ call' = <<"get", k>>
  /\ answer' = held[k]
  /\ UNCHANGED held

Take(k) ==
  /\ call' = <<"remove", k>>
  /\ answer' = held[k]
  /\ held' = [held EXCEPT ![k] = Nothing]

KeySetNext ==
  \E k \in Names :
    \/ Get(k) \/ Take(k)
    \/ \E o \in Others : Insert(k, o)

KeySetSpec == KeySetInit /\ [][KeySetNext]_keySet
===============================================================================
