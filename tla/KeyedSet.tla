------------------------------- MODULE KeyedSet -------------------------------
(***************************************************************************)
(* A HashSet of elements with a key among their fields, looked up by that  *)
(* key through Borrow: Baz of hashmap_but_key_ref_to_value, TaskContext of *)
(* task_manager (the set `ongoing`), and what BorrowKey is derived for.    *)
(* The set finds an element by the hash and equality of what it is asked   *)
(* for, which are those of another type than the element's.                *)
(***************************************************************************)
EXTENDS Naturals

CONSTANTS
  Names,     \* the values of the key field
  Others,    \* those of the other fields
  Strs,      \* what a key may be borrowed as: str of String, or T of #[key(T)]
  AsStr,     \* AsStr[k]: the String k as a str
  Views,     \* Views: how a #[key(T)] may borrow the keys, whatever T is
  Buckets,   \* hashes, as far as the set tells them apart
  HashOf,    \* HashOf[v]: the hash of a key, or of one of Strs, by its own type
  Nothing    \* no element

\* A borrowed key has the key's hash, and is equal to that of no other key: std
\* keeps to it for String and str; nobody looks whether it is so for T.
ASSUME KeyedAssumption ==
  /\ AsStr \in [Names -> Strs] /\ Views \subseteq [Names -> Strs]
  /\ HashOf \in [Names \cup Strs -> Buckets]
  /\ \A k \in Names : HashOf[AsStr[k]] = HashOf[k]
  /\ \A j, k \in Names : AsStr[j] = AsStr[k] => j = k
  /\ Nothing \notin Others

Elements == [key : Names, other : Others]

ByAll(view) ==   \* mutant: a derived PartialEq, which compares all the fields
  [borrow |-> [x \in Elements |-> view[x.key]],
   hash   |-> [x \in Elements |-> HashOf[x.key]],
   same   |-> [x \in Elements |-> {x}]]

\* The impls of Borrow, Hash and PartialEq, by the one field.
ByKey(view) ==
  [borrow |-> [x \in Elements |-> view[x.key]],
   hash   |-> [x \in Elements |-> HashOf[x.key]],
   same   |-> [x \in Elements |-> {y \in Elements : y.key = x.key}]]

Itself == [k \in Names |-> k]

TaskContext == ByKey(Itself)
Baz == ByKey(AsStr)
Derived == {ByKey(view) : view \in {Itself} \cup Views}   \* #[key] and #[key(T)]

VARIABLES
  impls,    \* those of the elements' type
  table,    \* table[h]: the elements in the bucket h
  call,     \* history: the last call, and the key it was about
  answer    \* what the last call returned

keyedVars == <<impls, table, call, answer>>

KeyedTypeOK ==
  /\ impls \in {TaskContext, Baz} \cup Derived
  /\ table \in [Buckets -> SUBSET Elements]
  /\ call \in {<<>>} \cup ({"insert", "get", "remove"} \X Names)
  /\ answer \in Others \cup {Nothing} \cup BOOLEAN

KeyedInit ==
  /\ impls \in {TaskContext, Baz} \cup Derived
  /\ table = [h \in Buckets |-> {}]
  /\ call = <<>>
  /\ answer = Nothing

\* insert: an element that is equal to one of the set is dropped.
InsertElement(x) ==
  /\ call' = <<"insert", x.key>>
  /\ answer' = (table[impls.hash[x]] \cap impls.same[x] = {})
  /\ table' = IF answer' THEN [table EXCEPT ![impls.hash[x]] = @ \cup {x}] ELSE table
  /\ UNCHANGED impls

Found(q) == {x \in table[HashOf[q]] : impls.borrow[x] = q}

\* get and remove, by what the key of x is borrowed as.
GetElement(x) ==
  /\ call' = <<"get", x.key>>
  /\ \/ Found(impls.borrow[x]) = {} /\ answer' = Nothing
     \/ \E y \in Found(impls.borrow[x]) : answer' = y.other
  /\ UNCHANGED <<impls, table>>

RemoveElement(x) ==
  /\ call' = <<"remove", x.key>>
  /\ \/ Found(impls.borrow[x]) = {} /\ answer' = Nothing /\ UNCHANGED table
     \/ \E y \in Found(impls.borrow[x]) :
          /\ answer' = y.other
          /\ table' = [table EXCEPT ![HashOf[impls.borrow[x]]] = @ \ {y}]
  /\ UNCHANGED impls

KeyedNext ==
  \E x \in Elements :
    \/ InsertElement(x)
    \/ GetElement(x)
    \/ RemoveElement(x)

KeyedSpec == KeyedInit /\ [][KeyedNext]_keyedVars
-------------------------------------------------------------------------------
\* The set by keys.
Holds(t, k, x) == x.key = k /\ x \in t[HashOf[k]]

HeldIn(t) ==
  [k \in Names |->
     IF \E x \in Elements : Holds(t, k, x)
       THEN (CHOOSE x \in Elements : Holds(t, k, x)).other
       ELSE Nothing]

held == HeldIn(table)

\* What the docs of Borrow ask of T, and the macro cannot see.
Agrees ==
  \A x, y \in Elements :
    /\ HashOf[impls.borrow[x]] = HashOf[x.key]
    /\ impls.borrow[x] = impls.borrow[y] => x.key = y.key

Lawful == impls \in {TaskContext, Baz} \/ Agrees

(* Looked up by a hash and an equality that are not its own, the set is one  *)
(* in which the key stands for the element: what is put in is found by its   *)
(* key and by no other, there is one element for a key, the first, and what  *)
(* is removed is gone.  It is so for TaskContext, as TaskManager uses        *)
(* `ongoing`, for Baz, and for a derived type if its T agrees with the key.  *)
ByKeys == INSTANCE KeySet
ImplementsKeySet ==
  ByKeys!KeySetInit /\ [][Lawful => ByKeys!KeySetNext]_(ByKeys!keySet)
===============================================================================
