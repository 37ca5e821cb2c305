---------------------------- MODULE KeyedSetProofs ----------------------------
(***************************************************************************)
(* A HashSet looked up through Borrow is a set of keys: for every hash,    *)
(* whatever collides, and every kind of element whose key agrees with what *)
(* it is borrowed as.                                                      *)
(***************************************************************************)
EXTENDS KeyedSet, TLAPS

\* Each element is in its bucket, and the only one there with its key.
Placed(t) ==
  \A h \in Buckets : \A x \in t[h] :
    /\ HashOf[x.key] = h
    /\ \A y \in t[h] : y.key = x.key => y = x

KeyedInv == KeyedTypeOK /\ Placed(table)

\* What the impls of each kind of element have in common, whatever T is.
LEMMA ImplsAre ==
  ASSUME NEW i \in {TaskContext, Baz} \cup Derived, NEW x \in Elements
  PROVE  /\ x.key \in Names /\ x.other \in Others
         /\ i.hash[x] = HashOf[x.key] /\ HashOf[x.key] \in Buckets
         /\ i.same[x] = {y \in Elements : y.key = x.key}
         /\ HashOf[i.borrow[x]] \in Buckets
<1>1. PICK view \in {Itself, AsStr} \cup Views : i = ByKey(view)
  BY DEF TaskContext, Baz, Derived
<1>2. /\ i.hash[x] = HashOf[x.key]
      /\ i.same[x] = {y \in Elements : y.key = x.key}
      /\ i.borrow[x] = view[x.key]
  BY <1>1 DEF ByKey
<1>3. x.key \in Names /\ x.other \in Others
  BY DEF Elements
<1>4. view[x.key] \in Names \cup Strs
  <2>1. CASE view = Itself
    BY <2>1, <1>3 DEF Itself
  <2>2. CASE view \in {AsStr} \cup Views
    BY <2>2, <1>3, KeyedAssumption
  <2> QED BY <1>1, <2>1, <2>2
<1> QED BY <1>2, <1>3, <1>4, KeyedAssumption

\* TaskContext and Baz borrow the key as something that agrees with it.
LEMMA LawfulAgrees ==
  ASSUME Lawful, NEW x \in Elements
  PROVE  /\ HashOf[impls.borrow[x]] = HashOf[x.key]
         /\ impls \in {TaskContext, Baz} \cup Derived =>
              \A y \in Elements : impls.borrow[y] = impls.borrow[x] <=> y.key = x.key
<1>1. \A y \in Elements : y.key \in Names
  BY DEF Elements
<1>2. CASE impls \in {TaskContext, Baz}
  <2>1. PICK view \in {Itself, AsStr} : impls = ByKey(view)
    BY <1>2 DEF TaskContext, Baz
  <2>2. \A y \in Elements : impls.borrow[y] = view[y.key]
    BY <2>1 DEF ByKey
  <2>3. \A j, k \in Names : view[j] = view[k] <=> j = k
    <3>1. CASE view = Itself
      BY <3>1 DEF Itself
    <3>2. CASE view = AsStr
      BY <3>2, KeyedAssumption
    <3> QED BY <2>1, <3>1, <3>2
  <2>4. \A k \in Names : HashOf[view[k]] = HashOf[k]
    <3>1. CASE view = Itself
      BY <3>1 DEF Itself
    <3>2. CASE view = AsStr
      BY <3>2, KeyedAssumption
    <3> QED BY <2>1, <3>1, <3>2
  <2> QED BY <1>1, <2>2, <2>3, <2>4
<1>3. CASE Agrees
  <2>1. ASSUME impls \in {TaskContext, Baz} \cup Derived, NEW y \in Elements, y.key = x.key
        PROVE  impls.borrow[y] = impls.borrow[x]
    <3>1. PICK view \in {Itself, AsStr} \cup Views : impls = ByKey(view)
      BY <2>1 DEF TaskContext, Baz, Derived
    <3>2. impls.borrow[y] = view[y.key] /\ impls.borrow[x] = view[x.key]
      BY <3>1 DEF ByKey
    <3> QED BY <3>2, <2>1
  <2> QED BY <1>3, <2>1 DEF Agrees
<1> QED BY <1>2, <1>3 DEF Lawful

\* A key that is in the table is held with the rest of its element ...
LEMMA HeldThere ==
  ASSUME NEW t \in [Buckets -> SUBSET Elements], Placed(t),
         NEW x \in Elements, x \in t[HashOf[x.key]]
  PROVE  HeldIn(t)[x.key] = x.other
<1>1. x.key \in Names /\ HashOf[x.key] \in Buckets
  BY KeyedAssumption DEF Elements
<1>2. Holds(t, x.key, x)
  BY DEF Holds
<1>3. \A y \in Elements : Holds(t, x.key, y) => y = x
  BY <1>1 DEF Holds, Placed
<1>4. (CHOOSE y \in Elements : Holds(t, x.key, y)) = x
  BY <1>2, <1>3
<1> QED BY <1>1, <1>2, <1>4 DEF HeldIn

\* ... and one that is not is not.
LEMMA HeldNot ==
  ASSUME NEW t, NEW k \in Names, \A x \in Elements : ~Holds(t, k, x)
  PROVE  HeldIn(t)[k] = Nothing
  BY DEF HeldIn

\* Two tables with the same elements of a key hold the same for it.
LEMMA HeldSame ==
  ASSUME NEW t, NEW u, NEW k \in Names,
         \A x \in Elements : Holds(t, k, x) <=> Holds(u, k, x)
  PROVE  HeldIn(t)[k] = HeldIn(u)[k]
<1>1. (CHOOSE x \in Elements : Holds(t, k, x)) = (CHOOSE x \in Elements : Holds(u, k, x))
  OBVIOUS
<1> QED BY <1>1 DEF HeldIn

\* A new element is put where its key was missing.
LEMMA HeldInsert ==
  ASSUME NEW t \in [Buckets -> SUBSET Elements], Placed(t), NEW x \in Elements,
         \A y \in Elements : ~Holds(t, x.key, y),
         NEW u, u = [t EXCEPT ![HashOf[x.key]] = @ \cup {x}]
  PROVE  /\ u \in [Buckets -> SUBSET Elements]
         /\ Placed(u)
         /\ HeldIn(u) = [HeldIn(t) EXCEPT ![x.key] = x.other]
<1>1. /\ x.key \in Names
      /\ HashOf[x.key] \in Buckets
      /\ \A k \in Names : HashOf[k] \in Buckets
  BY KeyedAssumption DEF Elements
<1>2. u \in [Buckets -> SUBSET Elements]
  BY <1>1
<1>3. Placed(u)
  <2> SUFFICES ASSUME NEW h \in Buckets, NEW y \in u[h]
               PROVE  HashOf[y.key] = h /\ \A z \in u[h] : z.key = y.key => z = y
    BY DEF Placed
  <2>1. CASE h # HashOf[x.key]
    BY <2>1, <1>1 DEF Placed
  <2>2. CASE h = HashOf[x.key]
    <3>1. u[h] = t[h] \cup {x}
      BY <2>2
    <3>2. \A z \in t[h] : z.key # x.key
      BY <2>2 DEF Holds
    <3> QED BY <2>2, <3>1, <3>2 DEF Placed
  <2> QED BY <2>1, <2>2
<1>4. HeldIn(u)[x.key] = x.other
  <2>1. x \in u[HashOf[x.key]]
    BY <1>1
  <2> QED BY <2>1, <1>2, <1>3, HeldThere
<1>5. ASSUME NEW k \in Names, k # x.key PROVE HeldIn(u)[k] = HeldIn(t)[k]
  <2>1. \A y \in Elements : Holds(u, k, y) <=> Holds(t, k, y)
    BY <1>1, <1>5 DEF Holds
  <2> QED BY <2>1, HeldSame
<1>6. HeldIn(u) = [k \in Names |-> HeldIn(u)[k]] /\ HeldIn(t) = [k \in Names |-> HeldIn(t)[k]]
  BY DEF HeldIn
<1> QED BY <1>1, <1>2, <1>3, <1>4, <1>5, <1>6

\* With an element its key is gone.
LEMMA HeldRemove ==
  ASSUME NEW t \in [Buckets -> SUBSET Elements], Placed(t), NEW x \in Elements,
         x \in t[HashOf[x.key]],
         NEW u, u = [t EXCEPT ![HashOf[x.key]] = @ \ {x}]
  PROVE  /\ u \in [Buckets -> SUBSET Elements]
         /\ Placed(u)
         /\ HeldIn(u) = [HeldIn(t) EXCEPT ![x.key] = Nothing]
<1>1. /\ x.key \in Names
      /\ HashOf[x.key] \in Buckets
      /\ \A k \in Names : HashOf[k] \in Buckets
  BY KeyedAssumption DEF Elements
<1>2. u \in [Buckets -> SUBSET Elements]
  BY <1>1
<1>3. Placed(u)
  BY <1>1 DEF Placed
<1>4. HeldIn(u)[x.key] = Nothing
  <2>1. \A y \in Elements : ~Holds(u, x.key, y)
    BY <1>1 DEF Holds, Placed
  <2> QED BY <2>1, <1>1, HeldNot
<1>5. ASSUME NEW k \in Names, k # x.key PROVE HeldIn(u)[k] = HeldIn(t)[k]
  <2>1. \A y \in Elements : Holds(u, k, y) <=> Holds(t, k, y)
    BY <1>1, <1>5 DEF Holds
  <2> QED BY <2>1, HeldSame
<1>6. HeldIn(u) = [k \in Names |-> HeldIn(u)[k]] /\ HeldIn(t) = [k \in Names |-> HeldIn(t)[k]]
  BY DEF HeldIn
<1> QED BY <1>1, <1>2, <1>3, <1>4, <1>5, <1>6

\* What is found by a borrowed key is in the table, by its own hash too ...
LEMMA FoundThere ==
  ASSUME KeyedInv, NEW x \in Elements, NEW y \in Found(impls.borrow[x])
  PROVE  /\ y \in Elements /\ y.other \in Others
         /\ HashOf[y.key] = HashOf[impls.borrow[x]]
         /\ y \in table[HashOf[y.key]]
<1>1. HashOf[impls.borrow[x]] \in Buckets
  BY ImplsAre DEF KeyedInv, KeyedTypeOK
<1>2. y \in table[HashOf[impls.borrow[x]]]
  BY DEF Found
<1>3. y \in Elements
  BY <1>1, <1>2 DEF KeyedInv, KeyedTypeOK
<1>4. HashOf[y.key] = HashOf[impls.borrow[x]]
  BY <1>1, <1>2 DEF KeyedInv, Placed
<1> QED BY <1>2, <1>3, <1>4 DEF Elements

\* ... and these are the elements with that key, if what is borrowed agrees.
LEMMA FoundIs ==
  ASSUME KeyedInv, Lawful, NEW x \in Elements
  PROVE  Found(impls.borrow[x]) = {y \in Elements : Holds(table, x.key, y)}
<1>1. /\ HashOf[impls.borrow[x]] = HashOf[x.key] /\ HashOf[x.key] \in Buckets
      /\ \A y \in Elements : impls.borrow[y] = impls.borrow[x] <=> y.key = x.key
  BY ImplsAre, LawfulAgrees DEF KeyedInv, KeyedTypeOK
<1>2. table[HashOf[x.key]] \subseteq Elements
  BY <1>1 DEF KeyedInv, KeyedTypeOK
<1> QED BY <1>1, <1>2 DEF Found, Holds

\* The initial states are those of the set by keys.
LEMMA KeyedStarts == KeyedInit => KeyedInv /\ ByKeys!KeySetInit
<1> SUFFICES ASSUME KeyedInit PROVE KeyedInv /\ ByKeys!KeySetInit
  OBVIOUS
<1>1. KeyedInv
  BY DEF KeyedInit, KeyedInv, KeyedTypeOK, Placed
<1>2. \A k \in Names : HeldIn(table)[k] = Nothing
  <2> SUFFICES ASSUME NEW k \in Names PROVE HeldIn(table)[k] = Nothing
    OBVIOUS
  <2>1. \A x \in Elements : ~Holds(table, k, x)
    BY KeyedAssumption DEF KeyedInit, Holds
  <2> QED BY <2>1, HeldNot
<1>3. HeldIn(table) = [k \in Names |-> Nothing]
  BY <1>2 DEF HeldIn
<1> QED BY <1>1, <1>3 DEF ByKeys!KeySetInit, held, KeyedInit

\* The history variable names a call.
LEMMA CallIs ==
  ASSUME NEW x \in Elements, NEW o \in {"insert", "get", "remove"}, call' = <<o, x.key>>
  PROVE  call' \in {<<>>} \cup ({"insert", "get", "remove"} \X Names)
<1>1. x.key \in Names
  BY DEF Elements
<1>2. <<o, x.key>> \in {"insert", "get", "remove"} \X Names
  BY <1>1
<1> QED BY <1>2

LEMMA InsertIs ==
  ASSUME KeyedInv, NEW x \in Elements, InsertElement(x)
  PROVE  KeyedInv' /\ ByKeys!Insert(x.key, x.other)
<1> DEFINE fresh == \A y \in Elements : ~Holds(table, x.key, y)
<1>1. /\ x.key \in Names /\ x.other \in Others
      /\ HashOf[x.key] \in Buckets
      /\ table[impls.hash[x]] = table[HashOf[x.key]]
      /\ table[HashOf[x.key]] \subseteq Elements
      /\ impls.same[x] = {y \in Elements : y.key = x.key}
      /\ impls.hash[x] = HashOf[x.key]
  BY ImplsAre DEF KeyedInv, KeyedTypeOK
<1>2. answer' = fresh /\ answer' \in BOOLEAN /\ impls' = impls
  BY <1>1 DEF InsertElement, Holds
<1>c. /\ call' = <<"insert", x.key>>
      /\ call' \in {<<>>} \cup ({"insert", "get", "remove"} \X Names)
  BY CallIs DEF InsertElement
<1>3. CASE fresh
  <2>1. table' = [table EXCEPT ![HashOf[x.key]] = @ \cup {x}]
    BY <1>1, <1>2, <1>3 DEF InsertElement
  <2>2. /\ table' \in [Buckets -> SUBSET Elements]
        /\ Placed(table')
        /\ HeldIn(table') = [HeldIn(table) EXCEPT ![x.key] = x.other]
    BY <1>3, <2>1, HeldInsert DEF KeyedInv, KeyedTypeOK
  <2>3. HeldIn(table)[x.key] = Nothing
    BY <1>1, <1>3, HeldNot
  <2>4. answer' = (held[x.key] = Nothing) /\ answer'
    BY <1>2, <1>3, <2>3 DEF held
  <2>5. held' = [held EXCEPT ![x.key] = x.other]
    BY <2>2 DEF held
  <2>6. KeyedInv'
    BY <1>2, <1>c, <2>2 DEF KeyedInv, KeyedTypeOK
  <2>7. ByKeys!Insert(x.key, x.other)
    BY <1>c, <2>4, <2>5 DEF ByKeys!Insert
  <2> QED BY <2>6, <2>7
<1>4. CASE ~fresh
  <2>1. table' = table
    BY <1>2, <1>4 DEF InsertElement
  <2>2. PICK y \in Elements : Holds(table, x.key, y)
    BY <1>4
  <2>3. HeldIn(table)[x.key] = y.other /\ y.other # Nothing
    BY <2>2, HeldThere, KeyedAssumption DEF Holds, KeyedInv, KeyedTypeOK, Elements
  <2>4. answer' = (held[x.key] = Nothing) /\ ~answer'
    BY <1>2, <1>4, <2>3 DEF held
  <2>5. held' = held
    BY <2>1 DEF held
  <2>6. KeyedInv'
    BY <1>2, <1>c, <2>1 DEF KeyedInv, KeyedTypeOK
  <2>7. ByKeys!Insert(x.key, x.other)
    BY <1>c, <2>4, <2>5 DEF ByKeys!Insert
  <2> QED BY <2>6, <2>7
<1> QED BY <1>3, <1>4

\* The answer of get, and of remove.
LEMMA AnswerIs ==
  ASSUME KeyedInv, NEW x \in Elements,
         \/ Found(impls.borrow[x]) = {} /\ answer' = Nothing
         \/ \E y \in Found(impls.borrow[x]) : answer' = y.other
  PROVE  /\ answer' \in Others \cup {Nothing}
         /\ Lawful => answer' = held[x.key]
<1>0. answer' \in Others \cup {Nothing}
  BY FoundThere
<1> SUFFICES ASSUME Lawful PROVE answer' = held[x.key]
  BY <1>0
<1>1. x.key \in Names
  BY DEF Elements
<1>2. CASE Found(impls.borrow[x]) = {}
  <2>1. \A y \in Elements : ~Holds(table, x.key, y)
    BY <1>2, FoundIs
  <2>2. HeldIn(table)[x.key] = Nothing
    BY <1>1, <2>1, HeldNot
  <2> QED BY <1>2, <2>2 DEF held
<1>3. ASSUME NEW y \in Found(impls.borrow[x]), answer' = y.other
      PROVE  answer' = held[x.key]
  <2>1. y \in Elements /\ Holds(table, x.key, y)
    BY FoundIs
  <2>2. HeldIn(table)[x.key] = y.other
    BY <2>1, HeldThere DEF Holds, KeyedInv, KeyedTypeOK
  <2> QED BY <1>3, <2>1, <2>2 DEF held
<1> QED BY <1>2, <1>3

LEMMA GetIs ==
  ASSUME KeyedInv, NEW x \in Elements, GetElement(x)
  PROVE  KeyedInv' /\ (Lawful => ByKeys!Get(x.key))
<1>1. answer' \in Others \cup {Nothing} /\ (Lawful => answer' = held[x.key])
  BY AnswerIs DEF GetElement
<1>2. table' = table /\ impls' = impls
  BY DEF GetElement
<1>3. /\ call' = <<"get", x.key>>
      /\ call' \in {<<>>} \cup ({"insert", "get", "remove"} \X Names)
  BY CallIs DEF GetElement
<1>4. KeyedInv'
  BY <1>1, <1>2, <1>3 DEF KeyedInv, KeyedTypeOK
<1>5. Lawful => ByKeys!Get(x.key)
  BY <1>1, <1>2, <1>3 DEF ByKeys!Get, held
<1> QED BY <1>4, <1>5

LEMMA RemoveIs ==
  ASSUME KeyedInv, NEW x \in Elements, RemoveElement(x)
  PROVE  KeyedInv' /\ (Lawful => ByKeys!Take(x.key))
<1>1. answer' \in Others \cup {Nothing} /\ (Lawful => answer' = held[x.key])
  BY AnswerIs DEF RemoveElement
<1>2. x.key \in Names /\ impls' = impls
  BY DEF Elements, RemoveElement
<1>3. /\ table' \in [Buckets -> SUBSET Elements]
      /\ Placed(table')
      /\ Lawful => HeldIn(table') = [HeldIn(table) EXCEPT ![x.key] = Nothing]
  <2>1. CASE Found(impls.borrow[x]) = {} /\ table' = table
    <3>1. ASSUME Lawful PROVE [HeldIn(table) EXCEPT ![x.key] = Nothing] = HeldIn(table)
      <4>1. \A y \in Elements : ~Holds(table, x.key, y)
        BY <2>1, <3>1, FoundIs
      <4>2. HeldIn(table)[x.key] = Nothing
        BY <1>2, <4>1, HeldNot
      <4> QED BY <4>2 DEF HeldIn
    <3> QED BY <2>1, <3>1 DEF KeyedInv, KeyedTypeOK
  <2>2. ASSUME NEW y \in Found(impls.borrow[x]),
               table' = [table EXCEPT ![HashOf[impls.borrow[x]]] = @ \ {y}]
        PROVE  <1>3!:
    <3>1. y \in Elements /\ y \in table[HashOf[y.key]]
      BY FoundThere
    <3>2. table' = [table EXCEPT ![HashOf[y.key]] = @ \ {y}]
      BY <2>2, FoundThere
    <3>3. /\ table' \in [Buckets -> SUBSET Elements]
          /\ Placed(table')
          /\ HeldIn(table') = [HeldIn(table) EXCEPT ![y.key] = Nothing]
      BY <3>1, <3>2, HeldRemove DEF KeyedInv, KeyedTypeOK
    <3>4. Lawful => y.key = x.key
      BY FoundIs DEF Holds
    <3> QED BY <3>3, <3>4
  <2> QED BY <2>1, <2>2 DEF RemoveElement
<1>4. Lawful => held' = [held EXCEPT ![x.key] = Nothing]
  BY <1>3 DEF held
<1>5. /\ call' = <<"remove", x.key>>
      /\ call' \in {<<>>} \cup ({"insert", "get", "remove"} \X Names)
  BY CallIs DEF RemoveElement
<1>6. KeyedInv'
  BY <1>1, <1>2, <1>3, <1>5 DEF KeyedInv, KeyedTypeOK
<1>7. Lawful => ByKeys!Take(x.key)
  BY <1>1, <1>4, <1>5 DEF ByKeys!Take
<1> QED BY <1>6, <1>7

LEMMA KeyedSteps ==
  KeyedInv /\ [KeyedNext]_keyedVars =>
    KeyedInv' /\ [Lawful => ByKeys!KeySetNext]_(ByKeys!keySet)
<1> SUFFICES ASSUME KeyedInv, [KeyedNext]_keyedVars
             PROVE  KeyedInv' /\ [Lawful => ByKeys!KeySetNext]_(ByKeys!keySet)
  OBVIOUS
<1>1. ASSUME NEW x \in Elements, InsertElement(x)
      PROVE  KeyedInv' /\ (Lawful => ByKeys!KeySetNext)
  BY <1>1, InsertIs DEF ByKeys!KeySetNext, Elements
<1>2. ASSUME NEW x \in Elements, GetElement(x)
      PROVE  KeyedInv' /\ (Lawful => ByKeys!KeySetNext)
  BY <1>2, GetIs DEF ByKeys!KeySetNext, Elements
<1>3. ASSUME NEW x \in Elements, RemoveElement(x)
      PROVE  KeyedInv' /\ (Lawful => ByKeys!KeySetNext)
  BY <1>3, RemoveIs DEF ByKeys!KeySetNext, Elements
<1>4. CASE UNCHANGED keyedVars
  BY <1>4 DEF keyedVars, KeyedInv, KeyedTypeOK, held, ByKeys!keySet
<1> QED BY <1>1, <1>2, <1>3, <1>4 DEF KeyedNext

(* The set looked up through Borrow is the set by keys that its users take   *)
(* it for: whatever the hash collides on, for TaskContext, for Baz, and for  *)
(* every derived type whose key is borrowed as something that has its hash,  *)
(* and tells apart what the key does.                                        *)
THEOREM KeyedImplements == KeyedSpec => ImplementsKeySet
  BY KeyedStarts, KeyedSteps, PTL DEF KeyedSpec, ImplementsKeySet
===============================================================================
