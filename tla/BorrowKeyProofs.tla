--------------------------- MODULE BorrowKeyProofs ---------------------------
(***************************************************************************)
(* The derive macro gives the right answer for every list of fields, and   *)
(* the set that its impls are for, looked up through Borrow, is a set of   *)
(* keys, for every lawful hash and every way of borrowing the key.         *)
(***************************************************************************)
EXTENDS BorrowKey, TLAPS

Seen == {i \in Keyed : i < at_field}

\* Half way through the fields the key is the one that has been seen, if any.
Walk ==
  output = "none" =>
    /\ key_ident = 0 => key_type = "none" /\ Seen = {}
    /\ key_ident # 0 =>
         /\ data = "struct"
         /\ Seen = {key_ident}
         /\ key_type = TypeArg(fields[key_ident])

DeriveInv == DeriveTypeOK /\ Walk /\ DeriveIsRight

\* The fields are a list of lists of marks.
LEMMA FieldsAreLists ==
  ASSUME DeriveTypeOK
  PROVE  /\ fields \in Seq(Seq(Args))
         /\ Len(fields) \in Nat
         /\ DOMAIN fields = 1 .. Len(fields)
         /\ \A i \in DOMAIN fields : TypeArg(fields[i]) \in {"given", "field"}
  BY BorrowKeyAssumption DEF DeriveTypeOK, TypeArg

\* The walk begins with nothing seen.
LEMMA DeriveStarts == DeriveInit => DeriveInv
<1> SUFFICES ASSUME DeriveInit PROVE DeriveInv
  OBVIOUS
<1>1. DeriveTypeOK
  BY BorrowKeyAssumption DEF DeriveInit, DeriveTypeOK
<1>2. Walk
  BY <1>1, FieldsAreLists DEF DeriveInit, Walk, Seen, Keyed
<1>3. DeriveIsRight
  BY DEF DeriveInit, DeriveIsRight, Errors
<1> QED BY <1>1, <1>2, <1>3 DEF DeriveInv

\* Each field, and the end of them, preserves it.
LEMMA DeriveSteps == DeriveInv /\ [DeriveNext]_deriveVars => DeriveInv'
<1> SUFFICES ASSUME DeriveInv, [DeriveNext]_deriveVars PROVE DeriveInv'
  OBVIOUS
<1> USE DEF DeriveInv
<1>0. /\ Len(fields) \in Nat
      /\ DOMAIN fields = 1 .. Len(fields)
      /\ \A i \in DOMAIN fields : TypeArg(fields[i]) \in {"given", "field"}
  BY FieldsAreLists
<1>a. at_field \in 1 .. Len(fields) + 1
  BY DEF DeriveTypeOK
<1>b. at_field \in Nat
  BY <1>0, <1>a
<1> USE <1>0, <1>b
<1>1. CASE RefuseData
  BY <1>1 DEF RefuseData, Returns, DeriveTypeOK, Walk, DeriveIsRight, Errors, Keyed, Seen
<1>2. CASE SkipField
  <2>1. /\ Seen' = Seen
        /\ UNCHANGED <<data, fields, key_ident, key_type, output>>
    BY <1>2 DEF SkipField, AtField, Seen, Keyed, DeriveTypeOK
  <2> QED
    BY <1>2, <2>1 DEF SkipField, AtField, DeriveTypeOK, Walk, DeriveIsRight, Keyed
<1>3. CASE SecondKey
  <2>1. /\ output = "none"
        /\ at_field \in Keyed
        /\ key_ident # 0
        /\ data = "struct"
        /\ key_ident \in Keyed
        /\ key_ident < at_field
    <3>1. output = "none" /\ at_field \in Keyed /\ key_ident # 0
      <4>1. output = "none" /\ key_ident # 0
        BY <1>3 DEF SecondKey, AtField, KeyIsSet, HasIdent, HasType, Walk
      <4>2. at_field <= Len(fields) /\ IsKeyed(fields[at_field])
        BY <1>3 DEF SecondKey, AtField
      <4>3. at_field \in 1 .. Len(fields)
        BY <4>2, <1>a
      <4> QED BY <4>1, <4>2, <4>3 DEF Keyed
    <3>2. data = "struct" /\ key_ident \in Seen
      BY <3>1 DEF Walk
    <3> QED BY <3>1, <3>2 DEF Seen
  <2>2. \E i, j \in Keyed : i # j
    BY <2>1 DEF DeriveTypeOK
  <2> QED
    BY <1>3, <2>1, <2>2 DEF SecondKey, Returns, DeriveTypeOK, Walk, DeriveIsRight, Errors, Keyed
<1>4. CASE TupleKey
  <2>1. at_field \in Keyed
    BY <1>4 DEF TupleKey, AtField, Keyed, DeriveTypeOK
  <2> QED
    BY <1>4, <2>1 DEF TupleKey, Returns, DeriveTypeOK, Walk, DeriveIsRight, Errors, Keyed
<1>5. CASE TakeKey
  <2>1. /\ Seen = {}
        /\ output = "none"
        /\ at_field \in Keyed
        /\ at_field \in 1 .. Len(fields)
    BY <1>5 DEF TakeKey, AtField, KeyIsSet, HasIdent, HasType, Walk, Keyed, DeriveTypeOK
  <2>2. Seen' = {at_field}
    BY <1>5, <2>1 DEF TakeKey, Seen, Keyed, DeriveTypeOK
  <2>3. DeriveTypeOK'
    BY <1>5, <2>1 DEF TakeKey, DeriveTypeOK
  <2>4. Walk'
    BY <1>5, <2>1, <2>2 DEF TakeKey, Walk
  <2>5. DeriveIsRight'
    BY <1>5, <2>1 DEF TakeKey, DeriveIsRight, Errors
  <2> QED BY <2>3, <2>4, <2>5
<1>6. CASE Expand
  <2>1. Seen = Keyed
    <3>1. ASSUME NEW i \in Keyed PROVE i < at_field
      <4>1. i \in 1 .. Len(fields)
        BY DEF Keyed
      <4>2. at_field > Len(fields) /\ at_field \in Nat
        BY <1>6 DEF Expand
      <4> QED BY <4>1, <4>2
    <3> QED BY <3>1 DEF Seen
  <2>2. DeriveTypeOK' /\ Walk'
    BY <1>6 DEF Expand, Returns, DeriveTypeOK, Walk, Errors
  <2>3. DeriveIsRight'
    BY <1>6, <2>1 DEF Expand, Returns, HasIdent, HasType, Walk, DeriveIsRight, Errors, Keyed, DeriveTypeOK
  <2> QED BY <2>2, <2>3
<1>7. CASE UNCHANGED deriveVars
  BY <1>7 DEF deriveVars, DeriveTypeOK, Walk, DeriveIsRight, Keyed, Seen
<1> QED
  BY <1>1, <1>2, <1>3, <1>4, <1>5, <1>6, <1>7 DEF DeriveNext

(* For every list of fields with any marks on them the macro's answer is     *)
(* what the fields call for: the impls for the one key, or the right error.  *)
THEOREM DeriveCorrect == DeriveSpec => [](DeriveTypeOK /\ DeriveIsRight)
<1>1. DeriveInv => DeriveTypeOK /\ DeriveIsRight
  BY DEF DeriveInv
<1> QED
  BY DeriveStarts, DeriveSteps, <1>1, PTL DEF DeriveSpec
==============================================================================
