------------------------------ MODULE BorrowKey ------------------------------
(***************************************************************************)
(* derive_borrow_key of proc_macro_example: the walk over the fields of    *)
(* the type that it is derived for.                                        *)
(***************************************************************************)
EXTENDS Naturals, Sequences, FiniteSets

\* A field by its #[key] attributes, in order: what parse_args makes of each.
\* #[key] by itself is an Err of parse_args, and so is what is not a type.
Args == {"type", "err"}

CONSTANTS
  FieldLists   \* the fields of the types that it is derived for

ASSUME BorrowKeyAssumption == FieldLists \subseteq Seq(Seq(Args))

VARIABLES
  data,       \* "struct", "tuple" (a struct whose fields have no names), "enum", "union"
  fields,     \* the fields
  at_field,   \* the one that is next
  key_ident,  \* the field that is the key, or 0
  key_type,   \* "none", "given" in the attribute, or that of the "field"
  output      \* "none" so far, "impls", or the compile error

deriveVars == <<data, fields, at_field, key_ident, key_type, output>>

Errors == {"exact 1", "tuple", "enum", "union", "no key"}

DeriveTypeOK ==
  /\ data \in {"struct", "tuple", "enum", "union"}
  /\ fields \in FieldLists
  /\ at_field \in 1 .. Len(fields) + 1
  /\ key_ident \in 0 .. Len(fields)
  /\ key_type \in {"none", "given", "field"}
  /\ output \in {"none", "impls"} \cup Errors

DeriveInit ==
  /\ data \in {"struct", "tuple", "enum", "union"}
  /\ fields \in FieldLists
  /\ at_field = 1
  /\ key_ident = 0
  /\ key_type = "none"
  /\ output = "none"

\* return Error::new(..).to_compile_error(), or the impls
Returns(result) ==
  /\ output' = result
  /\ UNCHANGED <<data, fields, at_field, key_ident, key_type>>

RefuseData ==
  /\ output = "none"
  /\ data \in {"enum", "union"}
  /\ Returns(data)

AtField ==
  /\ output = "none"
  /\ data \in {"struct", "tuple"}
  /\ at_field <= Len(fields)

\* field.attrs.iter().find(..): the first #[key] of the field counts.
IsKeyed(f) == f # <<>>
TypeArg(f) == IF f[1] = "type" THEN "given" ELSE "field"

SkipField ==
  /\ AtField
  /\ ~IsKeyed(fields[at_field])
  /\ at_field' = at_field + 1
  /\ UNCHANGED <<data, fields, key_ident, key_type, output>>

HasIdent == key_ident # 0
HasType == key_type # "none"

KeyIsSetNever == FALSE   \* mutant: in the loop it is not checked; the last key wins
KeyIsSet == HasIdent \/ HasType

SecondKey ==
  /\ AtField
  /\ IsKeyed(fields[at_field])
  /\ KeyIsSet
  /\ Returns("exact 1")

TupleKey ==
  /\ AtField
  /\ IsKeyed(fields[at_field])
  /\ ~KeyIsSet
  /\ data = "tuple"
  /\ Returns("tuple")

TakeKey ==
  /\ AtField
  /\ IsKeyed(fields[at_field])
  /\ ~KeyIsSet
  /\ data = "struct"
  /\ key_ident' = at_field
  /\ key_type' = TypeArg(fields[at_field])
  /\ at_field' = at_field + 1
  /\ UNCHANGED <<data, fields, output>>

\* The loop is over: the impls are for the key, if there is one.
Expand ==
  /\ output = "none"
  /\ data \in {"struct", "tuple"}
  /\ at_field > Len(fields)
  /\ IF ~HasIdent \/ ~HasType THEN Returns("no key") ELSE Returns("impls")

DeriveNext == RefuseData \/ SkipField \/ SecondKey \/ TupleKey \/ TakeKey \/ Expand

DeriveSpec == DeriveInit /\ [][DeriveNext]_deriveVars
------------------------------------------------------------------------------
Keyed == {i \in DOMAIN fields : IsKeyed(fields[i])}

(* What the macro says of a type is what its fields call for: impls for the  *)
(* one field that is marked, and for the type its first mark asks for; else  *)
(* the error that fits, the first one that a reader from the left would see. *)
DeriveIsRight ==
  /\ output = "impls" =>
       /\ data = "struct"
       /\ Keyed = {key_ident}
       /\ key_type = TypeArg(fields[key_ident])
  /\ output \in {"enum", "union"} => data = output
  /\ output = "no key" => Keyed = {}
  /\ output = "tuple" => data = "tuple" /\ Keyed # {}
  /\ output = "exact 1" => data = "struct" /\ \E i, j \in Keyed : i # j
==============================================================================
