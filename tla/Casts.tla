-------------------------------- MODULE Casts --------------------------------
(***************************************************************************)
(* include/jsavCore/cast: the macros that convert between integer types.   *)
(* A value is a type and the bytes that hold it, the lowest first, so that *)
(* sixty-four bits need no large number.  What a type is depends on the    *)
(* platform.  The casts to bool, to floating point, to strings and to      *)
(* structures are left out.                                                *)
(***************************************************************************)
EXTENDS Integers, Sequences

(* The width of pointers and of long in bytes, and whether char is signed. *)
Platforms == [pointer : {4, 8}, long : {4, 8}, charIsSigned : BOOLEAN]

(* TypeSizes.hpp. *)
sizeof(p, type) ==
  CASE type \in {"byte", "char", "char8_t", "unsigned char", "int8_t", "uint8_t"} -> 1
    [] type \in {"short", "char16_t", "int16_t", "uint16_t"} -> 2
    [] type \in {"int", "unsigned int", "char32_t", "int32_t", "uint32_t"} -> 4
    [] type \in {"long long", "unsigned long long", "int64_t", "uint64_t"} -> 8
    [] type \in {"long", "unsigned long"} -> p.long
    [] type \in {"size_t", "ptrdiff_t", "intptr_t", "uintptr_t"} -> p.pointer

IsSigned(p, type) ==
  \/ type \in {"short", "int", "long", "long long", "ptrdiff_t", "intptr_t",
               "int8_t", "int16_t", "int32_t", "int64_t"}
  \/ type = "char" /\ p.charIsSigned

Negative(p, v) == IsSigned(p, v.type) /\ v.bytes[Len(v.bytes)] >= 128

(* Cut to the width of the type, or filled up with the sign. *)
static_cast(p, type, v) ==
  [type  |-> type,
   bytes |-> [i \in 1 .. sizeof(p, type) |->
                IF i <= Len(v.bytes) THEN v.bytes[i]
                ELSE IF Negative(p, v) THEN 255 ELSE 0]]

narrow_cast(p, type, v) == static_cast(p, type, v)

(* Only for a type of the same size; anything else does not compile. *)
bit_cast(type, v) == [type |-> type, bytes |-> v.bytes]
-----------------------------------------------------------------------------
(* One list of macros after another. *)
With(f, g) ==
  [macro \in DOMAIN f \cup DOMAIN g |-> IF macro \in DOMAIN f THEN f[macro] ELSE g[macro]]

(* The type that each macro C_... of BaseCast.hpp names. *)
C_FixedWidth ==
  [B |-> "byte", IPTR |-> "intptr_t", UIPTR |-> "uintptr_t",
   I8T  |-> "int8_t",  I16T  |-> "int16_t",  I32T  |-> "int32_t",  I64T  |-> "int64_t",
   UI8T |-> "uint8_t", UI16T |-> "uint16_t", UI32T |-> "uint32_t", UI64T |-> "uint64_t",
   PTRDIFT |-> "ptrdiff_t"]
C_Characters == [C |-> "char", C16 |-> "char16_t", C32 |-> "char32_t", C8 |-> "char8_t"]
C_Signed ==
  [I |-> "int", L |-> "long", LI |-> "long", LL |-> "long long", LLI |-> "long long",
   S |-> "short", SI |-> "short"]

(* Mutant: char for unsigned char. *)
C_UnsignedOrChar ==
  [UC |-> "char", UI |-> "unsigned int", UL |-> "unsigned long", ULI |-> "unsigned long",
   ULL |-> "unsigned long long", ULLI |-> "unsigned long long"]

C_Unsigned ==
  [UC |-> "unsigned char", UI |-> "unsigned int", UL |-> "unsigned long",
   ULI |-> "unsigned long", ULL |-> "unsigned long long", ULLI |-> "unsigned long long"]

C_ == With(With(With(With(C_FixedWidth, C_Characters), C_Signed), C_Unsigned),
           [ST |-> "size_t"])

(* NC_... of NarrowCast.hpp. *)
NC_FixedWidth ==
  [B |-> "byte", IPTR |-> "intptr_t", UIPTR |-> "uintptr_t",
   I8T  |-> "int8_t",  I16T  |-> "int16_t",  I32T  |-> "int32_t",  I64T  |-> "int64_t",
   UI8T |-> "uint8_t", UI16T |-> "uint16_t", UI32T |-> "uint32_t", UI64T |-> "uint64_t",
   PTRDIFT |-> "ptrdiff_t"]
NC_Characters == [C |-> "char", C16 |-> "char16_t", C32 |-> "char32_t", C8 |-> "char8_t"]
NC_Signed ==
  [I |-> "int", L |-> "long", LI |-> "long", LL |-> "long long", LLI |-> "long long",
   S |-> "short", SI |-> "short"]
NC_Unsigned ==
  [UC |-> "unsigned char", UI |-> "unsigned int", UL |-> "unsigned long",
   ULI |-> "unsigned long", ULL |-> "unsigned long long", ULLI |-> "unsigned long long"]
NC_ == With(With(With(With(NC_FixedWidth, NC_Characters), NC_Signed), NC_Unsigned),
            [ST |-> "size_t"])

(* BC_... of BitCast.hpp. *)
BC_ ==
  [B |-> "byte", IPTR |-> "intptr_t", UIPTR |-> "uintptr_t",
   I8T  |-> "int8_t",  I16T  |-> "int16_t",  I32T  |-> "int32_t",  I64T  |-> "int64_t",
   UI8T |-> "uint8_t", UI16T |-> "uint16_t", UI32T |-> "uint32_t", UI64T |-> "uint64_t",
   PTRDIFT |-> "ptrdiff_t"]
=============================================================================
