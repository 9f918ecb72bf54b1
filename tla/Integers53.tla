----------------------------- MODULE Integers53 -----------------------------
(***************************************************************************)
(* The integers that JavaScript has exactly, U53 and I54 of                *)
(* lib/src/integer.rs: an integer of 64 bits that is kept within bounds,   *)
(* and its conversions to and from narrower integers. A type is a record   *)
(* of its least and greatest value; `as` keeps the low bits of a value.    *)
(***************************************************************************)
EXTENDS Integers

Type(min, max) == [min |-> min, max |-> max]
Values(type) == type.min..type.max
Size(type) == type.max - type.min + 1

U64 == Type(0, 18446744073709551615)
I64 == Type(-9223372036854775808, 9223372036854775807)
U32 == Type(0, 4294967295)
U16 == Type(0, 65535)
U8  == Type(0, 255)
I32 == Type(-2147483648, 2147483647)
I16 == Type(-32768, 32767)
I8  == Type(-128, 127)

U53_MAX == 9007199254740991
U53 == Type(0, U53_MAX)
I54 == Type(-9007199254740991, U53_MAX)

(* What each is made from. *)
Untruncated == {<<U53, U64>>, <<I54, I64>>}
Narrower == {<<U53, into>> : into \in {U32, U16, U8}} \cup {<<I54, into>> : into \in {I32, I16, I8}}

TryFromIntError == "Integer type conversion fail"

(* value as type *)
As(value, type) == type.min + ((value - type.min) % Size(type))

(* try_from of the untruncated integer, by which serde deserializes as well *)
TryFrom(truncated, value) == IF value \in Values(truncated) THEN value ELSE TryFromIntError

(* From of a narrower integer, which is not checked *)
From(value) == value

(* try_from of a truncated integer to a narrower one *)
TryInto(into, value) ==
  IF value < into.min \/ value > into.max THEN TryFromIntError ELSE As(value, into)

(* usize_from_u64_saturated, and of an U53; usize has 32 or 64 bits *)
Saturated(usize, value) ==
  LET most == As(usize.max, U64)
  IN  As(IF value <= most THEN value ELSE most, usize)
=============================================================================
