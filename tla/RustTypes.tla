----------------------------- MODULE RustTypes ------------------------------
(***************************************************************************)
(* RustType of core/src/rust_types.rs and its conversion from the syntax   *)
(* of a type. A RustType is its id() with its parameters: Vec<u8> is       *)
(* [id |-> "Vec", args |-> <<u8>>]; a Special type has one of SpecialIds,  *)
(* a Generic one parameters, a Simple one none.                            *)
(*                                                                         *)
(* The syntax of a type is a record of its form, the first and the last    *)
(* segment of its path, and the types in it. Lifetimes and const generics, *)
(* which the conversion drops, are left out.                               *)
(***************************************************************************)
EXTENDS RenameExt, Outcomes

CONSTANTS
  SynTypes,   \* the syntax of the types there may be in a file, with the types in it
  Types       \* the RustTypes these are converted to, renamed ones as well

SynType(form, root, id, args) == [form |-> form, root |-> root, id |-> id, args |-> args]
RustType(id, args) == [id |-> id, args |-> args]

Wrappers == {"Vec", "Option", "[]", "&[]"}
Numbers == {"u8", "u16", "u32", "i8", "i16", "i32", "f32", "f64", "U53", "I54"}
SpecialIds ==
  Wrappers \cup Numbers \cup {"HashMap", "OffsetDateTime", "()", "String", "char", "bool"}
SmartPointers == {"Box", "Weak", "Arc", "Rc", "Cow", "ArcWeak", "RcWeak", "Cell", "Mutex",
                  "RefCell", "RwLock"}

IsSpecial(ty) == ty.id \in SpecialIds
IsGeneric(ty) == ~IsSpecial(ty) /\ ty.args # <<>>
IsOptional(ty) == ty.id = "Option"
IsDoubleOptional(ty) == IsOptional(ty) /\ IsOptional(ty.args[1])

(* RustType::try_from: a failure or a RustType. A Vec, Option, HashMap or
   smart pointer with too few parameters panics. *)
TryFrom[ty \in SynTypes] ==
  LET args == [i \in DOMAIN ty.args |-> TryFrom[ty.args[i]]]
      With(count, value) == IF Len(args) < count THEN Panic ELSE value
      Of(count) == RustType(ty.id, SubSeq(args, 1, count))
  IN  CASE ty.form = "Tuple" -> IF args = <<>> THEN RustType("()", <<>>)
                                ELSE Fail("UnexpectedParameterizedTuple")
        [] ty.form = "Reference" -> args[1]
        [] ty.form \in {"Array", "Slice"} ->
             FirstFailureOr(args, RustType(IF ty.form = "Array" THEN "[]" ELSE "&[]", args))
        [] ty.form = "Path" ->
             FirstFailureOr(args,
               CASE ty.id \in {"Vec", "Option"} -> With(1, Of(1))
                 [] ty.id = "HashMap"           -> With(2, Of(2))
                 [] ty.id \in SmartPointers     -> With(1, args[1])
                 [] ty.id \in {"str", "String"} -> RustType("String", <<>>)
                 [] ty.id \in {"u64", "i64", "usize", "isize"} -> Fail("UnsupportedType")
                 [] ty.id \in SpecialIds \ {"Vec", "Option", "HashMap", "String"} ->
                      RustType(ty.id, <<>>)
                 [] OTHER                       -> RustType(ty.id, args))
        [] OTHER -> Fail("UnexpectedToken")

(* The number of types in a type. *)
TypeWeight[ty \in Types] == 1 + Total([i \in DOMAIN ty.args |-> TypeWeight[ty.args[i]]])

(* Types are nested to some depth, so that this number is well defined. *)
ASSUME TypesAssumption ==
  \A ty \in Types :
    /\ ty = RustType(ty.id, ty.args) /\ ty.args \in Seq(Types)
    /\ TypeWeight[ty] \in Nat
    /\ TypeWeight[ty] = 1 + Total([i \in DOMAIN ty.args |-> TypeWeight[ty.args[i]]])

(* A type and all that are in its parameters. *)
TypesIn[ty \in Types] == {ty} \cup UNION {TypesIn[ty.args[i]] : i \in DOMAIN ty.args}

ContainsType(ty, id) == \E t \in TypesIn[ty] : t.id = id /\ (IsSpecial(t) => t.args = <<>>)

(* RustRefTypeIter: the ids of a type and of its parameters. *)
RefTypeIter(ty) == {t.id : t \in TypesIn[ty]}

IgnoredTypes == {"Option", "String", "Vec", "HashMap", "T", "I54", "U53"}
AcceptType(name) == StartsUppercase(name) /\ name \notin IgnoredTypes
AllReferenceTypeNames(ty) == {id \in RefTypeIter(ty) : AcceptType(id)}

(* A type as it is displayed, which is how a type mapping names it: Vec<u8> is
   <<"Vec", "u8">>. User types are looked up without their parameters. *)
Display[ty \in Types] ==
  IF IsOptional(ty) THEN <<ty.id, ty.args[1].id>>
  ELSE <<ty.id>> \o FlattenSeq([i \in DOMAIN ty.args |-> Display[ty.args[i]]])
Key(ty) == IF IsSpecial(ty) THEN Display[ty] ELSE <<ty.id>>

(* check_type of reconcile.rs: of a generic type only the parameters are
   renamed. *)
IsSimple(ty) == ~IsSpecial(ty) /\ ty.args = <<>>
RenamedType(ty, names) ==
  LET Renamed[t \in Types] ==
        IF IsSimple(t)
        THEN IF t.id \in DOMAIN names THEN [t EXCEPT !.id = names[t.id]] ELSE t
        ELSE [t EXCEPT !.args = [i \in DOMAIN t.args |-> Renamed[t.args[i]]]]
  IN  Renamed[ty]

(* RustField::type_override. *)
TypeOverrides(field, language) ==
  {d.value : d \in {e \in field.decorators : /\ e.language = language /\ e.name = "type"
                                             /\ e.isValue}}
=============================================================================
