----------------------------- MODULE RenameExt ------------------------------
(***************************************************************************)
(* Case conversions of identifiers, core/src/rename.rs, as RenameExt has   *)
(* them for serde's rename_all. Identifiers are ASCII here.                *)
(***************************************************************************)
EXTENDS Naturals, Sequences, SequencesExt

Lowercase == "abcdefghijklmnopqrstuvwxyz"
Uppercase == "ABCDEFGHIJKLMNOPQRSTUVWXYZ"

Chars(name) == [i \in 1..Len(name) |-> SubSeq(name, i, i)]
Text(chars) == FoldLeft(LAMBDA name, ch : name \o ch, "", chars)

Case(from, to) == [ch \in ToSet(from) |-> to[CHOOSE i \in DOMAIN from : from[i] = ch]]
UpperOf == Case(Chars(Lowercase), Chars(Uppercase))
LowerOf == Case(Chars(Uppercase), Chars(Lowercase))

IsUppercase(ch) == ch \in DOMAIN LowerOf
Converted(case, ch) == IF ch \in DOMAIN case THEN case[ch] ELSE ch
Upper(ch) == Converted(UpperOf, ch)
Lower(ch) == Converted(LowerOf, ch)

ToUppercase(name) == Text([i \in 1..Len(name) |-> Upper(Chars(name)[i])])
ToLowercase(name) == Text([i \in 1..Len(name) |-> Lower(Chars(name)[i])])
StartsUppercase(name) == name # "" /\ IsUppercase(Chars(name)[1])
StartsLowercase(name) == name # "" /\ Chars(name)[1] \in DOMAIN UpperOf

(* A name that is uppercase as a whole, such as URL, loses its case; of others
   the characters after the first of a word stay. *)
ToPascalCase(name) ==
  LET chars == Chars(name)
      isUppercase == ToUppercase(name) = name
  IN  Text([i \in DOMAIN chars |->
              IF chars[i] = "_" THEN ""
              ELSE IF i = 1 \/ chars[i - 1] = "_" THEN Upper(chars[i])
              ELSE IF isUppercase THEN Lower(chars[i]) ELSE chars[i]])

(* A panic for a name without any other character than underscores. *)
Uncapitalized(pascal) == Lower(Chars(pascal)[1]) \o Tail(pascal)
ToCamelCase(name) == Uncapitalized(ToPascalCase(name))

ToSnakeCase(name) ==
  LET chars == Chars(name)
      isUppercase == ToUppercase(name) = name
  IN  Text([i \in DOMAIN chars |->
              (IF i > 1 /\ IsUppercase(chars[i]) /\ ~isUppercase THEN "_" ELSE "")
                \o Lower(chars[i])])
ToScreamingSnakeCase(name) == ToUppercase(ToSnakeCase(name))

Dashed(chars) == Text([i \in DOMAIN chars |-> IF chars[i] = "_" THEN "-" ELSE chars[i]])
ToKebabCase(name) == Dashed(Chars(ToSnakeCase(name)))
ToScreamingKebabCase(name) == ToUppercase(ToKebabCase(name))

(* rename_all_to_case of core/src/parser.rs; case is <<>> if none is given. *)
RenameAllToCase(original, case) ==
  IF case = <<>> THEN original
  ELSE CASE Head(case) = "lowercase"            -> ToLowercase(original)
         [] Head(case) = "UPPERCASE"            -> ToUppercase(original)
         [] Head(case) = "PascalCase"           -> ToPascalCase(original)
         [] Head(case) = "camelCase"            -> ToCamelCase(original)
         [] Head(case) = "snake_case"           -> ToSnakeCase(original)
         [] Head(case) = "SCREAMING_SNAKE_CASE" -> ToScreamingSnakeCase(original)
         [] Head(case) = "kebab-case"           -> ToKebabCase(original)
         [] Head(case) = "SCREAMING-KEBAB-CASE" -> ToScreamingKebabCase(original)
         [] OTHER -> original
=============================================================================
