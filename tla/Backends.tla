------------------------------ MODULE Backends ------------------------------
(***************************************************************************)
(* The backends as generate_types (cli/src/main.rs) gets them, a trait     *)
(* object: each operation by the language.                                 *)
(***************************************************************************)
EXTENDS Swift, Kotlin, Scala, Go, Python, TypeScript

BeginModuleIn(language, backend, items) ==
  CASE language = "swift"  -> SwiftBeginFile(backend)
    [] language = "kotlin" -> KotlinBeginFile(backend)
    [] language = "scala"  -> ScalaBeginFile(backend, items)
    [] language = "go"     -> GoBeginFile(backend)
    [] language = "python" -> PythonBeginFile(backend)
    [] language = "typescript" -> TypeScriptBeginFile(backend)

WriteItemIn(language, backend, item) ==
  CASE language = "swift"  -> SwiftWriteItem(backend, item)
    [] language = "kotlin" -> KotlinWriteItem(backend, item)
    [] language = "scala"  -> ScalaWriteItem(backend, item)
    [] language = "go"     -> GoWriteItem(backend, item)
    [] language = "python" -> PythonWriteItem(backend, item)
    [] language = "typescript" -> TypeScriptWriteItem(backend, item)

(* What the end of the module writes of what the backend remembers, and what
   goes into a module of its own in the end. *)
EndModuleIn(language, backend, recorded) ==
  CASE language = "swift"  -> SwiftEndFile(backend, recorded)
    [] language = "kotlin" -> KotlinEndFile(backend, recorded)
    [] language = "scala"  -> ScalaEndFile(backend, recorded)
    [] language = "go"     -> GoEndFile(backend, recorded)
    [] language = "python" -> PythonEndFile(backend, recorded)
    [] language = "typescript" -> TypeScriptEndFile(backend, recorded)

PostGenerationIn(language, backend, recorded) ==
  CASE language = "swift"  -> SwiftPostGeneration(backend, recorded)
    [] language = "kotlin" -> KotlinPostGeneration(backend, recorded)
    [] language = "scala"  -> ScalaPostGeneration(backend, recorded)
    [] language = "go"     -> GoPostGeneration(backend, recorded)
    [] language = "python" -> PythonPostGeneration(backend, recorded)
    [] language = "typescript" -> TypeScriptPostGeneration(backend, recorded)
=============================================================================
