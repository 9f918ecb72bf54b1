------------------------------- MODULE Config -------------------------------
(***************************************************************************)
(* The configuration of a run of the command line tool: typeshare.toml     *)
(* (cli/src/config.rs) and what arguments override in it (cli/src/main.rs). *)
(* A path is a sequence of names from the root. What the toml file alone   *)
(* can set is kept as far as the backends tell it apart; a package is ""   *)
(* or, for Scala, "plain" or "dotted" (a.b).                               *)
(***************************************************************************)
EXTENDS Outcomes, SequencesExt, FiniteSetsExt

FileName == "typeshare.toml"

(* The names in a path. That one is a STRING the provers do not know. *)
Names == STRING \cup {FileName}

(* The options that override a setting of the file. *)
Options == {"swift-prefix", "kotlin-prefix", "java-package", "module-name",
            "scala-package", "scala-module-name", "go-package"}

NoMappings == <<>>
DefaultConfig ==
  [settings |-> [option \in Options |-> ""],
   mappings |-> [language \in Languages |-> NoMappings],
   acronyms |-> NoMappings]

(* A configuration has all settings. An acronym without letters stays one. *)
IsComplete(config) ==
  config = [settings |-> [option \in Options |-> config.settings[option]],
            mappings |-> [language \in Languages |-> config.mappings[language]],
            acronyms |-> config.acronyms]
KeepsEmpty(acronyms) == "" \in DOMAIN acronyms => acronyms[""] = ""
IsConfig(config) == IsComplete(config) /\ KeepsEmpty(config.acronyms)

(* find_configuration_file: pushes the name of the file, and pops it and the
   directory, until there is nothing to pop; <<>> if there is no file. *)
FindConfigurationFile(path, tomls) ==
  LET Search[n \in 0..Len(path)] ==
        LET file == Append(SubSeq(path, 1, n), FileName)
        IN  IF file \in tomls THEN file ELSE IF n = 0 THEN <<>> ELSE Search[n - 1]
  IN  Search[Len(path)]

(* tomls has the configuration files there are, a failure for one that does
   not parse. No --config-file is <<>>. *)
LoadConfig(configFile, cwd, tomls) ==
  LET path == IF configFile # <<>> THEN configFile
              ELSE FindConfigurationFile(cwd, DOMAIN tomls)
  IN  CASE path = <<>> -> DefaultConfig
        [] path \in DOMAIN tomls -> tomls[path]
        [] OTHER -> Fail("no such file")

(* An option is only asked if the file leaves the setting empty. *)
OverrideDefaults(config, args) ==
  LET given == {o \in DOMAIN args.options : config.settings[o] = ""}
      settings == Over([o \in given |-> args.options[o]], config.settings)
  IN  IF args.language = "go" /\ settings["go-package"] = "" THEN Fail("no Go package")
      ELSE [config EXCEPT !.settings = settings]

(* args.options has the options given. *)
OverrideConfiguration(config, args) ==
  LET settings == [option \in Options |-> IF option \in DOMAIN args.options
                                          THEN args.options[option] ELSE config.settings[option]]
  IN  IF args.language = "go" /\ settings["go-package"] = "" THEN Fail("no Go package")
      ELSE [config EXCEPT !.settings = settings]

StorePath(configFile, cwd) == IF configFile # <<>> THEN configFile ELSE Append(cwd, FileName)

(* language: the settings a backend is made with. *)
Backend(config, language, multiFile) ==
  [prefix   |-> CASE language = "swift"  -> config.settings["swift-prefix"]
                  [] language = "kotlin" -> config.settings["kotlin-prefix"]
                  [] OTHER -> "",
   package  |-> CASE language = "kotlin" -> config.settings["java-package"]
                  [] language = "scala"  -> config.settings["scala-package"]
                  [] language = "go"     -> config.settings["go-package"]
                  [] OTHER -> "",
   mappings |-> config.mappings[language],
   acronyms |-> config.acronyms, multiFile |-> multiFile]

(* ignored_reference_types of the languages that define it; a key of several
   parts is never the name of a type. *)
IgnoredReferenceTypes(language, backend) ==
  IF language \notin {"kotlin", "typescript"} THEN {}
  ELSE {Head(key) : key \in {k \in DOMAIN backend.mappings : Len(k) = 1}}
=============================================================================
