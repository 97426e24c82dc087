--------------------------- MODULE Configuration ---------------------------
(***************************************************************************)
(* config::ConfigManager (src/core/config/config_manager.hpp, .cpp) and    *)
(* the way main fills and reads it (src/main.cpp lines 57-83 and each      *)
(* getOrDefault): a map from keys to values that remember the type they    *)
(* were stored with, and a get that finds a value only if it is asked for  *)
(* with that type.  Options are applied in their order, a configuration    *)
(* file where its --config stands among them.                              *)
(*                                                                         *)
(* parseYaml tells the type of a value by what it looks like; a number it  *)
(* stores as an int64_t.  main reads its numbers as uint16_t or uint32_t.  *)
(***************************************************************************)
EXTENDS Integers, Sequences

CONSTANTS
    Flags, Strings, Ports, Ages,   \* keys main reads as bool, std::string,
                                   \* uint16_t and, for cleanup, uint32_t
    Default,        \* of each key that setDefaultConfig sets: its value
    Fallback,       \* of each key: the value main reads it with if there is none
    Options,        \* the command line's: of each key that one sets, the value
    Files,          \* what files may say: sequences of lines [key, looks, value]
    NoValue,        \* a key nobody has set
    PortModulus,    \* 2^16
    MaxOptions      \* bound: options on the command line

Keys == Flags \cup Strings \cup Ports \cup Ages

ASSUME KeysHaveOneType ==
    /\ Flags \cap (Strings \cup Ports \cup Ages) = {}
    /\ Strings \cap (Ports \cup Ages) = {}
    /\ Ports \cap Ages = {}
ASSUME FilesAreSequences == \A f \in Files : f \in Seq({f[i] : i \in DOMAIN f})
ASSUME PortsAreNumbers ==
    /\ PortModulus \in Nat \ {0}
    /\ \A o \in Options : \A k \in Ports \cap DOMAIN o : o[k] \in Int

VARIABLES
    values,    \* values_: of each key its type and value, or NoValue
    said,      \* history: of each key the last word said, and who said it
    options,   \* history: how many options were parsed
    startup    \* main: "options", "ready", "started" or "exited"

configVars == <<values, said, options, startup>>

Typed(type, v) == [type |-> type, value |-> v]

\* The type main reads a key with.
TypeRead(k) ==
    CASE k \in Flags -> "bool"
      [] k \in Strings -> "string"
      [] k \in Ports -> "uint16"
      [] k \in Ages -> "uint32"

\* What an option stores: the type main reads the key with; a port keeps its lower
\* 16 bits, a negative one too.
Stored(k, v) == Typed(TypeRead(k), IF k \in Ports THEN v % PortModulus ELSE v)

ASSUME NoValueIsNoValue ==
    /\ \A o \in Options : \A k \in DOMAIN o : NoValue # Stored(k, o[k])
    /\ \A f \in Files : \A i \in DOMAIN f : NoValue # Typed(f[i].looks, f[i].value)

\* The constructor's setDefaultConfig.
Defaults ==
    [k \in Keys |-> IF k \in DOMAIN Default THEN Typed(TypeRead(k), Default[k]) ELSE NoValue]

ConfigInit ==
    /\ values = Defaults
    /\ said = [k \in Keys |-> NoValue]
    /\ options = 0
    /\ startup = "options"

\* get, as main calls it.
get(k) == IF values[k] # NoValue /\ values[k].type = TypeRead(k) THEN values[k] ELSE NoValue

\* getOrDefault, as main calls it.
getOrDefault(k) == IF get(k) = NoValue THEN Fallback[k] ELSE get(k).value

\* parseYaml stores a value as what it looks like, be it read so or not.
parsedType(line) == line.looks

\* parseYamlValue leaves the key alone if the number is too large.
Sets(line, k) == line.key = k /\ line.looks # "overflow"

\* The last line of a file that sets a key, 0 for none.
LastLine(file, k) ==
    LET of == {i \in DOMAIN file : Sets(file[i], k)}
    IN  IF of = {} THEN 0 ELSE CHOOSE i \in of : \A j \in of : j <= i

-----------------------------------------------------------------------------
(* main parses its arguments *)

\* What is said of a key, and whether it is of a form that the key can take.
Word(by, fits, v) == [by |-> by, fits |-> fits, value |-> v]

\* Does the value look like what main reads the key as?
Fits(line) ==
    line.looks = IF line.key \in Flags THEN "bool"
                 ELSE IF line.key \in Strings THEN "string" ELSE "int64"

\* Mutant of Overrides: a file only fills in what no option has said.
OverridesDefaultsOnly(file, k) ==
    LastLine(file, k) # 0 /\ (said[k] = NoValue \/ said[k].by # "option")

Overrides(file, k) == LastLine(file, k) # 0

\* --config with a file that can be opened.
LoadFile(file) ==
    /\ startup = "options" /\ options < MaxOptions
    /\ values' = [k \in Keys |->
          LET line == file[LastLine(file, k)]
          IN  IF Overrides(file, k) THEN Typed(parsedType(line), line.value) ELSE values[k]]
    /\ said' = [k \in Keys |->
          LET line == file[LastLine(file, k)]
          IN  IF LastLine(file, k) # 0 THEN Word("file", Fits(line), line.value) ELSE said[k]]
    /\ options' = options + 1
    /\ UNCHANGED startup

\* An option that sets a key, or two as --interface does.
SetOption(o) ==
    /\ startup = "options" /\ options < MaxOptions
    /\ values' = [k \in Keys |-> IF k \in DOMAIN o THEN Stored(k, o[k]) ELSE values[k]]
    /\ said' = [k \in Keys |->
          IF k \in DOMAIN o
          THEN Word("option", k \in Ports => o[k] \in 0 .. PortModulus - 1, o[k])
          ELSE said[k]]
    /\ options' = options + 1
    /\ UNCHANGED startup

\* --help, a file that cannot be opened, or a port that is no number.
Exit ==
    /\ startup = "options"
    /\ startup' = "exited"
    /\ UNCHANGED <<values, said, options>>

OptionsEnd ==
    /\ startup = "options"
    /\ startup' = "ready"
    /\ UNCHANGED <<values, said, options>>

ParseArguments ==
    \/ \E f \in Files : LoadFile(f)
    \/ \E o \in Options : SetOption(o)
    \/ Exit
    \/ OptionsEnd

-----------------------------------------------------------------------------
(* Properties *)

Read == startup \in {"ready", "started"}

\* What was said last of a flag, a string or, by an option, of a port is what
\* main gets, in whatever order files and options come (main.cpp 57-83,
\* config_manager.hpp 26-52).
LastWordCounts ==
    Read => \A k \in Keys :
        /\ said[k] # NoValue
        /\ said[k].fits
        /\ k \in Flags \cup Strings \/ said[k].by = "option"
        => getOrDefault(k) = said[k].value

-----------------------------------------------------------------------------
(* What the code does not keep *)

\* The last word said of any key counts, a file's numbers included: README line
\* 233, "NetSentry uses YAML for configuration", with "api_port: 8080" in the
\* example below it.
SettingsTakeEffect ==
    Read => \A k \in Keys :
        said[k] # NoValue /\ said[k].fits => getOrDefault(k) = said[k].value

=============================================================================
