------------------------------ MODULE TomlParser -------------------------------
(******************************************************************************)
(* fiah::TomlParser (src/include/fiah/utils/TomlParser.hh) and the            *)
(* fiah::Config (src/include/fiah/io/Config.hh) that owns one.                *)
(*                                                                            *)
(* A line of a file is what the parser can tell of it: whether it is blank or *)
(* a comment, the text in brackets if it has a '[' anywhere, whether it has   *)
(* an '=', and the key and the value around the first '='.  A value is its    *)
(* text, the pairs of quotes around it and whether there is a '#' behind or   *)
(* inside it.  m_sections is written and never read.                          *)
(******************************************************************************)
EXTENDS Integers, SequencesExt

CONSTANTS
    Files,      \* the files there may be, sequences of lines
    Number,     \* what std::stoi makes of a text, Nothing if it throws
    Prefix,     \* what is left of a text with a '#' in it
    Nothing,    \* no value, no section, no file
    MaxLines,   \* bound: the lines read in all
    MaxLoads    \* bound: the calls of parse_config

PortLimit == 65536  \* the values of a uint16_t

VARIABLES
    m_keys,  \* the value of each <<section, key>> that has one
    result,  \* what the last parse_config returned
    loads    \* what each load found, in order: a file, or Nothing

configVars == <<m_keys, result, loads>>

ConfigInit ==
    /\ m_keys = <<>>
    /\ result = FALSE
    /\ loads = <<>>

--------------------------------------------------------------------------------
(* extract_keys. *)

\* The value as it is stored: cut at '#', which loses the closing quotes of a quoted text, then
\* without the outermost pair of quotes.
unquoted(raw) ==
    IF raw.hash = "inside"
    THEN [text |-> Prefix[raw.text], quotes |-> 0, dangling |-> raw.quotes > 0]
    ELSE [text |-> raw.text, quotes |-> IF raw.quotes > 0 THEN raw.quotes - 1 ELSE 0, dangling |-> FALSE]

\* Mutant: a key that is there already gets the new value.
assigned(keys, name, val) ==
    [x \in DOMAIN keys \cup {name} |-> IF x = name THEN val ELSE keys[x]]

\* unordered_map::emplace: a key that is there already keeps its value.
emplaced(keys, name, val) ==
    [x \in DOMAIN keys \cup {name} |-> IF x \in DOMAIN keys THEN keys[x] ELSE val]

\* One turn of the loop on a state of keys, current_section and whether the parse failed.
parseLine(state, line) ==
    CASE state.failed \/ line.blank -> state
      [] line.bracket # Nothing -> [state EXCEPT !.section = line.bracket]
      [] ~line.eq \/ state.section = "" -> [state EXCEPT !.failed = TRUE]
      [] OTHER -> [state EXCEPT !.keys = emplaced(@, <<state.section, line.key>>, unquoted(line.val))]

extract_keys(keys, file) ==
    FoldLeft(parseLine, [keys |-> keys, section |-> "", failed |-> FALSE], file)

\* TomlParser::load and whether it succeeds; the file may be another one each time, or not be there.
load(file, success) ==
    /\ \/ file = Nothing /\ ~success /\ UNCHANGED m_keys
       \/ /\ file # Nothing
          /\ LET parsed == extract_keys(m_keys, file)
             IN  m_keys' = parsed.keys /\ success = ~parsed.failed
    /\ loads' = Append(loads, file)

\* Config::parse_config: an error is FALSE.
parse_config(file) == \E success \in BOOLEAN : load(file, success) /\ result' = success

LinesRead == FlattenSeq(SelectSeq(loads, LAMBDA file : file # Nothing))

ConfigNext ==
    /\ Len(loads) < MaxLoads
    /\ \/ parse_config(Nothing)
       \/ \E file \in Files : Len(LinesRead) + Len(file) <= MaxLines /\ parse_config(file)

ConfigSpec == ConfigInit /\ [][ConfigNext]_configVars

--------------------------------------------------------------------------------
(* The getters. *)

get_value(section, key) ==
    IF <<section, key>> \in DOMAIN m_keys THEN m_keys[<<section, key>>] ELSE Nothing

\* std::stoi of a value: it throws at a quote.
stoi(val) == IF val.quotes > 0 \/ val.dangling THEN Nothing ELSE Number[val.text]

\* get_string takes off one more pair of quotes; get_int answers 0 for what is no number.
get_string(section, key) ==
    LET val == get_value(section, key)
    IN  IF val # Nothing /\ val.quotes > 0 THEN [val EXCEPT !.quotes = @ - 1] ELSE val

get_int(section, key) ==
    LET val == get_string(section, key)
    IN  IF val = Nothing \/ stoi(val) = Nothing THEN 0 ELSE stoi(val)

get_market_port ==
    LET val == get_value("network", "port")
    IN  IF val = Nothing \/ stoi(val) = Nothing \/ stoi(val) < 0 THEN 0 ELSE stoi(val) % PortLimit

--------------------------------------------------------------------------------
(* What a file says, by positions instead of by a loop. *)

SectionAt(file, i) ==
    LET headers == {j \in 1 .. i - 1 : ~file[j].blank /\ file[j].bracket # Nothing}
    IN  IF headers = {} THEN "" ELSE file[Max(headers)].bracket

Content(file) == {i \in DOMAIN file : ~file[i].blank /\ file[i].bracket = Nothing}
Bad(file) == {i \in Content(file) : ~file[i].eq \/ SectionAt(file, i) = ""}

\* The lines that give the key a value: those before the first bad one.
Givers(file, section, key) ==
    {i \in Content(file) : /\ file[i].key = key /\ SectionAt(file, i) = section
                           /\ \A j \in Bad(file) : i < j}

\* The raw value that the loads so far give the key: the first in the first file that has one.
Given(section, key) ==
    LET givers(n) == IF loads[n] = Nothing THEN {} ELSE Givers(loads[n], section, key)
        having == {n \in DOMAIN loads : givers(n) # {}}
    IN  IF having = {} THEN Nothing ELSE loads[Min(having)][Min(givers(Min(having)))].val

Lines == UNION {Range(file) : file \in Files}
Names == {l.bracket : l \in Lines} \X {l.key : l \in Lines}

(* What is served is what was read: after any number of loads, some of which  *)
(* failed half way, a key has the first value that stood under its section    *)
(* before the first bad line of its file, a later load changes no key that    *)
(* has a value, and parse_config returns true exactly if the file was there   *)
(* and had no bad line.                                                       *)
KeysServed ==
    /\ DOMAIN m_keys \subseteq Names
    /\ \A name \in Names :
          LET raw == Given(name[1], name[2])
          IN  get_value(name[1], name[2]) = IF raw = Nothing THEN Nothing ELSE unquoted(raw)
    /\ loads # <<>> => (result <=> Last(loads) # Nothing /\ Bad(Last(loads)) = {})

(* The port as written: a number from 0 to 65535, bare or in one pair of      *)
(* quotes, is the port that get_market_port returns and get_int reads, with   *)
(* or without a comment behind it; what is no number is port 0.               *)
PortAsWritten ==
    LET raw == Given("network", "port")
    IN  IF raw = Nothing
        THEN get_market_port = 0 /\ get_int("network", "port") = 0
        ELSE /\ raw.hash # "inside" /\ raw.quotes <= 1 /\ Number[raw.text] \in 0 .. PortLimit - 1 =>
                   get_market_port = Number[raw.text] /\ get_int("network", "port") = Number[raw.text]
             /\ (IF raw.hash = "inside" THEN raw.quotes > 0 ELSE Number[raw.text] = Nothing) =>
                   get_market_port = 0 /\ get_int("network", "port") = 0

\* The configuration serves what the files say: both of the above.
ServedAsWritten == KeysServed /\ PortAsWritten
================================================================================
