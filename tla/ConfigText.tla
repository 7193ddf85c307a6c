----------------------------- MODULE ConfigText -----------------------------
(***************************************************************************)
(* What the panel reads in a frpc configuration, line by line              *)
(* (src/internal/app/configparse.go): the scope every key belongs to, in   *)
(* TOML ([[proxies]], [[visitors]], [table]) and in the older INI          *)
(* ([section]).  A line is what the parsers tell apart; a key has no dot   *)
(* of its own, is in lower case, its quotes and comments are gone.         *)
(*                                                                         *)
(* The strings of a value are named by the lines they stand in, which is   *)
(* also their order: a value is a set of lines, of one when it is no       *)
(* array.  A table of the parser is named by the line it was made at, 0    *)
(* for the root.                                                           *)
(***************************************************************************)
EXTENDS Naturals, Sequences

CONSTANTS
  Keys,       \* keys, "addr" and "token" among them
  Lists,      \* the keys whose value is an array
  Tables,     \* names in [name]
  MaxLines    \* bound: lines of a configuration

ASSUME ConfigAssumption ==
  /\ {"addr", "token"} \subseteq Keys /\ Lists \subseteq Keys \ {"addr", "token"}
  /\ "" \notin Keys
  /\ {"auth", "common"} \subseteq Tables /\ "" \notin Tables
  /\ MaxLines \in Nat

VARIABLES
  config,  \* the configuration, as far as it has been read
  format,  \* what looksLikeINI says of all of it
  toml,    \* the variables of parseFrpcTOML
  ini      \* the variables of parseFrpcINI

configVars == <<config, format, toml, ini>>

\* "open" begins an array that goes on over the next lines, up to "close".
ConfigLine ==
  [kind : {"elements"}, name : {"proxies", "visitors", "other"}]
    \cup [kind : {"table"}, name : Tables]
    \cup [kind : {"value"}, key : Keys]
    \cup [kind : {"open"}, key : Lists]
    \cup [kind : {"item", "close", "blank"}]

Common(name) == name \in {"common", "COMMON"}

\* The maps of the frpcTables, in one: a key of a table, with the [table] it is
\* under, and one line of its value.  What is not there reads as empty.
NoEntries == {}

ValueOf(entries, table, prefix, key) ==
  {e.line : e \in {e \in entries : e.table = table /\ e.prefix = prefix /\ e.key = key}}

Assign(entries, table, prefix, key, value) ==
  {e \in entries : ~(e.table = table /\ e.prefix = prefix /\ e.key = key)}
    \cup [table : {table}, prefix : {prefix}, key : {key}, line : value]

Here == Len(config) + 1    \* the line that is read

-----------------------------------------------------------------------------
(* parseFrpcTOML: the first table is the root, prefix the [table] in it *)

TomlStart == [cur |-> 0, prefix |-> "", open |-> "",
              proxies |-> <<>>, visitors |-> <<>>, entries |-> NoEntries]

Element(name) ==
  [toml EXCEPT !.cur = Here, !.prefix = "",
               !.proxies = IF name = "proxies" THEN Append(@, Here) ELSE @,
               !.visitors = IF name = "visitors" THEN Append(@, Here) ELSE @]

Mutant_StaysInElement(name) == [toml EXCEPT !.prefix = name]
EnterTable(name) == [toml EXCEPT !.cur = 0, !.prefix = name]

\* setTOML, in the current table
Current(key) == ValueOf(toml.entries, toml.cur, toml.prefix, key)
Set(key, value) == [toml EXCEPT !.entries = Assign(@, toml.cur, toml.prefix, key, value)]

TomlLine(line) ==
  CASE toml.open # "" /\ line.kind = "item" ->
         Set(toml.open, Current(toml.open) \cup {Here})
    [] toml.open # "" /\ line.kind = "close" -> [toml EXCEPT !.open = ""]
    [] toml.open = "" /\ line.kind = "elements" -> Element(line.name)
    [] toml.open = "" /\ line.kind = "table" -> EnterTable(line.name)
    [] toml.open = "" /\ line.kind = "value" -> Set(line.key, {Here})
    [] toml.open = "" /\ line.kind = "open" -> [Set(line.key, {}) EXCEPT !.open = line.key]
    [] OTHER -> toml

\* proxyRuleFromTable takes the keys that stand in the element itself.
Rule(element) == [k \in Keys |-> ValueOf(toml.entries, element, "", k)]

\* The end of parseFrpcTOML, after the last line: what the server is told.
TomlServer == [addr  |-> ValueOf(toml.entries, 0, "", "addr"),
               token |-> ValueOf(toml.entries, 0, "auth", "token")]

-----------------------------------------------------------------------------
(* parseFrpcINI *)

IniStart == [cur |-> "", sections |-> [t \in Tables |-> 0], order |-> <<>>,
             entries |-> NoEntries]

\* A section that comes again goes on.
Mutant_AlwaysAnew(name) ==
  [ini EXCEPT !.cur = name, !.sections[name] = Here, !.order = Append(@, name)]
EnterSection(name) ==
  IF ini.sections[name] # 0 THEN [ini EXCEPT !.cur = name]
  ELSE [ini EXCEPT !.cur = name, !.sections[name] = Here, !.order = Append(@, name)]

\* setRaw, in the current section
IniLine(line) ==
  CASE line.kind = "table" -> EnterSection(line.name)
    [] line.kind = "value" /\ ini.cur # "" ->
         [ini EXCEPT !.entries = Assign(@, ini.sections[ini.cur], "", line.key, {Here})]
    [] OTHER -> ini

InSection(name, key) ==
  IF ini.sections[name] = 0 THEN {} ELSE ValueOf(ini.entries, ini.sections[name], "", key)

\* The end of parseFrpcINI: the server, and where in the order the rules are.
IniServer == [addr |-> InSection("common", "addr"), token |-> InSection("common", "token")]
IniRules  == {i \in DOMAIN ini.order : ~Common(ini.order[i])}

-----------------------------------------------------------------------------
(* ParseFrpcConfig reads any text that frpc itself would take *)

LooksLikeINI(text) ==
  \E i \in DOMAIN text : text[i].kind = "table" /\ Common(text[i].name)

\* The array that is open after the line i.
Opened(i) ==
  {j \in 1..i : config[j].kind = "open" /\ \A k \in j..i : config[k].kind # "close"}

ConfigInit ==
  /\ config = <<>> /\ format \in {"toml", "ini"}
  /\ toml = TomlStart /\ ini = IniStart

Allowed(line) ==
  /\ format = "ini" => line.kind \in {"table", "value", "blank"}
  /\ format = "toml" /\ line.kind = "table" => ~Common(line.name)
  /\ line.kind \in {"item", "close"} => Opened(Len(config)) # {}
  /\ Opened(Len(config)) # {} => line.kind \in {"item", "close", "blank"}

ReadConfigLine ==
  /\ Len(config) < MaxLines
  /\ \E line \in ConfigLine :
       /\ Allowed(line)
       /\ config' = Append(config, line)
       /\ toml' = IF format = "toml" THEN TomlLine(line) ELSE toml
       /\ ini' = IF format = "ini" THEN IniLine(line) ELSE ini
  /\ UNCHANGED format

ConfigNext == ReadConfigLine

ConfigSpec == ConfigInit /\ [][ConfigNext]_configVars

\* The text may end here: no array is open, and it is of its format.
Complete == Opened(Len(config)) = {} /\ (format = "ini" <=> LooksLikeINI(config))

-----------------------------------------------------------------------------
(* Properties *)

Headers == {h \in 1..Len(config) : config[h].kind \in {"elements", "table"}}

\* The line i stands under the header h, 0 for none.
Under(i, h) == h < i /\ \A g \in Headers : g <= h \/ i <= g

\* The lines for a key that stand under some header.
Said(key, headers) ==
  {i \in 1..Len(config) : /\ config[i].kind \in {"value", "open"} /\ config[i].key = key
                          /\ \E h \in headers : Under(i, h)}

\* Where the strings are of the value that begins at the line i.
Strings(i) ==
  IF config[i].kind = "value" THEN {i}
  ELSE {j \in i..Len(config) : /\ config[j].kind = "item"
                               /\ \A k \in i..j : config[k].kind # "close"}

\* What the last line for the key says, of those under some header.
LastSaid(key, headers) ==
  UNION {Strings(i) : i \in {i \in Said(key, headers) :
                               \A j \in Said(key, headers) : j <= i}}

HeadersOf(kind, name) == {h \in Headers : config[h].kind = kind /\ config[h].name = name}

InOrder(list, headers) ==
  /\ \A i, j \in DOMAIN list : i < j => list[i] < list[j]
  /\ {list[i] : i \in DOMAIN list} = headers

(* Whatever the order of the scopes in a TOML file, a key goes to the one  *)
(* it stands under: a key of a proxy is never taken for one of the server  *)
(* or of the next proxy, and none is lost, nor a string of an array; the   *)
(* proxies and the visitors are listed in the order of the file.           *)
TomlKeysAreInTheirScope ==
  format = "toml" /\ Complete =>
    /\ TomlServer = [addr  |-> LastSaid("addr", {0}),
                     token |-> LastSaid("token", HeadersOf("table", "auth"))]
    /\ InOrder(toml.proxies, HeadersOf("elements", "proxies"))
    /\ InOrder(toml.visitors, HeadersOf("elements", "visitors"))
    /\ \A h \in HeadersOf("elements", "proxies") \cup HeadersOf("elements", "visitors") :
         Rule(h) = [k \in Keys |-> LastSaid(k, {h})]

\* The first header of a section.
Begins(h, name) == h \in HeadersOf("table", name) /\ \A g \in HeadersOf("table", name) : h <= g

(* In an INI file too, where a section may stand in several places: it is  *)
(* one, with all its keys, listed where it stands first.  A section        *)
(* [common] written in another case makes the file an INI file but is      *)
(* taken neither for the server nor for a proxy.                           *)
IniKeysAreInTheirSection ==
  format = "ini" /\ Complete =>
    /\ IniServer = [addr  |-> LastSaid("addr", HeadersOf("table", "common")),
                    token |-> LastSaid("token", HeadersOf("table", "common"))]
    /\ \A name \in Tables :
         /\ \A k \in Keys : InSection(name, k) = LastSaid(k, HeadersOf("table", name))
         /\ HeadersOf("table", name) # {} /\ ~Common(name) <=>
              \E i \in IniRules : ini.order[i] = name
    /\ \A i, j \in IniRules : \A g, h \in Headers :
         i < j /\ Begins(g, ini.order[i]) /\ Begins(h, ini.order[j]) => g < h
=============================================================================
