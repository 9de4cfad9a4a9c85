-------------------------------- MODULE Shell --------------------------------
(***************************************************************************)
(* The shell: its line editor and its history, the netconf command, and    *)
(* the files of /config that carry both over a restart.                    *)
(*                                                                         *)
(* A file is a sequence of cells.  A letter or a digit is a cell; a key    *)
(* word, a value that is a word, and a comment are one cell each.          *)
(***************************************************************************)
EXTENDS Integers, Sequences, SequencesExt

CONSTANTS SHELL_HISTORY_SIZE, SHELL_LINE_MAX,
          Letter,       \* the characters that are typed
          Octet,        \* the values of the bytes of addresses
          Preset        \* the configurations network.conf may hold

ASSUME ShellAssumption == SHELL_HISTORY_SIZE \in Nat \ {0} /\ SHELL_LINE_MAX \in Nat \ {0}

VARIABLES
    line, pos,                 \* the line being edited, and the cursor
    history, history_count, history_index, history_nav,
    history_file,              \* /config/history, or NoFile
    conf_file,                 \* /config/network-eth0.conf, or NoFile
    network_file,              \* /config/network.conf, or NoFile
    applied,                   \* what the boot configured the interface with
    recorded,                  \* history: the last lines that were entered
    stored,                    \* history: those of the last successful save
    configured                 \* history: the configuration netconf saved last

editVars == <<line, pos>>
ringVars == <<history, history_count, history_index, recorded>>
bootVars == <<network_file, applied>>
shellVars == <<editVars, ringVars, history_nav, history_file, conf_file, stored, configured, bootVars>>

NoFile == <<"no file">>
NL == "\n"

-----------------------------------------------------------------------------
(* Files.  VFS_O_TRUNC is ignored by vfs_open: what is written replaces    *)
(* the beginning of the file, and the file never gets shorter.             *)
Overwrite(file, content) ==
    content \o IF file = NoFile THEN <<>> ELSE SubSeq(file, Len(content) + 1, Len(file))

(* The parts of a text between separators.                                 *)
Fields(text, sep) ==
    LET ends == SelectSeq([i \in 1 .. Len(text) + 1 |-> i],
                          LAMBDA i : i = Len(text) + 1 \/ text[i] = sep)
    IN [k \in DOMAIN ends |->
            SubSeq(text, IF k = 1 THEN 1 ELSE ends[k - 1] + 1, ends[k] - 1)]

(* The lines the loaders look at; the end of the file ends the last one.   *)
LinesOf(file) == SelectSeq(Fields(file, NL), LAMBDA l : l # <<>>)

(* config_save_history, oldest line first.                                 *)
HistoryText(lines, count, start_index) ==
    FlattenSeq([i \in 1 .. count |-> Append(lines[(start_index + i - 1) % SHELL_HISTORY_SIZE], NL)])

config_load_history ==
    IF history_file = NoFile THEN <<>>
    ELSE LET lines == SelectSeq(LinesOf(history_file), LAMBDA l : Len(l) < SHELL_LINE_MAX)
         IN SubSeq(lines, 1, IF Len(lines) < SHELL_HISTORY_SIZE THEN Len(lines) ELSE SHELL_HISTORY_SIZE)

-----------------------------------------------------------------------------
(* Addresses and network configurations.                                   *)
Digits == <<"0", "1", "2", "3", "4", "5", "6", "7", "8", "9">>
Digit(n) == Digits[n + 1]
ValueOf(ch) == (CHOOSE i \in DOMAIN Digits : Digits[i] = ch) - 1

OctetText(v) ==
    CASE v >= 100 -> <<Digit(v \div 100), Digit((v % 100) \div 10), Digit(v % 10)>>
      [] v \in 10 .. 99 -> <<Digit(v \div 10), Digit(v % 10)>>
      [] OTHER -> <<Digit(v)>>

config_ip_to_string(ip) ==
    OctetText(ip[1]) \o <<".">> \o OctetText(ip[2]) \o <<".">> \o OctetText(ip[3])
        \o <<".">> \o OctetText(ip[4])

Zero == <<0, 0, 0, 0>>

(* The address a text stands for: four numbers, an empty one being 0.      *)
NumberOf(digits) ==
    LET upto[n \in 0 .. Len(digits)] == IF n = 0 THEN 0 ELSE 10 * upto[n - 1] + ValueOf(digits[n])
    IN upto[Len(digits)]

IsAddress(text) ==
    /\ ToSet(text) \subseteq ToSet(Digits) \cup {"."}
    /\ Len(Fields(text, ".")) = 4
    /\ \A k \in 1 .. 4 : NumberOf(Fields(text, ".")[k]) <= 255

config_parse_ip(text) == [k \in 1 .. 4 |-> NumberOf(Fields(text, ".")[k])]

Dhcp == [use_dhcp |-> TRUE, ip |-> Zero, netmask |-> Zero, gateway |-> Zero, dns |-> Zero]
Static(ip, netmask, gateway, dns) ==
    [use_dhcp |-> FALSE, ip |-> ip, netmask |-> netmask, gateway |-> gateway, dns |-> dns]

Entry(key, value) == <<key, "=">> \o value \o <<NL>>

(* The text config_save_network_iface writes.                              *)
ConfigText(config) ==
    <<"#", NL, NL>> \o Entry("dhcp", <<IF config.use_dhcp THEN "yes" ELSE "no">>) \o <<NL>>
    \o IF config.use_dhcp THEN <<>>
       ELSE <<"#", NL>> \o Entry("ip", config_ip_to_string(config.ip))
            \o Entry("netmask", config_ip_to_string(config.netmask))
            \o Entry("gateway", config_ip_to_string(config.gateway))
            \o Entry("dns", config_ip_to_string(config.dns))

(* A line without "=" sets nothing, nor does an address that is malformed; *)
(* a later line overrides an earlier one.                                  *)
IsEntry(l, key) == Len(l) >= 2 /\ l[1] = key /\ l[2] = "="
ValueIn(l) == SubSeq(l, 3, Len(l))

AddressFor(lines, key) ==
    LET set == SelectSeq(lines, LAMBDA l : IsEntry(l, key) /\ IsAddress(ValueIn(l)))
    IN IF set = <<>> THEN Zero ELSE config_parse_ip(ValueIn(Last(set)))

UsesDhcp(lines) ==
    LET set == SelectSeq(lines, LAMBDA l : IsEntry(l, "dhcp"))
    IN set = <<>> \/ ValueIn(Last(set)) = <<"yes">>

Loaded(lines) ==
    [use_dhcp |-> UsesDhcp(lines), ip |-> AddressFor(lines, "ip"),
     netmask |-> AddressFor(lines, "netmask"), gateway |-> AddressFor(lines, "gateway"),
     dns |-> AddressFor(lines, "dns")]

ConfigIn(file) == IF file = NoFile THEN Dhcp ELSE Loaded(LinesOf(file))

config_load_network_iface == ConfigIn(conf_file)

(* The boot reads the file of no interface in particular, which nothing    *)
(* writes, and applies a static configuration.                             *)
config_load_network == ConfigIn(network_file)
config_apply_network(config) == IF config.use_dhcp THEN Dhcp ELSE config

Address == {<<o, o, o, o>> : o \in Octet}
Configs == {Dhcp} \cup {Static(a, a, a, a) : a \in Address}

-----------------------------------------------------------------------------
NewLine == line' = <<>> /\ pos' = 0 /\ history_nav' = -1

ShellInit ==
    /\ line = <<>> /\ pos = 0
    /\ history = [i \in 0 .. SHELL_HISTORY_SIZE - 1 |-> <<>>]
    /\ history_count = 0 /\ history_index = 0 /\ history_nav = -1
    /\ history_file = NoFile /\ conf_file = NoFile
    /\ recorded = <<>> /\ stored = <<>> /\ configured = Dhcp
    /\ network_file \in {NoFile} \cup {ConfigText(c) : c \in Preset}
    /\ applied = config_apply_network(config_load_network)

history_get(offset) ==
    history[(history_index - 1 - offset + SHELL_HISTORY_SIZE) % SHELL_HISTORY_SIZE]

(* A printable character goes in at the cursor while there is room.        *)
TypeLetter(ch) ==
    /\ Len(line) < SHELL_LINE_MAX - 1
    /\ line' = InsertAt(line, pos + 1, ch) /\ pos' = pos + 1
    /\ UNCHANGED <<ringVars, history_nav, history_file, conf_file, stored, configured, bootVars>>

Backspace ==
    /\ pos > 0
    /\ line' = RemoveAt(line, pos) /\ pos' = pos - 1
    /\ UNCHANGED <<ringVars, history_nav, history_file, conf_file, stored, configured, bootVars>>

(* The arrows replace the line by an older or a newer one; the newest is   *)
(* followed by the empty line.                                             *)
ArrowUp ==
    /\ history_nav < history_count - 1
    /\ history_nav' = history_nav + 1
    /\ line' = history_get(history_nav + 1) /\ pos' = Len(line')
    /\ UNCHANGED <<ringVars, history_file, conf_file, stored, configured, bootVars>>

ArrowDown ==
    /\ history_nav >= 0
    /\ history_nav' = history_nav - 1
    /\ line' = IF history_nav = 0 THEN <<>> ELSE history_get(history_nav - 1)
    /\ pos' = Len(line')
    /\ UNCHANGED <<ringVars, history_file, conf_file, stored, configured, bootVars>>

(* The line is dropped; the programs that are killed are not part of this  *)
(* module.                                                                 *)
CtrlC == NewLine /\ UNCHANGED <<ringVars, history_file, conf_file, stored, configured, bootVars>>

LastLines(lines) ==
    SubSeq(lines, IF Len(lines) > SHELL_HISTORY_SIZE THEN 2 ELSE 1, Len(lines))

IsRepeated == history_count > 0 /\ history_get(0) = line

history_add ==
    IF IsRepeated THEN UNCHANGED ringVars
    ELSE /\ history' = [history EXCEPT ![history_index] = line]
         /\ history_index' = (history_index + 1) % SHELL_HISTORY_SIZE
         /\ history_count' = IF history_count < SHELL_HISTORY_SIZE THEN history_count + 1
                             ELSE history_count
         /\ recorded' = LastLines(Append(recorded, line))

(* Mutation: the text always begins with the first slot.                   *)
StartIndexZero(count, index) == 0

(* The index the saved text begins with, and the text.                     *)
StartIndex(count, index) == IF count >= SHELL_HISTORY_SIZE THEN index ELSE 0

(* The file is written, unless it does not exist and cannot be created.    *)
shell_save_history ==
    \/ /\ history_file' = Overwrite(history_file,
                             HistoryText(history', history_count', StartIndex(history_count', history_index')))
       /\ stored' = recorded'
    \/ history_file = NoFile /\ UNCHANGED <<history_file, stored>>

(* shell_run: the entered line is recorded and saved, then executed.       *)
Enter ==
    /\ IF line = <<>> THEN UNCHANGED <<ringVars, history_file, stored>>
       ELSE history_add /\ shell_save_history
    /\ NewLine
    /\ UNCHANGED <<conf_file, configured, bootVars>>

(* cmd_netconf, a command line of its own that is not recorded here; a     *)
(* file that cannot be created leaves everything as it was.                *)
cmd_netconf(config) ==
    /\ line = <<>>
    /\ conf_file' = Overwrite(conf_file, ConfigText(config))
    /\ configured' = config
    /\ UNCHANGED <<editVars, ringVars, history_nav, history_file, stored, bootVars>>

(* A restart: the boot configures the network, and shell_init reloads the  *)
(* history into an empty ring.                                             *)
shell_init ==
    LET loaded == config_load_history IN
        /\ applied' = config_apply_network(config_load_network)
        /\ history' = [i \in 0 .. SHELL_HISTORY_SIZE - 1 |->
                          IF i < Len(loaded) THEN loaded[i + 1] ELSE <<>>]
        /\ history_count' = Len(loaded)
        /\ history_index' = Len(loaded) % SHELL_HISTORY_SIZE
        /\ recorded' = stored /\ NewLine
        /\ UNCHANGED <<history_file, conf_file, network_file, stored, configured>>

ShellNext ==
    \/ \E ch \in Letter : TypeLetter(ch)
    \/ Backspace \/ ArrowUp \/ ArrowDown \/ CtrlC \/ Enter
    \/ \E config \in Configs : cmd_netconf(config)
    \/ shell_init

-----------------------------------------------------------------------------
(* The circular history gives back the last lines that were entered, the   *)
(* newest first, and a restart gives back those of the last save: although *)
(* the file is never truncated, and keeps the end of a longer history.     *)
HistoryExact ==
    /\ history_count = Len(recorded)
    /\ \A offset \in 0 .. history_count - 1 :
          history_get(offset) = recorded[Len(recorded) - offset]

(* What netconf reads back from its file is the mode that was saved there  *)
(* last, and in static mode the addresses.                                 *)
ConfigReadsBack ==
    LET config == config_load_network_iface IN
        /\ config.use_dhcp = configured.use_dhcp
        /\ ~configured.use_dhcp => config = configured

(* What is saved under /config reads back as it was saved: the history in  *)
(* its ring and after a restart, and the configuration of the interface.   *)
SavedReadsBack == HistoryExact /\ ConfigReadsBack

(* cmd_netconf announces "Reboot to apply changes": after a restart the    *)
(* interface has the configuration that was saved.                         *)
AppliedAfterRestart ==
    [][shell_init => applied' = configured]_shellVars
=============================================================================
