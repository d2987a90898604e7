---------------------------- MODULE CommandLine ----------------------------
(***************************************************************************)
(* What the user writes: the options of the command line, in groups that   *)
(* each belong to a profile, and the files with exceptions.                *)
(***************************************************************************)
EXTENDS Integers, Sequences

\* A Profile_s and the members of Settings_perst_s that options set, with their defaults.
DefaultProfile ==
    [buffer_size |-> 512, split_position |-> 3, fake_packets_ttl |-> 0, window_size |-> 0,
     window_scale_factor |-> -1, wrong_seq |-> FALSE, min_ttl |-> 0, auto_ttl |-> FALSE,
     auto_ttl_a1 |-> 1, auto_ttl_a2 |-> 4, auto_ttl_max |-> 10, doh_server |-> "dns.google",
     builtin_dns |-> FALSE, builtin_dns_ip |-> "8.8.8.8", builtin_dns_port |-> 53,
     split_at_sni |-> FALSE, desync_attacks |-> FALSE, doh |-> FALSE,
     desync_zero_attack |-> "none", desync_first_attack |-> "none"]

ProxyPort == 8080
DefaultSettings ==
    [server_port |-> ProxyPort, server_address |-> "0.0.0.0", proxy_mode |-> "proxy",
     ca_bundle_path |-> "ca.bundle", whitelist_path |-> "none", custom_ips_path |-> "none",
     pid_file |-> "none", daemon |-> FALSE]

ZeroNames  == {"fake", "rst", "rstack"}
FirstNames == {"disorder", "disorder_fake", "split", "split_fake"}

\* An option is named after the member it sets: --ttl is fake_packets_ttl, --wsize is
\* window_size, --ip is server_address. These members are set together with others:
Part    == [auto_ttl_a1 |-> 1, auto_ttl_a2 |-> 2, auto_ttl_max |-> 3]
Kind    == [desync_zero_attack |-> ZeroNames, desync_first_attack |-> FirstNames]
Grouped == {"auto_ttl", "desync_attacks"} \cup DOMAIN Part \cup DOMAIN Kind

\* What a member holds of the argument, which for a number is the int atoi reads in it:
\* members of 16 bits wrap, and a flag has no argument.
UShort(n) == n % 65536
SShort(n) == LET u == UShort(n) IN IF u > 32767 THEN u - 65536 ELSE u
Converted(member, arg) ==
    CASE member \in {"fake_packets_ttl", "min_ttl", "window_size"} -> UShort(arg)
      [] member = "window_scale_factor" -> SShort(arg)
      [] member \in {"doh", "split_at_sni", "builtin_dns", "wrong_seq", "daemon"} -> TRUE
      [] OTHER -> arg

\* The check that follows. A negative int in an unsigned int is above any of the limits.
Most   == 65535
Ports  == 1..Most
Limits == [server_port |-> Ports, builtin_dns_port |-> Ports, window_size |-> Ports,
           buffer_size |-> 128..Most, split_position |-> 0..Most,
           fake_packets_ttl |-> 1..255, min_ttl |-> 1..255, window_scale_factor |-> 0..14,
           proxy_mode |-> {"proxy", "transparent"}]
Accepted(member, value) == member \in DOMAIN Limits => value \in Limits[member]

Unnamed == ""

\* What parse_cmdline has when it starts; `Profiles` maps names to profiles.
Start == [ret |-> 0, curr |-> Unnamed, profile |-> DefaultProfile,
          Profiles |-> [name \in {} |-> DefaultProfile], Profile |-> DefaultProfile,
          settings |-> DefaultSettings]

add_profile(profiles, name, profile) ==
    [n \in DOMAIN profiles \cup {name} |-> IF n = name THEN profile ELSE profiles[n]]

\* main ends then; what was stored is not used.
Refused(s) == [s EXCEPT !.ret = -1]

\* An option that sets one member of the profile, or of the settings.
SetProfile(s, member, value) ==
    IF Accepted(member, value) THEN [s EXCEPT !.profile[member] = value] ELSE Refused(s)
SetSettings(s, member, value) ==
    IF Accepted(member, value) THEN [s EXCEPT !.settings[member] = value] ELSE Refused(s)

\* One name of a list of attacks; behind one that was refused none is looked at.
Attack(s, name) ==
    IF s.ret # 0 THEN s
    ELSE IF name \in ZeroNames  THEN [s EXCEPT !.profile.desync_zero_attack = name]
    ELSE IF name \in FirstNames THEN [s EXCEPT !.profile.desync_first_attack = name]
    ELSE Refused(s)

Attacks(s, names) ==
    LET a[i \in 0..Len(names)] ==
          IF i = 0 THEN [s EXCEPT !.profile.desync_attacks = TRUE] ELSE Attack(a[i - 1], names[i])
    IN  a[Len(names)]

\* Three numbers, and a least TTL unless one was set before.
AutoTtl(s, numbers) ==
    IF Len(numbers) # 3 THEN Refused(s)
    ELSE [s EXCEPT !.profile.auto_ttl = TRUE,
                   !.profile.auto_ttl_a1 = UShort(numbers[1]),
                   !.profile.auto_ttl_a2 = UShort(numbers[2]),
                   !.profile.auto_ttl_max = UShort(numbers[3]),
                   !.profile.min_ttl = IF @ = 0 THEN 3 ELSE @]

\* Mutant: the options of one profile are carried over to the next.
NextProfile_Keeps(s, name) ==
    [s EXCEPT !.Profiles = IF s.curr # Unnamed THEN add_profile(@, s.curr, s.profile) ELSE @,
              !.curr = name]

\* The profile that was being described is added, a new one begun.
NextProfile(s, name) ==
    [s EXCEPT !.Profiles = IF s.curr # Unnamed THEN add_profile(@, s.curr, s.profile) ELSE @,
              !.curr = name, !.profile = DefaultProfile]

\* An option: --auto runs the auto configuration and ends, --help and what getopt_long_only
\* does not know is refused.
Apply(s, option) ==
    LET opt == option.opt
    IN  CASE opt = "profile"                          -> NextProfile(s, option.arg)
          [] opt = "auto_ttl"                         -> AutoTtl(s, option.arg)
          [] opt = "desync_attacks"                   -> Attacks(s, option.arg)
          [] opt \in DOMAIN DefaultProfile \ Grouped  -> SetProfile(s, opt, Converted(opt, option.arg))
          [] opt \in DOMAIN DefaultSettings           -> SetSettings(s, opt, Converted(opt, option.arg))
          [] opt = "auto"                             -> [s EXCEPT !.ret = -2]
          [] OTHER                                    -> Refused(s)

\* One turn of the loop over the arguments, which the first one refused ends.
Turn(s, option) == IF s.ret # 0 THEN s ELSE Apply(s, option)

\* Behind the loop: the last profile is added too, or is the current one if it has no name.
Finish(s) ==
    IF s.ret # 0 THEN s
    ELSE IF s.curr # Unnamed THEN [s EXCEPT !.Profiles = add_profile(@, s.curr, s.profile)]
    ELSE [s EXCEPT !.Profile = s.profile]

parse_cmdline(args) ==
    LET p[i \in 0..Len(args)] == IF i = 0 THEN Start ELSE Turn(p[i - 1], args[i])
    IN  Finish(p[Len(args)])

-----------------------------------------------------------------------------
(* What the user wrote, to compare with.                                   *)

Greatest(S) == CHOOSE k \in S : \A l \in S : l <= k

\* The last attack of a kind in a list.
Places(list, names) == {l \in DOMAIN list : list[l] \in names}
LastIn(list, names) == list[Greatest(Places(list, names))]

\* Whether an option is about a member, and what it says of it.
Sets(option, member) ==
    CASE member \in DOMAIN Part -> option.opt = "auto_ttl"
      [] member \in DOMAIN Kind -> /\ option.opt = "desync_attacks"
                                   /\ Places(option.arg, Kind[member]) # {}
      [] OTHER -> option.opt = member
Says(option, member) ==
    CASE member \in DOMAIN Part -> UShort(option.arg[Part[member]])
      [] member \in DOMAIN Kind -> LastIn(option.arg, Kind[member])
      [] member \in {"auto_ttl", "desync_attacks"} -> TRUE
      [] OTHER -> Converted(member, option.arg)

\* What the arguments from i to j say last of a member.
LastSaid(args, member, i, j, default) ==
    LET at == {k \in i..j : Sets(args[k], member)}
    IN  IF at = {} THEN default ELSE Says(args[Greatest(at)], member)

\* The profile that the arguments from i to j describe, in whatever order; --auto-ttl
\* stands for a least TTL too.
LeastTtl(args, i, j) ==
    IF \E k \in i..j : args[k].opt = "auto_ttl" THEN 3 ELSE DefaultProfile.min_ttl
Described(args, i, j) ==
    [m \in DOMAIN DefaultProfile |->
       LastSaid(args, m, i, j, IF m = "min_ttl" THEN LeastTtl(args, i, j) ELSE DefaultProfile[m])]

\* The groups of a command line: where they start, and where the one starting at i ends.
Starts(args) == {i \in DOMAIN args : args[i].opt = "profile"}
GroupEnd(args, i) == CHOOSE j \in i..Len(args) :
                        /\ \A k \in (i + 1)..j : k \notin Starts(args)
                        /\ j = Len(args) \/ j + 1 \in Starts(args)
LastStart(args, name) == Greatest({i \in Starts(args) : args[i].arg = name})

\* A command line that parse_cmdline accepts gives every profile named in it the options
\* between its last --profile and the next, whatever their order and whatever was written
\* under other names; the current profile is the one under no name, if that comes last. The
\* settings are those written last, in whatever group.
ParsedAsWritten(args) ==
    LET s       == parse_cmdline(args)
        names   == {args[i].arg : i \in Starts(args)} \ {Unnamed}
        begin   == IF Starts(args) = {} THEN 0 ELSE Greatest(Starts(args))
        unnamed == Starts(args) = {} \/ args[begin].arg = Unnamed
    IN  s.ret = 0 =>
          /\ DOMAIN s.Profiles = names
          /\ \A n \in names : LET i == LastStart(args, n)
                               IN  s.Profiles[n] = Described(args, i, GroupEnd(args, i))
          /\ s.Profile = IF unnamed THEN Described(args, begin + 1, Len(args)) ELSE DefaultProfile
          /\ \A m \in DOMAIN DefaultSettings :
                s.settings[m] = LastSaid(args, m, 1, Len(args), DefaultSettings[m])

-----------------------------------------------------------------------------
(* The whitelist and the custom addresses: lines, each a sequence of words *)
(* and spaces.                                                             *)

Gap == " "
HasSpace(line) == \E i \in DOMAIN line : line[i] = Gap
Space(line)    == CHOOSE i \in DOMAIN line : line[i] = Gap /\ \A j \in 1..(i - 1) : line[j] # Gap
Key(line)      == SubSeq(line, 1, Space(line) - 1)
Value(line)    == SubSeq(line, Space(line) + 1, Len(line))

\* The values of the lines that start with this word.
load_whitelist(lines, word) ==
    {Value(lines[i]) : i \in {j \in DOMAIN lines : HasSpace(lines[j]) /\ Key(lines[j]) = <<word>>}}

\* std::map::insert keeps the entry that is there.
insert(custom_ips, key, value) ==
    [k \in DOMAIN custom_ips \cup {key} |-> IF k \in DOMAIN custom_ips THEN custom_ips[k] ELSE value]

\* A line without a space, or with nothing on one side of it, is skipped.
Usable(line) == HasSpace(line) /\ Key(line) # <<>> /\ Value(line) # <<>>
AddLine(custom_ips, line) ==
    IF Usable(line) THEN insert(custom_ips, Key(line), Value(line)) ELSE custom_ips

load_custom_ips(lines) ==
    LET m[i \in 0..Len(lines)] == IF i = 0 THEN [k \in {} |-> <<>>] ELSE AddLine(m[i - 1], lines[i])
    IN  m[Len(lines)]

\* The whitelist holds what follows the word and one space, on the lines that have both.
WhitelistAsWritten(lines, word) ==
    load_whitelist(lines, word) =
       {SubSeq(lines[i], 3, Len(lines[i])) :
          i \in {j \in DOMAIN lines : Len(lines[j]) > 1 /\ SubSeq(lines[j], 1, 2) = <<word, Gap>>}}

\* The first usable line for a name decides its address, whatever follows it.
FirstLineDecides(lines) ==
    \A key \in DOMAIN load_custom_ips(lines) :
       \E i \in DOMAIN lines :
          /\ lines[i] = key \o <<Gap>> \o load_custom_ips(lines)[key]
          /\ \A j \in 1..(i - 1) :
               HasSpace(lines[j]) /\ Key(lines[j]) = key => Value(lines[j]) = <<>>
=============================================================================
