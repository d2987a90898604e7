----------------------------- MODULE Algorithms -----------------------------
(***************************************************************************)
(* The pure algorithms of the program and what is claimed of each: of what *)
(* it makes of an input, compared with a reference.                        *)
(***************************************************************************)
EXTENDS Profiles, Checksum, Parsers, CommandLine

\* An input of one of the algorithms; `kind` says of which.
VARIABLE input

-----------------------------------------------------------------------------
\* A profile name matches the name of a network as it is meant to.
PatternsMatch == input.kind = "match" => MatchesAsMeant(input.needle, input.haystack)

\* The receiver accepts the IP and TCP checksums of every packet form_packet builds.
ChecksumsVerify == input.kind = "packet" => ReceiverAccepts(input.src, input.dst, input.bytes)

\* The parsers that follow lengths from outside: get_tls_sni finds the server name of a
\* hello, and in what was read of one nothing else; getDnsDomainName decodes what is
\* written, links included, and comes to an end; find_ssid finds the network's name, and
\* only a list of elements cut short misleads it.
FieldsFound ==
    /\ input.kind = "hello"    => SniLocated(input.hello, input.read)
    /\ input.kind = "name"     => NameDecoded(input.message, input.pos)
    /\ input.kind = "elements" => SsidLocated(input.elements, input.read)

\* What the user wrote is what the program uses: parse_cmdline keeps the options of
\* profiles apart, and the settings of all of them together; of two lines for one name
\* load_custom_ips takes the first, and load_whitelist lists a line under its first word,
\* whatever spaces it has.
SettingsAsWritten ==
    /\ input.kind = "args"  => ParsedAsWritten(input.args)
    /\ input.kind = "lines" =>
          FirstLineDecides(input.lines) /\ WhitelistAsWritten(input.lines, "a")
=============================================================================
