--------------------------- MODULE MCEgressProxy ---------------------------
(***************************************************************************)
(* EgressProxy for TLC: two host names the DNS forwarder resolves, a third *)
(* it never does, two addresses, and the first segments that reach every   *)
(* branch of get_hostname, the panic of finish included.                   *)
(***************************************************************************)
EXTENDS EgressProxy

MCHostnames == {"a.test", "b.test"}
MCIPs == {"10.0.0.1", "10.0.0.2"}

Hello(record, ext, extensions) ==
    [record |-> record, ext |-> ext, extensions |-> extensions]
Sni(names) == [names |-> names, type |-> "SNI"]
Alpn == [names |-> <<>>, type |-> "Other"]

Truncated   == Hello("Incomplete", "Absent", <<>>)   \* split or over 4096 bytes
Garbage     == Hello("Malformed", "Absent", <<>>)    \* no TLS record
ServerHello == Hello("Handshake", "Absent", <<>>)    \* not a ClientHello
Bare        == Hello("ClientHello", "Absent", <<>>)  \* no extensions at all
BadExt      == Hello("ClientHello", "Malformed", <<>>)
NoSni       == Hello("ClientHello", "Present", <<Alpn>>)
ForA        == Hello("ClientHello", "Present", <<Alpn, Sni(<<"a.test">>)>>)
ForAThenB   == Hello("ClientHello", "Present",
                     <<Sni(<<"a.test", "b.test">>), Sni(<<InvalidUtf8>>)>>)
ForOther    == Hello("ClientHello", "Present", <<Sni(<<"c.test">>)>>)

\* Every branch of get_hostname, with one task at a time.
AllHellos == {Truncated, Garbage, ServerHello, Bare, BadExt, NoSni, ForA,
              ForAThenB, ForOther}
\* The shapes that tell the authorised from the refused.
FewHellos == {NoSni, ForA}
TwoTaskHostnames == {"a.test"}
OneIP == {"10.0.0.1"}

=============================================================================
