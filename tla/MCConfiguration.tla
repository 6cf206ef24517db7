--------------------------- MODULE MCConfiguration ---------------------------
(***************************************************************************)
(* An instance of the configuration: documents with duplicates in every    *)
(* list, with legacy keys, with values of a wrong type, and with sources   *)
(* that hold nothing or more than is read.                                 *)
(***************************************************************************)
EXTENDS Configuration, TLC

Address(ip, form) == [ip |-> ip, form |-> form]
A == Address("192.0.2.1", "plain")
B == Address("192.0.2.2", "plain")
C == Address("192.0.2.3", "plain")
APort == Address("192.0.2.1", "port")
BBrackets == Address("192.0.2.2", "brackets")
Url == Address("", "url")
None == Address("", "plain")

Doc(sourceList, sources, files, dns, lower, upstream, tor, misfits) ==
    [sourceList |-> sourceList, sources |-> sources, files |-> files,
     DNS |-> dns, dns |-> lower, upstreamDNS |-> upstream,
     blockAddress |-> <<"192.0.2.9">>, torEntryIPs |-> tor, misfits |-> misfits]
Lists == Doc(<<>>, <<"hosts", "ads">>, <<"ads", "">>, <<A, APort, B>>, <<>>, <<C>>,
             <<A, None, APort, BBrackets, C>>, {})
Legacy == Doc(<<"long">>, <<>>, <<>>, <<>>, <<>>, <<Url>>, <<B>>, {"torEntryIPs"})
Bare == Doc(<<>>, <<>>, <<>>, <<>>, <<>>, <<>>, <<>>, {})
\* DNS is a string, or the like.
Mistyped == Doc(<<>>, <<>>, <<"ads">>, <<A>>, <<>>, <<>>, <<>>, {"settings"})
Comments == Doc(<<>>, <<"comments">>, <<>>, <<>>, <<C, Url>>, <<Url>>, <<B>>, {})
Text == Doc(<<"ads">>, <<>>, <<>>, <<>>, <<C, Url>>, <<Url>>, <<>>, {"sourceList"})
SomeDocuments == {Lists, Legacy, Bare, Mistyped, Comments, Text}

Word(kind, text) == [kind |-> kind, text |-> text]
Host(name) == Word("host", name)
Mark == Word("comment", "#")
Local(lines) == [remote |-> FALSE, lines |-> lines]
Remote(lines) == [remote |-> TRUE, lines |-> lines]
Sites ==
    "hosts" :> Local(<<<<Word("ip", "127.0.0.1"), Host("one"), Mark, Host("word")>>,
                       <<Host("two")>>, <<Mark>>, <<Host("last")>>>>)
    @@ "ads" :> Remote(<<<<Host("two")>>, <<Word("ip", "0.0.0.0"), Host("two")>>, <<>>,
                         <<Host("three"), Host("four")>>>>)
    @@ "long" :> Remote(<<<<Host("two")>>, <<Word("ip", "127.0.0.1"), Host("one")>>,
                          <<Host("five"), Host("six"), Host("seven"), Host("eight")>>,
                          <<Host("nine")>>>>)
    @@ "comments" :> Remote(<<<<Mark, Host("one")>>, <<Word("ip", "127.0.0.1")>>>>)

Flag(refresh, limit, unprotected, targets) ==
    [refresh |-> refresh, limit |-> limit, unprotected |-> unprotected,
     targets |-> targets]
SomeFlags == {Flag(FALSE, 2, FALSE, <<"windows", "linux">>),
              Flag(TRUE, 0, TRUE, <<"linux">>), Flag(FALSE, 0, FALSE, <<>>)}
SomeAnswers == {<<>>, <<APort, A, C>>}

Events(saves, inplaces, others, tools, faults, watches, cancels) ==
    [save |-> saves, inplace |-> inplaces, other |-> others, run |-> tools,
     fault |-> faults, watch |-> watches, cancel |-> cancels]
\* Two builds with a fault; a build with two saves, or with one and a fault; a
\* build, or saves and other files, while a loader watches.
SomeEvents == {Events(0, 0, 0, 2, 1, 0, 0), Events(1, 1, 0, 1, 0, 0, 0),
               Events(0, 1, 0, 1, 1, 0, 0), Events(1, 0, 0, 1, 0, 1, 0),
               Events(1, 1, 2, 0, 0, 1, 1), Events(2, 0, 1, 0, 1, 1, 0)}

Symmetry == Permutations(Tool)
=============================================================================
