----------------------------- MODULE EnvDocument -----------------------------
(***************************************************************************)
(* env.json as its readers understand it: config.go, redirects.go and the  *)
(* list functions of cmd/build and dnshijack.  They do not agree on what   *)
(* a document is: the build tool rewrites any JSON object, takes the keys  *)
(* of the sources from it with one struct, and the program reads all keys  *)
(* with another.                                                           *)
(*                                                                         *)
(* An entry of a list of addresses is the IP address it names, "" if it    *)
(* names none, and how it is written.  A line of a block list is a         *)
(* sequence of fields, each an IP address, a host or the start of a        *)
(* comment.                                                                *)
(***************************************************************************)
EXTENDS Naturals, Sequences, FiniteSets, SequencesExt

\* What every json.Unmarshal rejects: a truncated file, or a mix of two documents.
NoDocument == <<>>

\* Values of a wrong type: a sourceList that is a string, which config.go takes for
\* its lines and redirects.go refuses; any other value of the keys of the sources
\* that both refuse; one of DNS, dns, upstreamDNS or blockAddress that is no list of
\* strings; or of torEntryIPs, of which the strings remain (readStringList).
Misfit == {"sourceList", "sources", "settings", "torEntryIPs"}

Entry == [ip : STRING, form : {"plain", "port", "brackets", "url"}]
Document ==
    [sourceList : Seq(STRING), sources : Seq(STRING), files : Seq(STRING),
     DNS : Seq(Entry), dns : Seq(Entry), upstreamDNS : Seq(Entry),
     blockAddress : Seq(STRING), torEntryIPs : Seq(Entry), misfits : SUBSET Misfit]

Field == [kind : {"ip", "host", "comment"}, text : STRING]

\* What a user saved, as against the list the build tool maintains.
Settings(doc) ==
    <<[key \in DOMAIN doc \ {"torEntryIPs", "misfits"} |-> doc[key]],
      doc.misfits \ {"torEntryIPs"}>>

-----------------------------------------------------------------------------
(* Lists.                                                                  *)

\* The members at some positions, in order.
At(list, positions) ==
    [n \in 1..Cardinality(positions) |->
        list[CHOOSE i \in positions : Cardinality({j \in positions : j <= i}) = n]]

\* The first occurrences of what is not blank, in order.
Distinct(list, blank) ==
    At(list, {i \in DOMAIN list :
                list[i] # blank /\ \A j \in 1..(i - 1) : list[j] # list[i]})
\* At most limit of them, 0 meaning all.
FirstOf(list, limit) ==
    IF limit > 0 /\ Len(list) > limit THEN SubSeq(list, 1, limit) ELSE list

\* The addresses of the entries that name one.
IPs(list) == Distinct([i \in DOMAIN list |-> list[i].ip], "")
Plain(ip) == [ip |-> ip, form |-> "plain"]

\* Mutant of NormalizeIPList: the limit is applied before duplicates are dropped.
NormalizeIPListLate(list, limit) ==
    LET ips == IPs(FirstOf(list, limit)) IN [i \in DOMAIN ips |-> Plain(ips[i])]

\* The addresses of a list without ports and brackets, up to the limit.
NormalizeIPList(list, limit) ==
    LET ips == FirstOf(IPs(list), limit) IN [i \in DOMAIN ips |-> Plain(ips[i])]

-----------------------------------------------------------------------------
(* DNS servers.                                                            *)

\* A port is added unless there is one, or what SplitHostPort takes for one.
NormalizeHostPort(e) ==
    [e EXCEPT !.form = IF @ \in {"plain", "brackets"} THEN "port" ELSE @]

\* Mutant of ChosenDNS: the legacy key wins.
ChosenDNSLegacy(doc) ==
    IF doc.upstreamDNS # <<>> THEN doc.upstreamDNS
    ELSE IF doc.DNS # <<>> THEN doc.DNS ELSE doc.dns

\* DNS, else dns, else upstreamDNS.
ChosenDNS(doc) ==
    IF doc.DNS # <<>> THEN doc.DNS
    ELSE IF doc.dns # <<>> THEN doc.dns ELSE doc.upstreamDNS

\* What LoadFromBytes refuses, it refuses as a whole.
Loads(text) == text # NoDocument /\ text.misfits \subseteq {"sourceList"}

LoadFromBytes(doc) ==
    LET chosen == ChosenDNS(doc)
    IN [doc EXCEPT !.DNS = [i \in DOMAIN chosen |-> NormalizeHostPort(chosen[i])]]

\* What runApplication has the DNS guard enforce: the defaults if the document
\* cannot be loaded or names nothing, else what names an address.
DefaultDNS == <<"1.1.1.1", "1.0.0.1">>
EnforcedServers(text) ==
    IF ~Loads(text) THEN DefaultDNS
    ELSE LET servers == LoadFromBytes(text).DNS
         IN IF servers = <<>> THEN DefaultDNS ELSE IPs(servers)

-----------------------------------------------------------------------------
(* Block lists.                                                            *)

\* Whether there is an error, and the sources of the three keys, without blank ones.
SourcesLoad(text) ==
    text # NoDocument /\ text.misfits \intersect {"sourceList", "sources"} = {}
LoadSources(doc) == Distinct(doc.sourceList \o doc.sources \o doc.files, "")

\* The fields up to a comment.
CollectHosts(fields) ==
    LET comment == SelectInSeq(fields, LAMBDA f : f.kind = "comment")
    IN IF comment = 0 THEN fields ELSE SubSeq(fields, 1, comment - 1)

\* A redirect to the address a line begins with, or to 0.0.0.0; <<>> if the line
\* holds no host.
Unspecified == [kind |-> "ip", text |-> "0.0.0.0"]
NormalizeLine(fields) ==
    LET given == fields # <<>> /\ fields[1].kind = "ip"
        hosts == CollectHosts(IF given THEN Tail(fields) ELSE fields)
    IN IF hosts = <<>> THEN <<>>
       ELSE <<IF given THEN fields[1] ELSE Unspecified>> \o hosts

ParseLines(raw) == Distinct([i \in DOMAIN raw |-> NormalizeLine(raw[i])], <<>>)
=============================================================================
