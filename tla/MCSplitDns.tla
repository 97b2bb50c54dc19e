---------------------------- MODULE MCSplitDns ------------------------------
(* SplitDns with a resolver that is an address and one that is a name, and  *)
(* tables in which keys collide and patterns overlap.                        *)
EXTENDS SplitDns

MCSplitList == {<<"*", ".", "corp", ".", "io">>, <<".", "lab", "*", ".", "io", ".">>, <<"io">>}
MCExact4    == {[key |-> <<"git", ".", "corp", ".", "io">>, values |-> {"fd00::1"}],
                [key |-> <<"*", ".", "git", ".", "corp", ".", "io">>, values |-> {"a text"}]}
MCExact6    == {[key |-> <<"six", ".", "io">>, values |-> {"fd00::1"}],
                [key |-> <<"six", ".", "io", ".">>, values |-> {"a text"}]}
MCWildcard  == {[key |-> <<"*", ".", "web", ".", "io">>, values |-> {"10.1.1.1"}],
                [key |-> <<"x", ".", "web", ".", "io">>, values |-> {"a text"}]}
MCSuffix    == {[key |-> <<"web", ".", "io">>, values |-> {"10.2.2.2"}]}
MCV4        == {"10.1.1.1", "10.2.2.2"}
MCV6        == {"fd00::1"}

\* A listed name; a malformed payload is the question that is not listed.
MCQuestions == {[type |-> "A", name |-> <<"git", ".", "corp", ".", "io", ".">>]}

\* The ends of a listed domain at and beside a dot, and stars in a name.
MCNames ==
    {<<"corp", ".", "io", ".">>, <<"a", ".", "corp", ".", "io">>,
     <<"my", "corp", ".", "io", ".">>, <<"a", ".", "my", "corp", ".", "io">>,
     <<"corp", ".", "io", ".", "a">>, <<"corp">>, <<"io", ".">>, <<".">>,
     <<"*", ".", "corp", ".", "io">>, <<"lab", ".", "io">>,
     <<"lab", "7", ".", "io">>, <<"a", ".", "lab", ".", "b", ".", "io">>,
     <<"my", "lab", ".", "io">>}

\* The cases of the unit tests of synthesis.rs, on these tables.
ASSUME TableExamples ==
    /\ normalize_domain(<<"*", ".", "example", ".", "com", ".">>) = <<"example", ".", "com">>
    /\ \A tables \in Tables :
        /\ synthesize(tables, "A", <<"host", ".", "web", ".", "io", ".">>) = {{"10.1.1.1"}}
        /\ synthesize(tables, "AAAA", <<"host", ".", "web", ".", "io", ".">>) = {{}}
        /\ synthesize(tables, "AAAA", <<"six", ".", "io", ".">>) \in {{{"fd00::1"}}, {{}}}
        /\ synthesize(tables, "A", <<"my", "web", ".", "io", ".">>) = {}

MCVpnSpecs    == {[host |-> "10.0.0.53", port |-> 53], [host |-> "dns.corp", port |-> 5353]}
MCHostAddrs   == [h \in {"10.0.0.53", "dns.corp"} |->
                    IF h = "dns.corp" THEN {"10.0.0.54"} ELSE {h}]
MCTwoSystem   == {"192.168.1.1", "169.254.1.1"}
MCLinkLocal   == {"169.254.1.1"}
MCSplitNets   == {"10.0.0.53", "10.0.0.54"}
MCFullNets    == MCSplitNets \cup MCTwoSystem
=============================================================================
