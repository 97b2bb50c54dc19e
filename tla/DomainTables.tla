---------------------------- MODULE DomainTables ----------------------------
(***************************************************************************)
(* What the client knows about names: DnsConfig of crates/dns/src/         *)
(* config.rs and synthesize of crates/dns/src/synthesis.rs.                *)
(*                                                                         *)
(* A name is a text, cut into pieces: ".", the wildcards "*" and "?", and  *)
(* the stretches of characters between them that nothing tells apart, so   *)
(* that <<"my", "corp", ".", "io">> ends with <<"corp", ".", "io">>; next  *)
(* to a "?" the pieces are single characters.  <<>> is the empty name.     *)
(* Names are in lower case and without quotes.                             *)
(***************************************************************************)
EXTENDS Integers, Sequences, FiniteSets, FiniteSetsExt, SequencesExt

CONSTANTS
    SplitList,   \* vpn_dns_domain_split: a set of names
    Exact4,      \* dynamic_domain and vpn_dynamic_domain_route_split
    Exact6,      \* v6_vpn_dynamic_domain_route_split
    Wildcard,    \* vpn_wildcard_dynamic_domain_route_split
    Suffix,      \* suffix_wildcard_dynamic_domain_route_split; all four are
                 \* sets of [key |-> name, values |-> set of values]
    V4Values,    \* the values that parse as IPv4 addresses
    V6Values     \* ... as IPv6 addresses

ASSUME TableAssumption == V4Values \cap V6Values = {}

TrimStart(name, piece) ==
    LET cut == Max({k \in 0 .. Len(name) : \A i \in 1 .. k : name[i] = piece}) IN
    SubSeq(name, cut + 1, Len(name))

TrimEnd(name, piece) == Reverse(TrimStart(Reverse(name), piece))

\* trim_start_matches("*.").
TrimStars(name) ==
    LET pairs == Max({k \in 0 .. Len(name) \div 2 :
                        \A i \in 1 .. k : name[2 * i - 1] = "*" /\ name[2 * i] = "."})
    IN  SubSeq(name, 2 * pairs + 1, Len(name))

\* Then the leading dots, then the trailing ones.
normalize_domain(name) == TrimEnd(TrimStart(TrimStars(name), "."), ".")

\* A name without a dot is refused.  (So is an address.)
accept_domain(names) == {d \in {normalize_domain(n) : n \in names} : Contains(d, ".")}

\* The wildmatch crate: "*" stands for any stretch of text, dots included, "?"
\* for one character.
WildMatch(pattern, text) ==
    LET matches[i \in 0 .. Len(pattern), j \in 0 .. Len(text)] ==
            CASE i = 0 -> j = 0
              [] i > 0 /\ pattern[i] = "*" ->
                    matches[i - 1, j] \/ (j > 0 /\ matches[i, j - 1])
              [] OTHER -> j > 0 /\ pattern[i] \in {"?", text[j]} /\ matches[i - 1, j - 1]
    IN  matches[Len(pattern), Len(text)]

\* Mutant: the star follows no dot.
split_matchers_NoDot(domain) == {domain, <<"*">> \o domain}

\* The matchers of an accepted domain: itself, and "*.domain".
split_matchers(domain) == {domain, <<"*", ".">> \o domain}

matches_split(name) ==
    \E d \in accept_domain(SplitList) : \E pattern \in split_matchers(d) :
        WildMatch(pattern, normalize_domain(name))

\* The keys of a table, normalised; a key that comes out empty is dropped.
normalized_entries(table) ==
    {e \in {[key |-> normalize_domain(t.key), values |-> t.values] : t \in table} :
        e.key # <<>>}

\* Two keys that come out equal: or_default().extend keeps both their values.
exact_v4 ==
    LET entries == normalized_entries(Exact4) IN
    [d \in {e.key : e \in entries} |-> UNION {e.values : e \in {x \in entries : x.key = d}}]

\* ... collect() into a map keeps those of one of them, and the other tables
\* are lists in the iteration order of a HashMap.
Tables ==
    LET entries6 == normalized_entries(Exact6)
        keys6    == {e.key : e \in entries6}
    IN  [exact_v6    : {f \in [keys6 -> {e.values : e \in entries6}] :
                            \A d \in keys6 : [key |-> d, values |-> f[d]] \in entries6},
         wildcard_v4 : SetToSeqs(normalized_entries(Wildcard)),
         suffix_v4   : SetToSeqs(normalized_entries(Suffix))]

\* The first entry of a list whose key is the name, or is its end behind a dot;
\* a set with no values or one.
Find(list, name) ==
    LET hits == {i \in DOMAIN list : name = list[i].key
                                     \/ IsSuffix(<<".">> \o list[i].key, name)} IN
    IF hits = {} THEN {} ELSE {list[Min(hits)].values}

\* The values for an A query, as a set with no element (not managed) or one.
lookup_v4(tables, name) ==
    LET wildcard == Find(tables.wildcard_v4, name) IN
    CASE name \in DOMAIN exact_v4 -> {exact_v4[name]}
      [] name \notin DOMAIN exact_v4 /\ wildcard # {} -> wildcard
      [] OTHER -> Find(tables.suffix_v4, name)

lookup_v6(tables, name) ==
    IF name \in DOMAIN tables.exact_v6 THEN {tables.exact_v6[name]} ELSE {}

\* The local answers to a question, as a set with no element (ask upstream) or
\* one.  An A question whose values hold no IPv4 address goes upstream; a name
\* that is managed for IPv4 only gets an empty AAAA answer.
synthesize(tables, type, rawName) ==
    LET name == normalize_domain(rawName)
        four == lookup_v4(tables, name)
        six  == lookup_v6(tables, name)
    IN  CASE name = <<>> -> {}
          [] name # <<>> /\ type = "A" -> {v \cap V4Values : v \in four} \ {{}}
          [] name # <<>> /\ type = "AAAA" /\ six # {} -> {v \cap V6Values : v \in six}
          [] name # <<>> /\ type = "AAAA" /\ six = {} ->
                IF four # {} THEN {{}} ELSE {}
          [] OTHER -> {}
=============================================================================
