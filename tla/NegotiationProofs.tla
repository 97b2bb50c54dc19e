------------------------- MODULE NegotiationProofs --------------------------
(***************************************************************************)
(* Proofs about the negotiation of module Negotiation.                     *)
(***************************************************************************)
EXTENDS Negotiation, TLAPS

-----------------------------------------------------------------------------
(* The inductive invariant                                                 *)

Before1st == {"idle", "setting", "prepare", "list"}
Dots      == UNION {{list[i] : i \in DOMAIN list} : list \in DotLists}
Cut       == Min({Len(found), MAX_DOT_ATTEMPTS})

\* Until the list is there nothing has been chosen or tried.
Fresh ==
    /\ pc \in Before1st => found = <<>> /\ order = <<>>
    /\ pc \in Before1st \cup {"rank"} => /\ at = 1 /\ \A i \in DOMAIN found : tried[i] = 0
                                         /\ call.path # "/vpn/conn"
    /\ pc # "done" => result = "none"

\* The candidates: as many as may be tried, each one once.
Candidates ==
    /\ found \in Seq(Dots)
    /\ order \in Seq(DOMAIN found)
    /\ Len(order) = Cut
    /\ \A j, k \in DOMAIN order : order[j] = order[k] => j = k

\* In the automatic choice a faster dot is an earlier one.
Ranked ==
    pc \in {"try", "conn", "done"} /\ request.location = None =>
        \A k \in DOMAIN order, i \in DOMAIN found :
            rtt[i] < rtt[order[k]] => \E j \in 1 .. k - 1 : order[j] = i

\* The ones before have had all their requests, the ones after none.
Turns ==
    /\ \A k \in DOMAIN order : /\ k < at => tried[order[k]] = MAX_CONFIG_ATTEMPTS_PER_DOT
                               /\ k > at => tried[order[k]] = 0
    /\ pc = "try" /\ at <= Len(order) => tried[Current] < MAX_CONFIG_ATTEMPTS_PER_DOT
    /\ pc = "conn" => at <= Len(order)
    /\ result = "api" => at = Len(order) + 1

\* A token that is set is in the jar.
Token == tokenSet => Get(jar, "vpn-token") # None

IInv ==
    /\ TypeOK /\ Fresh /\ Candidates /\ Ranked /\ Turns
    /\ Token /\ TokenReachesDot

-----------------------------------------------------------------------------
(* Lemmas about the operators                                              *)

\* The constants are numbers.
LEMMA Numbers ==
    /\ MAX_DOT_ATTEMPTS \in Nat \ {0} /\ MAX_CONFIG_ATTEMPTS_PER_DOT \in Nat \ {0}
    /\ MaxRtt \in Nat \ {0} /\ MaxOthers \in Nat
    /\ Unreachable \in 1 .. Pending /\ Pending \in 1 .. Pending
    BY NegotiationAssumption DEF Unreachable, Pending

\* The lesser of two numbers.
LEMMA MinOfTwo ==
    ASSUME NEW a \in Nat, NEW b \in Nat
    PROVE  Min({a, b}) = IF a <= b THEN a ELSE b
<1> DEFINE least == IF a <= b THEN a ELSE b
<1>1. least \in {a, b} /\ \A y \in {a, b} : least <= y
    OBVIOUS
<1>2. \A x \in {a, b} : (\A y \in {a, b} : x <= y) => x = least
    OBVIOUS
<1> QED
    BY <1>1, <1>2 DEF Min

\* Truncated keeps a beginning of the list.
LEMMA TruncatedIsPrefix ==
    ASSUME NEW n \in Nat, NEW S, NEW seq \in [1 .. n -> S]
    PROVE  /\ Truncated(seq) \in Seq(S)
           /\ Len(Truncated(seq)) = Min({n, MAX_DOT_ATTEMPTS})
           /\ Len(Truncated(seq)) \in 0 .. n
           /\ \A k \in 1 .. Len(Truncated(seq)) : Truncated(seq)[k] = seq[k]
<1>1. seq \in Seq(S) /\ Len(seq) = n
    OBVIOUS
<1> DEFINE m == Min({n, MAX_DOT_ATTEMPTS})
<1>2. m \in 0 .. n
    BY MinOfTwo, Numbers
<1>3. Truncated(seq) = SubSeq(seq, 1, m)
    BY <1>1 DEF Truncated
<1> HIDE DEF m
<1>4. SubSeq(seq, 1, m) \in Seq(S) /\ Len(SubSeq(seq, 1, m)) = m
      /\ \A k \in 1 .. m : SubSeq(seq, 1, m)[k] = seq[k]
    BY <1>1, <1>2
<1> QED
    BY <1>2, <1>3, <1>4 DEF m

\* Cookies of other names leave the token where it is.
LEMMA AbsorbKeepsToken ==
    ASSUME Token, NEW answer, Absorb(answer), tokenSet' = tokenSet
    PROVE  Token'
<1>1. PICK updates \in {EmptyJar, [n \in {"csrf-token"} |-> 1]} :
         jar' = IF answer = "none" THEN jar ELSE merge(jar, updates)
    BY DEF Absorb, absorb
<1>2. "vpn-token" \notin DOMAIN updates
    BY DEF EmptyJar
<1>3. Get(merge(jar, updates), "vpn-token") = Get(jar, "vpn-token")
    BY <1>2 DEF Get, merge
<1> QED
    BY <1>1, <1>3 DEF Token

-----------------------------------------------------------------------------
(* Steps                                                                   *)

\* The invariant holds initially.
LEMMA InitIInv == Init => IInv
<1> SUFFICES ASSUME Init PROVE IInv
    OBVIOUS
<1> USE DEF Init
<1>1. <<>> \in Seq(Dots) /\ <<>> \in Seq(DOMAIN <<>>) /\ Len(<<>>) = 0 /\ DOMAIN <<>> = {}
    OBVIOUS
<1>2. Cut = 0
    BY <1>1, Numbers, MinOfTwo DEF Cut
<1>3. Candidates /\ Ranked
    BY <1>1, <1>2 DEF Candidates, Ranked
<1>4. TypeOK
    <2>1. /\ rtt \in [DOMAIN found -> 1 .. Pending]
          /\ tried \in [DOMAIN found -> 0 .. MAX_CONFIG_ATTEMPTS_PER_DOT]
        BY <1>1
    <2>2. at \in 1 .. Len(order) + 1 /\ others \in 0 .. MaxOthers
        BY <1>1, Numbers
    <2> QED
        BY <1>1, <2>1, <2>2 DEF TypeOK
<1>5. Fresh /\ Turns
    BY <1>1 DEF Fresh, Turns, NoCall
<1>6. Token /\ TokenReachesDot
    BY DEF Token, TokenReachesDot
<1> QED
    BY <1>3, <1>4, <1>5, <1>6 DEF IInv

\* A step that leaves the dots alone.
LEMMA DotsStay ==
    ASSUME IInv, UNCHANGED <<request, found, rtt, order, at, tried>>,
           pc' = pc \/ pc \in Before1st \/ pc' = "done",
           pc' = "try" => pc = "try", pc' = "conn" => pc = "conn",
           pc = "rank" => pc' = "rank",
           result' = result \/ result' # "api"
    PROVE  Candidates' /\ Ranked' /\ Turns'
<1>1. Candidates'
    BY DEF IInv, Candidates, Cut
<1>2. Ranked'
    <2>1. CASE pc \in Before1st
        BY <2>1 DEF IInv, Fresh, Ranked
    <2>2. CASE pc \in {"try", "conn", "done"}
        BY <2>2 DEF IInv, Ranked
    <2>3. CASE pc = "rank"
        BY <2>3 DEF Ranked
    <2> QED
        BY <2>1, <2>2, <2>3 DEF IInv, TypeOK, Before1st
<1>3. Turns'
    BY DEF IInv, Turns, Current
<1> QED
    BY <1>1, <1>2, <1>3

\* The types that no step on the dots concerns.
LEMMA PlainTypes ==
    ASSUME IInv
    PROVE  /\ request \in Requests /\ Len(order) \in Nat /\ DOMAIN order = 1 .. Len(order)
           /\ at \in 1 .. Len(order) + 1
           /\ DOMAIN found = 1 .. Len(found) /\ Len(found) \in Nat
           /\ \A k \in DOMAIN order : order[k] \in DOMAIN found
           /\ DOMAIN tried = DOMAIN found /\ DOMAIN rtt = DOMAIN found
           /\ \A i \in DOMAIN found : /\ tried[i] \in 0 .. MAX_CONFIG_ATTEMPTS_PER_DOT
                                      /\ rtt[i] \in 1 .. Pending
<1>1. found \in Seq(Dots) /\ order \in Seq(DOMAIN found)
    BY DEF IInv, Candidates
<1>2. /\ Len(order) \in Nat /\ DOMAIN order = 1 .. Len(order)
      /\ DOMAIN found = 1 .. Len(found) /\ Len(found) \in Nat
      /\ \A k \in DOMAIN order : order[k] \in DOMAIN found
    <2> HIDE DEF Dots
    <2> QED  BY <1>1
<1>3. /\ request \in Requests /\ at \in 1 .. Len(order) + 1
      /\ rtt \in [DOMAIN found -> 1 .. Pending]
      /\ tried \in [DOMAIN found -> 0 .. MAX_CONFIG_ATTEMPTS_PER_DOT]
    BY DEF IInv, TypeOK
<1> QED
    BY <1>2, <1>3

\* The calls to the tenant, before there is a list.
LEMMA TenantKeeps ==
    ASSUME IInv, connect_once \/ GetVpnSetting \/ Prepare \/ ListFails
    PROVE  IInv'
<1> USE DEF session, account, dots
<1>1. /\ pc \in Before1st /\ pc' \in {"setting", "prepare", "list", "done"}
      /\ UNCHANGED <<request, auth, others, found, rtt, order, at, tried, transport, tokenSet>>
      /\ \/ result' = result
         \/ result' \in {"NotAuthenticated", "list"} /\ pc' = "done"
    <2>1. CASE connect_once
        BY <2>1 DEF connect_once, Finish, Before1st
    <2>2. CASE GetVpnSetting
        BY <2>2 DEF GetVpnSetting, Before1st
    <2>3. CASE Prepare
        BY <2>3 DEF Prepare, Before1st
    <2>4. CASE ListFails
        BY <2>4 DEF ListFails, Finish, Before1st
    <2> QED
        BY <2>1, <2>2, <2>3, <2>4
<1>2. call'.path # "/vpn/conn"
    <2>1. \/ call' = NoCall
          \/ SendToTenant(client', "/api/setting") \/ SendToTenant(client, "/api/vpn/list")
        BY DEF connect_once, GetVpnSetting, Prepare, ListFails, Finish
    <2>2. CASE SendToTenant(client', "/api/setting")
        BY <2>2 DEF SendToTenant, Send, prepare
    <2>3. CASE SendToTenant(client, "/api/vpn/list")
        BY <2>3 DEF SendToTenant, Send, prepare
    <2>4. CASE call' = NoCall
        BY <2>4 DEF NoCall
    <2> QED
        BY <2>1, <2>2, <2>3, <2>4
<1>3. domain' \in BOOLEAN
    BY DEF connect_once, GetVpnSetting, Prepare, ListFails, IInv, TypeOK
<1>4. TypeOK'
    BY <1>1, <1>3 DEF IInv, TypeOK
<1>5. Candidates' /\ Ranked' /\ Turns'
    BY <1>1, DotsStay DEF Before1st
<1>6. Fresh'
    BY <1>1, <1>2 DEF IInv, Fresh, Before1st
<1>7. Token'
    <2>1. jar' = jar \/ \E answer \in Answers : Absorb(answer)
        BY DEF connect_once, GetVpnSetting, Prepare, ListFails
    <2> QED
        BY <1>1, <2>1, AbsorbKeepsToken DEF IInv, Token
<1>8. TokenReachesDot'
    BY <1>2 DEF TokenReachesDot
<1> QED
    BY <1>4, <1>5, <1>6, <1>7, <1>8 DEF IInv

\* The list is there: the candidates in its order.
LEMMA ListArrivesKeeps ==
    ASSUME IInv, ListArrives
    PROVE  IInv'
<1> USE DEF account
<1>1. PICK list \in DotLists, token \in {None, 1} :
         /\ jar' = merge(jar, IF token = None THEN EmptyJar ELSE [n \in {"vpn-token"} |-> token])
         /\ tokenSet' = (token # None)
         /\ found' = Suitable(list, request)
    BY DEF ListArrives
<1>2. /\ pc = "list" /\ at = 1 /\ at' = 1 /\ result = "none" /\ call' = NoCall
      /\ tried' = [i \in DOMAIN found' |-> 0]
      /\ rtt' = [i \in DOMAIN found' |->
                    IF BadEndpoint(found'[i]) THEN Unreachable ELSE Pending]
      /\ order' = Truncated([i \in DOMAIN found' |-> i])
      /\ UNCHANGED <<request, auth, others, client, hooks, domain, otp, transport>>
    BY DEF ListArrives, Finish, IInv, Fresh, Before1st
<1>3. \/ found' = <<>> /\ pc' = "done" /\ result' = "no dot"
      \/ found' # <<>> /\ pc' = "rank" /\ result' = result
      \/ /\ found' # <<>> /\ pc' = "try" /\ result' = result
         /\ request.location # None \/ ~(Len(found') > 1)
    BY DEF ListArrives, Finish
<1> DEFINE n == Len(found')
<1>4. found' \in Seq(Dots) /\ n \in Nat /\ DOMAIN found' = 1 .. n
    <2>1. found' \in Seq({list[i] : i \in DOMAIN list})
        BY <1>1, SuitableAssumption DEF IInv, TypeOK
    <2>2. {list[i] : i \in DOMAIN list} \subseteq Dots
        BY DEF Dots
    <2> HIDE DEF Dots
    <2> QED
        BY <2>1, <2>2
<1> HIDE DEF n
<1>5. /\ order' \in Seq(1 .. n) /\ Len(order') = Min({n, MAX_DOT_ATTEMPTS})
      /\ Len(order') \in 0 .. n /\ \A k \in 1 .. Len(order') : order'[k] = k
    <2> DEFINE inPlace == [i \in 1 .. n |-> i]
    <2>1. inPlace \in [1 .. n -> 1 .. n] /\ \A k \in 1 .. n : inPlace[k] = k
        OBVIOUS
    <2>2. order' = Truncated(inPlace)
        BY <1>2, <1>4
    <2> HIDE DEF inPlace
    <2>3. /\ Truncated(inPlace) \in Seq(1 .. n)
          /\ Len(Truncated(inPlace)) = Min({n, MAX_DOT_ATTEMPTS})
          /\ Len(Truncated(inPlace)) \in 0 .. n
          /\ \A k \in 1 .. Len(Truncated(inPlace)) : Truncated(inPlace)[k] = inPlace[k]
        <3>1. n \in Nat /\ inPlace \in [1 .. n -> 1 .. n]
            BY <1>4, <2>1
        <3> QED
            BY <3>1, TruncatedIsPrefix, Zenon
    <2>4. \A k \in 1 .. Len(Truncated(inPlace)) : k \in 1 .. n
        BY <1>4, <2>3
    <2> QED
        BY <2>1, <2>2, <2>3, <2>4
<1>6. DOMAIN order' = 1 .. Len(order') /\ Len(order') \in Nat
    BY <1>5
<1>7. Candidates'
    BY <1>4, <1>5, <1>6 DEF Candidates, Cut, n
<1>8. Ranked'
    <2> SUFFICES ASSUME pc' \in {"try", "conn", "done"}, request'.location = None,
                        NEW k \in DOMAIN order', NEW i \in DOMAIN found',
                        rtt'[i] < rtt'[order'[k]]
                 PROVE  FALSE
        BY DEF Ranked
    <2>0. found' = <<>> => n = 0
        BY DEF n
    <2>1. found' = <<>> \/ ~(n > 1)
        BY <1>2, <1>3 DEF n
    <2>2. n <= 1
        BY <1>4, <2>0, <2>1
    <2>3. i = 1 /\ order'[k] = 1
        BY <1>4, <1>5, <1>6, <2>2
    <2>4. rtt'[1] \in Nat
        BY <1>2, <2>3, Numbers
    <2> QED
        BY <2>3, <2>4
<1>9. Turns'
    <2>1. \A k \in DOMAIN order' : order'[k] \in DOMAIN found' /\ tried'[order'[k]] = 0 /\ ~(k < 1)
        BY <1>2, <1>4, <1>5, <1>6
    <2>2. result' # "api" /\ pc' # "conn"
        BY <1>2, <1>3
    <2>3. at' <= Len(order') => at' \in DOMAIN order'
        BY <1>2, <1>6
    <2> QED
        BY <1>2, <2>1, <2>2, <2>3, Numbers DEF Turns, Current
<1>10. TypeOK'
    <2>1. /\ rtt' \in [DOMAIN found' -> 1 .. Pending]
          /\ tried' \in [DOMAIN found' -> 0 .. MAX_CONFIG_ATTEMPTS_PER_DOT]
        BY <1>2, Numbers
    <2>2. at' \in 1 .. Len(order') + 1
        BY <1>2, <1>6
    <2>4. \A k \in DOMAIN order' : order'[k] \in DOMAIN found'
        BY <1>4, <1>5, <1>6
    <2>3. pc' \in {"done", "rank", "try"} /\ result' \in {"none", "no dot"} /\ tokenSet' \in BOOLEAN
        BY <1>1, <1>2, <1>3
    <2> QED
        BY <1>2, <2>1, <2>2, <2>3, <2>4 DEF IInv, TypeOK
<1>11. Fresh'
    BY <1>2, <1>3 DEF Fresh, Before1st, NoCall
<1>12. Token'
    <2>1. ASSUME token # None
          PROVE  Get(jar', "vpn-token") = token
        <3>1. jar' = merge(jar, [name \in {"vpn-token"} |-> token])
            BY <1>1, <2>1
        <3> QED
            BY <3>1 DEF Get, merge
    <2> QED
        BY <1>1, <2>1 DEF Token
<1>13. TokenReachesDot'
    BY <1>2 DEF TokenReachesDot, NoCall
<1> QED
    BY <1>7, <1>8, <1>9, <1>10, <1>11, <1>12, <1>13 DEF IInv

\* A probe is in, or has timed out.
LEMMA ProbeKeeps ==
    ASSUME IInv, NEW i \in DOMAIN found, ProbeAnswers(i) \/ ProbeTimesOut(i)
    PROVE  IInv'
<1> USE DEF account
<1>1. PICK time \in 1 .. Pending : Probe(i, time)
    BY Numbers DEF ProbeAnswers, ProbeTimesOut, Pending, Unreachable
<1>2. /\ pc = "rank" /\ rtt' = [rtt EXCEPT ![i] = time]
      /\ UNCHANGED <<pc, request, auth, others, domain, found, order, at, tried, call, result,
                     transport, tokenSet>>
    BY <1>1 DEF Probe
<1>3. TypeOK'
    <2>1. rtt' \in [DOMAIN found' -> 1 .. Pending]
        BY <1>2 DEF IInv, TypeOK
    <2> QED
        BY <1>2, <2>1 DEF IInv, TypeOK
<1>4. Fresh' /\ Candidates' /\ Ranked' /\ Turns'
    BY <1>2 DEF IInv, Fresh, Candidates, Cut, Ranked, Turns, Current
<1>5. Token'
    <2>1. jar' = jar \/ \E answer \in {"data", "http"} : Absorb(answer)
        BY DEF ProbeAnswers, ProbeTimesOut
    <2> QED
        BY <1>2, <2>1, AbsorbKeepsToken DEF IInv, Token
<1>6. TokenReachesDot'
    BY <1>2 DEF IInv, TokenReachesDot
<1> QED
    BY <1>3, <1>4, <1>5, <1>6 DEF IInv

\* The dots are sorted and cut: each is there at most once, and none without
\* those that are faster.
LEMMA RankKeeps ==
    ASSUME IInv, rank_dots_by_latency
    PROVE  IInv'
<1> USE DEF session, account
<1>1. PICK sorted \in Bijection(DOMAIN found, DOMAIN found) :
         /\ \A j, k \in DOMAIN found : j < k => Before(sorted[j], sorted[k])
         /\ order' = Truncated(sorted)
    BY DEF rank_dots_by_latency
<1>2. /\ pc = "rank" /\ pc' = "try"
      /\ UNCHANGED <<request, jar, auth, others, domain, found, rtt, at, tried, call, result,
                     transport, tokenSet>>
    BY DEF rank_dots_by_latency
<1> DEFINE n == Len(found)
<1>3. n \in Nat /\ DOMAIN found = 1 .. n /\ \A i \in 1 .. n : rtt[i] \in Nat
    BY PlainTypes, Numbers
<1>4. /\ sorted \in [1 .. n -> 1 .. n] /\ \A i \in 1 .. n : \E j \in 1 .. n : sorted[j] = i
    BY <1>3 DEF Bijection, Injection, Surjection
<1> HIDE DEF n
<1>5. /\ order' \in Seq(1 .. n) /\ Len(order') = Min({n, MAX_DOT_ATTEMPTS})
      /\ Len(order') \in 0 .. n
      /\ \A k \in 1 .. Len(order') : order'[k] = sorted[k]
    <2>0. n \in Nat /\ sorted \in [1 .. n -> 1 .. n]
        BY <1>3, <1>4
    <2>1. /\ Truncated(sorted) \in Seq(1 .. n)
          /\ Len(Truncated(sorted)) = Min({n, MAX_DOT_ATTEMPTS})
          /\ Len(Truncated(sorted)) \in 0 .. n
          /\ \A k \in 1 .. Len(Truncated(sorted)) : Truncated(sorted)[k] = sorted[k]
        BY <2>0, TruncatedIsPrefix
    <2> QED
        BY <1>1, <2>1
<1>6. /\ DOMAIN order' = 1 .. Len(order') /\ Len(order') \in Nat
      /\ \A k \in DOMAIN order' : k \in 1 .. n /\ order'[k] = sorted[k] /\ order'[k] \in 1 .. n
    <2>1. DOMAIN order' = 1 .. Len(order') /\ Len(order') \in Nat
        BY <1>5
    <2>2. \A k \in 1 .. Len(order') : k \in 1 .. n
        BY <1>3, <1>5
    <2> QED
        BY <1>4, <1>5, <2>1, <2>2
<1>7. ASSUME NEW j \in 1 .. n, NEW k \in 1 .. n, j < k
      PROVE  sorted[j] # sorted[k] /\ ~(rtt[sorted[k]] < rtt[sorted[j]])
    <2>1. sorted[j] \in 1 .. n /\ sorted[k] \in 1 .. n /\ Before(sorted[j], sorted[k])
        BY <1>1, <1>3, <1>4, <1>7
    <2>2. rtt[sorted[j]] \in Nat /\ rtt[sorted[k]] \in Nat /\ sorted[j] \in Nat /\ sorted[k] \in Nat
        BY <1>3, <2>1
    <2> QED
        BY <2>1, <2>2 DEF Before, cmp_latency
<1>8. ASSUME NEW j \in DOMAIN order', NEW k \in DOMAIN order', order'[j] = order'[k]
      PROVE  j = k
    <2>1. j \in 1 .. n /\ k \in 1 .. n /\ sorted[j] = sorted[k]
        BY <1>6, <1>8
    <2>2. ~(j < k) /\ ~(k < j)
        BY <1>7, <2>1
    <2> QED
        BY <1>3, <2>1, <2>2
<1>9. Candidates'
    BY <1>2, <1>3, <1>5, <1>6, <1>8 DEF IInv, Candidates, Cut, n
<1>10. Ranked'
    <2> SUFFICES ASSUME NEW k \in DOMAIN order', NEW i \in DOMAIN found',
                        rtt'[i] < rtt'[order'[k]]
                 PROVE  \E j \in 1 .. k - 1 : order'[j] = i
        BY DEF Ranked
    <2>1. PICK j \in 1 .. n : sorted[j] = i
        BY <1>2, <1>3, <1>4
    <2>2. k \in 1 .. n /\ rtt[sorted[j]] < rtt[sorted[k]]
        BY <1>2, <1>6, <2>1
    <2>3. sorted[j] \in 1 .. n /\ sorted[k] \in 1 .. n
        BY <1>4, <2>2
    <2>4. j # k
        BY <1>3, <2>2, <2>3
    <2>5. ~(k < j)
        BY <1>7, <2>2
    <2>6. j \in 1 .. k - 1 /\ j \in DOMAIN order'
        BY <1>3, <1>6, <2>2, <2>4, <2>5
    <2>7. order'[j] = i
        BY <1>6, <2>1, <2>6
    <2> QED
        BY <2>6, <2>7
<1>11. at = 1 /\ \A i \in 1 .. n : tried[i] = 0
    BY <1>2, <1>3 DEF IInv, Fresh
<1>12. Turns'
    <2>1. \A k \in DOMAIN order' : tried'[order'[k]] = 0 /\ ~(k < 1)
        BY <1>2, <1>6, <1>11
    <2>2. at' <= Len(order') => at' \in DOMAIN order'
        BY <1>2, <1>6, <1>11
    <2>3. result' # "api"
        BY <1>2 DEF IInv, Fresh
    <2> QED
        BY <1>2, <1>11, <2>1, <2>2, <2>3, Numbers DEF Turns, Current
<1>13. TypeOK'
    <2>1. at' \in 1 .. Len(order') + 1
        BY <1>2, <1>6, <1>11
    <2>2. \A k \in DOMAIN order' : order'[k] \in DOMAIN found'
        BY <1>2, <1>3, <1>6
    <2> QED
        BY <1>2, <2>1, <2>2 DEF IInv, TypeOK
<1>14. Fresh' /\ Token' /\ TokenReachesDot'
    BY <1>2 DEF IInv, Fresh, Before1st, Token, TokenReachesDot
<1> QED
    BY <1>9, <1>10, <1>12, <1>13, <1>14 DEF IInv

\* A request to the dot whose turn it is, with the cookies of the jar.
LEMMA TryDotKeeps ==
    ASSUME IInv, TryDot
    PROVE  IInv'
<1> USE DEF session, account
<1>1. /\ pc = "try" /\ at <= Len(order)
      /\ UNCHANGED <<request, jar, auth, others, domain, found, rtt, order, at, transport, tokenSet>>
    BY DEF TryDot
<1>2. at \in DOMAIN order /\ Current \in DOMAIN found /\ tried[Current] < MAX_CONFIG_ATTEMPTS_PER_DOT
    BY <1>1, PlainTypes DEF Current, IInv, Turns
<1>3. CASE Finish("endpoint") /\ UNCHANGED tried
    <2>1. pc' = "done" /\ result' = "endpoint" /\ call' = NoCall /\ tried' = tried
        BY <1>3 DEF Finish
    <2>2. Candidates' /\ Ranked' /\ Turns'
        BY <1>1, <2>1, DotsStay
    <2>3. TypeOK' /\ Fresh' /\ Token' /\ TokenReachesDot'
        BY <1>1, <2>1 DEF IInv, TypeOK, Fresh, Before1st, Token, TokenReachesDot, NoCall
    <2> QED
        BY <2>2, <2>3 DEF IInv
<1>4. ASSUME NEW body, SendToDot("/vpn/conn", body), pc' = "conn", result' = result,
             tried' = [tried EXCEPT ![Current] = @ + 1]
      PROVE  IInv'
    <2>1. call'.path = "/vpn/conn" /\ call'.headers.jwt = Get(jar, "vpn-token")
        BY <1>4 DEF SendToDot, Send, prepare, base_headers
    <2>2. Token' /\ TokenReachesDot'
        BY <1>1, <2>1 DEF IInv, Token, TokenReachesDot
    <2>3. /\ DOMAIN tried' = DOMAIN tried /\ tried'[Current] = tried[Current] + 1
          /\ \A i \in DOMAIN found : i # Current => tried'[i] = tried[i]
        BY <1>2, <1>4, PlainTypes
    <2>4. tried' \in [DOMAIN found' -> 0 .. MAX_CONFIG_ATTEMPTS_PER_DOT]
        <3>1. tried[Current] + 1 \in 0 .. MAX_CONFIG_ATTEMPTS_PER_DOT
            BY <1>2, PlainTypes, Numbers
        <3> QED
            BY <1>1, <1>2, <1>4, <3>1 DEF IInv, TypeOK
    <2>5. TypeOK' /\ Fresh'
        BY <1>1, <1>4, <2>4 DEF IInv, TypeOK, Fresh, Before1st
    <2>6. Candidates' /\ Ranked'
        BY <1>1, <1>4 DEF IInv, Candidates, Cut, Ranked
    <2>7. \A k \in DOMAIN order : k # at => tried'[order[k]] = tried[order[k]]
        BY <1>2, <2>3, PlainTypes DEF IInv, Candidates, Current
    <2>8. \A k \in DOMAIN order : k < at \/ k > at => k # at
        BY PlainTypes
    <2>9. Turns'
        BY <1>1, <1>4, <2>7, <2>8 DEF IInv, Turns
    <2> QED
        BY <2>2, <2>5, <2>6, <2>9 DEF IInv
<1> QED
    BY <1>3, <1>4 DEF TryDot

\* An answer of the dot: the end, or the next attempt.
LEMMA ConnAnswersKeeps ==
    ASSUME IInv, ConnAnswers
    PROVE  IInv'
<1> USE DEF account
<1>1. /\ pc = "conn" /\ call' = NoCall
      /\ UNCHANGED <<request, auth, others, domain, found, rtt, order, tried, tokenSet>>
      /\ \E answer \in Answers : Absorb(answer)
      /\ \/ /\ pc' = "done" /\ result' \in {"Ok", "no data"} /\ at' = at
            /\ \/ transport' = transport
               \/ transport' = effective_transport(found[Current], request.protocol)
         \/ NextAttempt /\ transport' = transport
    BY DEF ConnAnswers, Finish, NextAttempt
<1>2. Token' /\ TokenReachesDot'
    <2>1. Token'
        BY <1>1, AbsorbKeepsToken DEF IInv
    <2>2. TokenReachesDot'
        BY <1>1 DEF TokenReachesDot, NoCall
    <2> QED
        BY <2>1, <2>2
<1>3. at \in DOMAIN order /\ Current \in DOMAIN found
    <2>1. at <= Len(order)
        BY <1>1 DEF IInv, Turns
    <2> QED
        BY <2>1, PlainTypes DEF Current
<1>4. transport' \in {"none", "Udp", "FeilianTcp"}
    BY <1>1, NegotiationAssumption DEF IInv, TypeOK, effective_transport, NextAttempt
<1>5. CASE pc' = "done" /\ result' \in {"Ok", "no data"} /\ at' = at
    <2>1. Candidates' /\ Ranked' /\ Turns'
        BY <1>1, <1>5, DotsStay
    <2>2. TypeOK' /\ Fresh'
        BY <1>1, <1>4, <1>5 DEF IInv, TypeOK, Fresh, Before1st
    <2> QED
        BY <1>2, <2>1, <2>2 DEF IInv
<1>6. CASE NextAttempt
    <2>1. /\ pc' = "try" /\ result' = result
          /\ at' = IF tried[Current] < MAX_CONFIG_ATTEMPTS_PER_DOT THEN at ELSE at + 1
        BY <1>6 DEF NextAttempt
    <2>2. result = "none"
        BY <1>1 DEF IInv, Fresh
    <2>3. at' \in 1 .. Len(order') + 1
        BY <1>1, <1>3, <2>1, PlainTypes
    <2>4. TypeOK' /\ Fresh'
        BY <1>1, <1>4, <2>1, <2>2, <2>3 DEF IInv, TypeOK, Fresh, Before1st
    <2>5. Candidates' /\ Ranked'
        BY <1>1, <2>1 DEF IInv, Candidates, Cut, Ranked
    <2>6. CASE tried[Current] < MAX_CONFIG_ATTEMPTS_PER_DOT
        <3>1. at' = at
            BY <2>1, <2>6
        <3> QED
            BY <1>1, <1>2, <2>1, <2>2, <2>4, <2>5, <2>6, <3>1 DEF IInv, Turns, Current
    <2>7. CASE ~(tried[Current] < MAX_CONFIG_ATTEMPTS_PER_DOT)
        <3>1. at' = at + 1 /\ tried[order[at]] = MAX_CONFIG_ATTEMPTS_PER_DOT
            BY <1>3, <2>1, <2>7, PlainTypes, Numbers DEF Current
        <3>2. \A k \in DOMAIN order : /\ k < at + 1 => k < at \/ k = at
                                      /\ k > at + 1 => k > at
            BY PlainTypes
        <3>3. at + 1 <= Len(order) => at + 1 \in DOMAIN order /\ at + 1 > at
            BY <1>3, PlainTypes
        <3>4. Turns'
            BY <1>1, <2>1, <2>2, <3>1, <3>2, <3>3, Numbers DEF IInv, Turns, Current
        <3> QED
            BY <1>2, <2>4, <2>5, <3>4 DEF IInv
    <2> QED
        BY <2>6, <2>7
<1> QED
    BY <1>1, <1>5, <1>6

\* All of them have failed.
LEMMA ExhaustedKeeps ==
    ASSUME IInv, Exhausted
    PROVE  IInv'
<1> USE DEF session, account, dots
<1>1. /\ pc = "try" /\ at > Len(order) /\ pc' = "done" /\ result' = "api" /\ call' = NoCall
      /\ UNCHANGED <<request, jar, auth, others, domain, found, rtt, order, at, tried, transport,
                     tokenSet>>
    BY DEF Exhausted, Finish
<1>2. at = Len(order) + 1
    BY <1>1, PlainTypes
<1>3. Candidates' /\ Ranked' /\ Turns'
    <2>1. Candidates'
        BY <1>1 DEF IInv, Candidates, Cut
    <2>2. Ranked'
        BY <1>1 DEF IInv, Ranked
    <2>3. Turns'
        BY <1>1, <1>2 DEF IInv, Turns
    <2> QED
        BY <2>1, <2>2, <2>3
<1>4. TypeOK' /\ Fresh' /\ Token' /\ TokenReachesDot'
    BY <1>1 DEF IInv, TypeOK, Fresh, Before1st, Token, TokenReachesDot, NoCall
<1> QED
    BY <1>3, <1>4 DEF IInv

\* The other handlers: the token is lost with the jar only.
LEMMA OtherKeeps ==
    ASSUME IInv, Other
    PROVE  IInv'
<1> USE DEF account, dots
<1>1. /\ others < MaxOthers /\ others' = others + 1
      /\ UNCHANGED <<pc, request, domain, found, rtt, order, at, tried, call, result, transport>>
    BY DEF Other
<1>2. auth' \in [tenant : Tenants, knock : {None, 1}, totp : BOOLEAN]
    <2>1. auth \in [tenant : Tenants, knock : {None, 1}, totp : BOOLEAN]
        BY DEF IInv, TypeOK
    <2>2. \/ auth' = auth
          \/ auth' = [auth EXCEPT !.knock = None, !.totp = FALSE]
          \/ \E tenant \in Tenants : auth' = [auth EXCEPT !.tenant = tenant]
        BY DEF Other, OtherAnswer, clear_session, activate
    <2> QED
        BY <2>1, <2>2
<1>3. tokenSet' \in {tokenSet, FALSE} /\ Token'
    <2>1. CASE OtherAnswer
        <3>1. PICK name \in {"csrf-token", "vpn-token"} : jar' = merge(jar, [n \in {name} |-> 2])
            BY <2>1 DEF OtherAnswer
        <3>2. Get(jar', "vpn-token") = 2 \/ Get(jar', "vpn-token") = Get(jar, "vpn-token")
            BY <3>1 DEF Get, merge
        <3> QED
            BY <2>1, <3>2 DEF OtherAnswer, IInv, Token, None
    <2>2. CASE clear_session
        BY <2>2 DEF clear_session, Token
    <2>3. CASE activate
        BY <2>3 DEF activate, IInv, Token
    <2> QED
        BY <2>1, <2>2, <2>3 DEF Other
<1>4. TypeOK'
    <2>1. others' \in 0 .. MaxOthers
        <3>1. others \in 0 .. MaxOthers
            BY DEF IInv, TypeOK
        <3> QED
            BY <1>1, <3>1, Numbers
    <2>2. tokenSet' \in BOOLEAN
        BY <1>3 DEF IInv, TypeOK
    <2> QED
        BY <1>1, <1>2, <2>1, <2>2 DEF IInv, TypeOK
<1>5. Candidates' /\ Ranked' /\ Turns'
    BY <1>1, DotsStay
<1>6. Fresh'
    BY <1>1 DEF IInv, Fresh
<1>7. TokenReachesDot'
    <2>1. tokenSet' => tokenSet
        BY <1>3
    <2> QED
        BY <1>1, <2>1 DEF IInv, TokenReachesDot
<1> QED
    BY <1>3, <1>4, <1>5, <1>6, <1>7 DEF IInv

-----------------------------------------------------------------------------
(* Theorems                                                                *)

\* Every step preserves the invariant.
LEMMA NextIInv == IInv /\ [Next]_vars => IInv'
<1> SUFFICES ASSUME IInv, [Next]_vars PROVE IInv'
    OBVIOUS
<1>1. CASE Step
    BY <1>1, TenantKeeps, RankKeeps, TryDotKeeps, ExhaustedKeeps DEF Step
<1>2. CASE Answered
    BY <1>2, TenantKeeps, ListArrivesKeeps, ConnAnswersKeeps DEF Answered
<1>3. CASE \E i \in DOMAIN found : ProbeAnswers(i) \/ ProbeTimesOut(i)
    BY <1>3, ProbeKeeps
<1>4. CASE Other
    BY <1>4, OtherKeeps
<1>5. CASE UNCHANGED vars
    <2>1. UNCHANGED <<pc, request, jar, auth, others, domain, found, rtt, order, at, tried, call,
                      result, transport, tokenSet>>
        BY <1>5 DEF vars, session, account, dots
    <2>2. Candidates' /\ Ranked' /\ Turns'
        BY <2>1, DotsStay
    <2>3. TypeOK'
        BY <2>1 DEF IInv, TypeOK
    <2>4. Fresh' /\ Token' /\ TokenReachesDot'
        BY <2>1 DEF IInv, Fresh, Token, TokenReachesDot
    <2> QED
        BY <2>2, <2>3, <2>4 DEF IInv
<1> QED
    BY <1>1, <1>2, <1>3, <1>4, <1>5 DEF Next

\* The invariant holds always.
LEMMA Invariance == Spec => []IInv
<1> QED
    BY InitIInv, NextIInv, PTL DEF Spec

\* The variables have their types: no dot gets more requests than
\* MAX_CONFIG_ATTEMPTS_PER_DOT, and the transport is one of the two.
THEOREM TypeCorrect == Spec => []TypeOK
<1>1. IInv => TypeOK
    BY DEF IInv
<1> QED
    BY <1>1, Invariance, PTL

\* The dots have their turns in the order of their latency, for any list, any
\* answers to the probes and any limits (rank_dots_by_latency,
\* vpn_config_from_dot_list).
THEOREM FasterDotsFirst == Spec => []DotsInTurn
<1>1. ASSUME IInv PROVE DotsInTurn
    <2>1. \A k \in 1 .. at - 1 : k \in DOMAIN order /\ k < at
        BY <1>1, PlainTypes
    <2>2. \A k \in 1 .. at - 1 : tried[order[k]] = MAX_CONFIG_ATTEMPTS_PER_DOT
        BY <1>1, <2>1 DEF IInv, Turns
    <2>3. ASSUME pc \in {"try", "conn", "done"}, at <= Len(order), request.location = None,
                 NEW i \in DOMAIN found, rtt[i] < rtt[Current]
          PROVE  tried[i] = MAX_CONFIG_ATTEMPTS_PER_DOT
        <3>1. at \in DOMAIN order
            BY <1>1, <2>3, PlainTypes
        <3>2. PICK j \in 1 .. at - 1 : order[j] = i
            BY <1>1, <2>3, <3>1 DEF IInv, Ranked, Current
        <3> QED
            BY <2>2, <3>2
    <2>4. result = "api" => at = Min({Len(found), MAX_DOT_ATTEMPTS}) + 1
        BY <1>1 DEF IInv, Turns, Candidates, Cut
    <2> QED
        BY <2>2, <2>3, <2>4 DEF DotsInTurn
<1> QED
    BY <1>1, Invariance, PTL

\* The token set by the list is on every request for a configuration, whatever
\* other handlers and other answers do to the shared jar (ApiClient::execute).
THEOREM TokenIsSent == Spec => []TokenReachesDot
<1>1. IInv => TokenReachesDot
    BY DEF IInv
<1> QED
    BY <1>1, Invariance, PTL
=============================================================================
