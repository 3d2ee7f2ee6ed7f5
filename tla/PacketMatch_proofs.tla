------------------------- MODULE PacketMatch_proofs -------------------------
(***************************************************************************)
(* The look-up of the userspace driver chooses the PDR the reference       *)
(* chooses, and both drivers' filters agree on descriptions of the         *)
(* standard form, for all rules, PDRs and packets.                         *)
(*                                                                         *)
(* In order: what both parsers make of the text of a rule; a parsed rule   *)
(* matches what the rule means; the first match in a sorted list is a best *)
(* one; the look-up as a whole.  The parsers need no induction: a list of  *)
(* fields is taken apart by index, and the first "to" is the only one.     *)
(***************************************************************************)
EXTENDS PacketMatch, FiniteSetTheorems, FunctionTheorems, SequenceTheorems,
        WellFoundedInduction, TLAPS

-----------------------------------------------------------------------------
(* Sequences and least elements                                            *)

\* every set of natural numbers that is not empty has a least element
LEMMA LeastNat ==
    ASSUME NEW I \in SUBSET Nat, I # {}
    PROVE  \E i \in I : \A j \in I : i <= j
  <1> DEFINE R == OpToRel(<, Nat)
  <1>1. IsWellFoundedOn(R, Nat)
    BY NatLessThanWellFounded
  <1>2. PICK i \in I : \A j \in I : ~(<<j, i>> \in R)
    <2> HIDE DEF R
    <2> QED BY <1>1, WFMin, Zenon
  <1>3. \A j \in I : ~(j < i)
    <2> TAKE j \in I
    <2>1. i \in Nat /\ j \in Nat
      OBVIOUS
    <2>2. R = {ss \in Nat \X Nat : ss[1] < ss[2]}
      BY DEF OpToRel
    <2> HIDE DEF R
    <2>3. <<j, i>> \notin R
      BY <1>2
    <2> QED BY <2>1, <2>2, <2>3
  <1> QED BY <1>3

LEMMA MinIsLeast ==
    ASSUME NEW I \in SUBSET Nat, I # {}
    PROVE  Min(I) \in I /\ \A j \in I : Min(I) <= j
  <1>1. \E i \in I : \A j \in I : i <= j
    BY LeastNat
  <1> QED BY <1>1, Zenon DEF Min

\* length and elements of a concatenation
LEMMA Joined ==
    ASSUME NEW S, NEW s \in Seq(S), NEW t \in Seq(S), NEW u, u = s \o t
    PROVE  /\ u \in Seq(S)
           /\ Len(s) \in Nat /\ Len(t) \in Nat /\ Len(u) = Len(s) + Len(t)
           /\ \A i \in 1 .. Len(s) : u[i] = s[i]
           /\ \A i \in 1 .. Len(t) : u[Len(s) + i] = t[i]
  <1>1. u \in Seq(S) /\ Len(u) = Len(s) + Len(t)
        /\ \A i \in 1 .. Len(s) + Len(t) : u[i] = IF i <= Len(s) THEN s[i] ELSE t[i - Len(s)]
    BY ConcatProperties, Zenon
  <1>2. Len(s) \in Nat /\ Len(t) \in Nat
    OBVIOUS
  <1>3. \A i \in 1 .. Len(s) : u[i] = s[i]
    BY <1>1, <1>2
  <1>4. \A i \in 1 .. Len(t) : u[Len(s) + i] = t[i]
    <2> TAKE i \in 1 .. Len(t)
    <2>1. Len(s) + i \in 1 .. Len(s) + Len(t) /\ ~(Len(s) + i <= Len(s)) /\ Len(s) + i - Len(s) = i
      BY <1>2
    <2> QED BY <1>1, <2>1
  <1> QED BY <1>1, <1>2, <1>3, <1>4

\* a part of a sequence
LEMMA Part ==
    ASSUME NEW S, NEW s \in Seq(S), NEW k \in Nat, NEW n \in Nat, 1 <= k, k + n <= Len(s)
    PROVE  /\ SubSeq(s, k, k + n) \in Seq(S) /\ Len(SubSeq(s, k, k + n)) = 1 + n
           /\ \A x \in 1 .. 1 + n : SubSeq(s, k, k + n)[x] = s[k + x - 1]
  <1>1. Len(s) \in Nat /\ \A i \in k .. k + n : s[i] \in S
    OBVIOUS
  <1>2. k \in Int /\ k + n \in Int /\ k <= k + n /\ (k + n) - k + 1 = 1 + n
    OBVIOUS
  <1>3. /\ SubSeq(s, k, k + n) \in Seq(S)
        /\ Len(SubSeq(s, k, k + n)) = IF k <= k + n THEN (k + n) - k + 1 ELSE 0
        /\ \A i \in 1 .. (k + n) - k + 1 : SubSeq(s, k, k + n)[i] = s[k + i - 1]
    BY <1>1, <1>2, SubSeqProperties
  <1> QED BY <1>2, <1>3, Zenon

-----------------------------------------------------------------------------
(* The text of a rule                                                      *)

\* the words of the grammar
Words == {"permit", "from", "to", "any", "assigned"} \cup STRING
            \cup DOMAIN NetOf \cup DOMAIN PortsOf

LEMMA EndpointWords ==
    ASSUME NEW e \in Endpoint
    PROVE  /\ e.addr \in {"any", "assigned"} \cup DOMAIN NetOf
           /\ e.addr \in Words /\ e.addr # "to"
           /\ e.ports \in Seq(Words) /\ Len(e.ports) \in Nat
           /\ \A i \in 1 .. Len(e.ports) :
                 e.ports[i] \in {"any"} \cup DOMAIN PortsOf /\ e.ports[i] # "to"
  <1>1. e.addr \in {"any", "assigned"} \cup DOMAIN NetOf
        /\ e.ports \in Seq({"any"} \cup DOMAIN PortsOf)
    BY DEF Endpoint
  <1>2. "to" \notin DOMAIN NetOf /\ "to" \notin DOMAIN PortsOf
    BY FieldAssumption, Zenon
  <1>3. e.addr \in Words /\ e.addr # "to"
    BY <1>1, <1>2, Zenon DEF Words
  <1>4. \A i \in 1 .. Len(e.ports) : e.ports[i] \in {"any"} \cup DOMAIN PortsOf
    BY <1>1
  <1>5. \A i \in 1 .. Len(e.ports) : e.ports[i] \in Words /\ e.ports[i] # "to"
    BY <1>2, <1>4, Zenon DEF Words
  <1>6. e.ports \in Seq(Words)
    BY <1>1, <1>5
  <1> QED BY <1>1, <1>3, <1>4, <1>5, <1>6

LEMMA TextFields ==
    ASSUME NEW r \in Rule
    PROVE  LET d == Text(r)
               m == Len(r.from.ports)
               n == Len(r.to.ports)
           IN  /\ d \in Seq(Words) /\ Len(d) = 7 + m + n /\ m \in Nat /\ n \in Nat
               /\ d[1] = "permit" /\ d[2] = r.dir /\ d[3] = r.proto /\ d[4] = "from"
               /\ d[5] = r.from.addr
               /\ \A i \in 1 .. m : d[5 + i] = r.from.ports[i]
               /\ d[6 + m] = "to" /\ d[7 + m] = r.to.addr
               /\ \A i \in 1 .. n : d[7 + m + i] = r.to.ports[i]
  <1> DEFINE a == <<"permit", r.dir, r.proto, "from", r.from.addr>>
             p == r.from.ports
             b == <<"to", r.to.addr>>
             q == r.to.ports
  <1>1. r.from \in Endpoint /\ r.to \in Endpoint /\ r.dir \in STRING /\ r.proto \in STRING
    BY DEF Rule
  <1>2. r.dir \in Words /\ r.proto \in Words /\ "permit" \in Words /\ "from" \in Words
        /\ "to" \in Words
    BY <1>1, Zenon DEF Words
  <1>3. p \in Seq(Words) /\ q \in Seq(Words) /\ r.from.addr \in Words /\ r.to.addr \in Words
    BY <1>1, EndpointWords, Zenon
  <1>4. a \in Seq(Words) /\ Len(a) = 5 /\ b \in Seq(Words) /\ Len(b) = 2
    BY <1>2, <1>3
  <1>5. a[1] = "permit" /\ a[2] = r.dir /\ a[3] = r.proto /\ a[4] = "from" /\ a[5] = r.from.addr
        /\ b[1] = "to" /\ b[2] = r.to.addr
    OBVIOUS
  <1>6. Text(r) = ((a \o p) \o b) \o q
    BY DEF Text
  <1> HIDE DEF a, b, p, q
  <1> DEFINE ap == a \o p
             apb == ap \o b
             d == apb \o q
  <1>7. Len(p) \in Nat /\ Len(q) \in Nat
    BY <1>3
  <1>8. ap \in Seq(Words) /\ Len(ap) = 5 + Len(p)
        /\ (\A i \in 1 .. 5 : ap[i] = a[i]) /\ \A i \in 1 .. Len(p) : ap[5 + i] = p[i]
    <2>1. ap = a \o p
      OBVIOUS
    <2> HIDE DEF ap
    <2>2. ap \in Seq(Words) /\ Len(ap) = Len(a) + Len(p) /\ (\A i \in 1 .. Len(a) : ap[i] = a[i])
          /\ \A i \in 1 .. Len(p) : ap[Len(a) + i] = p[i]
      <3>1. a \in Seq(Words) /\ p \in Seq(Words)
        BY <1>3, <1>4
      <3> QED BY <3>1, <2>1, Joined
    <2> QED BY <1>4, <2>2
  <1> HIDE DEF ap
  <1>9. apb \in Seq(Words) /\ Len(apb) = 7 + Len(p)
        /\ (\A i \in 1 .. Len(ap) : apb[i] = ap[i]) /\ \A i \in 1 .. 2 : apb[Len(ap) + i] = b[i]
    <2>1. apb = ap \o b
      OBVIOUS
    <2> HIDE DEF apb
    <2>2. apb \in Seq(Words) /\ Len(apb) = Len(ap) + Len(b)
          /\ (\A i \in 1 .. Len(ap) : apb[i] = ap[i])
          /\ \A i \in 1 .. Len(b) : apb[Len(ap) + i] = b[i]
      <3>1. ap \in Seq(Words) /\ b \in Seq(Words)
        BY <1>4, <1>8
      <3> QED BY <3>1, <2>1, Joined
    <2> QED BY <1>4, <1>7, <1>8, <2>2
  <1> HIDE DEF apb
  <1>10. d \in Seq(Words) /\ Len(d) = 7 + Len(p) + Len(q)
        /\ (\A i \in 1 .. Len(apb) : d[i] = apb[i])
        /\ \A i \in 1 .. Len(q) : d[Len(apb) + i] = q[i]
    <2>1. d = apb \o q
      OBVIOUS
    <2> HIDE DEF d
    <2>2. d \in Seq(Words) /\ Len(d) = Len(apb) + Len(q)
          /\ (\A i \in 1 .. Len(apb) : d[i] = apb[i])
          /\ \A i \in 1 .. Len(q) : d[Len(apb) + i] = q[i]
      <3>1. apb \in Seq(Words) /\ q \in Seq(Words)
        BY <1>3, <1>9
      <3> QED BY <3>1, <2>1, Joined
    <2> QED BY <1>7, <1>9, <2>2
  <1>11. Text(r) = d
    BY <1>6 DEF ap, apb
  <1> HIDE DEF d
  <1>12. \A i \in 1 .. 5 : d[i] = a[i]
    BY <1>7, <1>8, <1>9, <1>10
  <1>13. \A i \in 1 .. Len(p) : d[5 + i] = p[i]
    <2> TAKE i \in 1 .. Len(p)
    <2>1. 5 + i \in 1 .. Len(ap) /\ 5 + i \in 1 .. Len(apb)
      BY <1>7, <1>8, <1>9
    <2> QED BY <1>8, <1>9, <1>10, <2>1
  <1>14. d[6 + Len(p)] = b[1] /\ d[7 + Len(p)] = b[2]
    BY <1>7, <1>8, <1>9, <1>10
  <1>15. \A i \in 1 .. Len(q) : d[7 + Len(p) + i] = q[i]
    BY <1>7, <1>9, <1>10
  <1>16. d[1] = a[1] /\ d[2] = a[2] /\ d[3] = a[3] /\ d[4] = a[4] /\ d[5] = a[5]
    BY <1>12
  <1> QED BY <1>5, <1>7, <1>10, <1>11, <1>13, <1>14, <1>15, <1>16, Zenon DEF p, q

-----------------------------------------------------------------------------
(* What the userspace driver makes of the text                             *)

\* an endpoint and a rule as the driver keeps them
ParsedEnd(e) ==
    [assigned |-> e.addr = "assigned",
     net      |-> IF e.addr \in DOMAIN NetOf THEN NetOf[e.addr] ELSE None,
     ports    |-> Ports(e)]

ParsedRule(r) ==
    [dir |-> r.dir, proto |-> r.proto, src |-> ParsedEnd(r.from), dst |-> ParsedEnd(r.to)]

\* the ports of an endpoint are a list, and what parsePortList reads
LEMMA ParsesPorts ==
    ASSUME NEW e \in Endpoint
    PROVE  /\ Ports(e) \in PortLists /\ Ports(e) # None
           /\ parsePortList(e.ports) = Ports(e)
  <1> DEFINE T == Range(e.ports) \ {"any"}
  <1>1. T \subseteq DOMAIN PortsOf
    <2> SUFFICES ASSUME NEW t \in T PROVE t \in DOMAIN PortsOf
      OBVIOUS
    <2>1. PICK i \in DOMAIN e.ports : t = e.ports[i]
      BY DEF Range
    <2>2. DOMAIN e.ports = 1 .. Len(e.ports)
      BY EndpointWords
    <2> QED BY <2>1, <2>2, EndpointWords
  <1>2. Ports(e) = UNION {PortsOf[t] : t \in T}
    BY DEF Ports
  <1> HIDE DEF T
  <1>3. Ports(e) \in PortLists
    BY <1>1, <1>2, Zenon DEF PortLists
  <1>4. None \notin PortLists
    BY FieldAssumption, Zenon
  <1>5. parsePortList(e.ports) = UNION {PortsOf[t] : t \in T}
    BY <1>1 DEF parsePortList, T
  <1> QED BY <1>2, <1>3, <1>4, <1>5, Zenon

LEMMA ParsedEndType ==
    ASSUME NEW e \in Endpoint
    PROVE  ParsedEnd(e) \in FlowEndpoint /\ ParsedEnd(e) # None
  <1>1. Ports(e) \in PortLists
    BY ParsesPorts
  <1>2. (IF e.addr \in DOMAIN NetOf THEN NetOf[e.addr] ELSE None) \in Networks \cup {None}
    BY Zenon DEF Networks
  <1>3. (e.addr = "assigned") \in BOOLEAN
    OBVIOUS
  <1>4. ParsedEnd(e) \in FlowEndpoint
    BY <1>1, <1>2, <1>3 DEF ParsedEnd, FlowEndpoint
  <1>5. None \notin FlowEndpoint
    BY FieldAssumption, Zenon
  <1> QED BY <1>4, <1>5, Zenon

\* parseFlowEndpoint reads an address and any number of port fields
LEMMA ParsesEndpoint ==
    ASSUME NEW e \in Endpoint, NEW fields \in Seq(Words),
           Len(fields) = 1 + Len(e.ports), fields[1] = e.addr,
           \A i \in 1 .. Len(e.ports) : fields[1 + i] = e.ports[i]
    PROVE  parseFlowEndpoint(fields) = ParsedEnd(e)
  <1>1. Len(e.ports) \in Nat /\ e.ports \in Seq(Words)
        /\ e.addr \in {"any", "assigned"} \cup DOMAIN NetOf
    BY EndpointWords
  <1>2. fields # <<>> /\ Head(fields) = e.addr
    BY <1>1
  <1>3. Tail(fields) = e.ports
    <2>1. Tail(fields) \in Seq(Words) /\ Len(Tail(fields)) = Len(e.ports)
      BY <1>1, <1>2
    <2>2. \A i \in 1 .. Len(e.ports) : Tail(fields)[i] = e.ports[i]
      BY <1>1, <1>2, <2>1
    <2> QED BY <1>1, <2>1, <2>2, SeqEqual
  <1>4. parsePortList(Tail(fields)) = Ports(e) /\ Ports(e) # None
    BY <1>3, ParsesPorts
  <1> QED BY <1>1, <1>2, <1>4, Zenon DEF parseFlowEndpoint, ParsedEnd

\* The parser of the userspace driver reads back every rule of the grammar
\* (parseFlowDescription, sdf.go:19).
THEOREM UserspaceReadsGrammar ==
    ASSUME NEW r \in Rule
    PROVE  parseFlowDescription(Text(r)) = ParsedRule(r) /\ ParsedRule(r) # None
  <1> DEFINE d == Text(r)
             m == Len(r.from.ports)
             n == Len(r.to.ports)
             to == {i \in 5 .. Len(d) : d[i] = "to"}
  <1>1. r.from \in Endpoint /\ r.to \in Endpoint /\ r.dir \in STRING /\ r.proto \in STRING
    BY DEF Rule
  <1>2. /\ d \in Seq(Words) /\ Len(d) = 7 + m + n /\ m \in Nat /\ n \in Nat
        /\ d[1] = "permit" /\ d[2] = r.dir /\ d[3] = r.proto /\ d[4] = "from"
        /\ d[5] = r.from.addr
        /\ \A i \in 1 .. m : d[5 + i] = r.from.ports[i]
        /\ d[6 + m] = "to" /\ d[7 + m] = r.to.addr
        /\ \A i \in 1 .. n : d[7 + m + i] = r.to.ports[i]
    BY TextFields, Zenon
  <1>3. /\ r.from.addr # "to" /\ r.to.addr # "to"
        /\ \A i \in 1 .. m : r.from.ports[i] # "to"
        /\ \A i \in 1 .. n : r.to.ports[i] # "to"
    BY <1>1, EndpointWords, Zenon
  <1> HIDE DEF d, m, n
  <1>4. to = {6 + m}
    <2>1. 6 + m \in to
      BY <1>2
    <2>2. ASSUME NEW i \in to PROVE i = 6 + m
      <3>1. i \in 5 .. 7 + m + n /\ d[i] = "to"
        BY <1>2
      <3>2. i # 5 /\ i # 7 + m
        BY <1>2, <1>3, <3>1
      <3>3. ~(i \in 6 .. 5 + m)
        <4>1. SUFFICES ASSUME i \in 6 .. 5 + m PROVE FALSE
          OBVIOUS
        <4>2. i - 5 \in 1 .. m /\ 5 + (i - 5) = i
          BY <1>2, <4>1
        <4>3. d[5 + (i - 5)] = r.from.ports[i - 5] /\ r.from.ports[i - 5] # "to"
          BY <1>2, <1>3, <4>2, Zenon
        <4> QED BY <3>1, <4>2, <4>3
      <3>4. ~(i \in 8 + m .. 7 + m + n)
        <4>1. SUFFICES ASSUME i \in 8 + m .. 7 + m + n PROVE FALSE
          OBVIOUS
        <4>2. i - 7 - m \in 1 .. n /\ 7 + m + (i - 7 - m) = i
          BY <1>2, <4>1
        <4>3. d[7 + m + (i - 7 - m)] = r.to.ports[i - 7 - m] /\ r.to.ports[i - 7 - m] # "to"
          BY <1>2, <1>3, <4>2, Zenon
        <4> QED BY <3>1, <4>2, <4>3
      <3> QED BY <1>2, <3>1, <3>2, <3>3, <3>4
    <2> QED BY <2>1, <2>2
  <1>5. (CHOOSE x \in to : \A y \in to : x <= y) = 6 + m
    BY <1>2, <1>4
  <1>6. ASSUME NEW i, i = 6 + m
        PROVE  parseFlowEndpoint(SubSeq(d, 5, i - 1)) = ParsedEnd(r.from)
    <2> DEFINE f == SubSeq(d, 5, i - 1)
    <2>1. f \in Seq(Words) /\ Len(f) = 1 + m /\ \A x \in 1 .. 1 + m : f[x] = d[5 + x - 1]
      <3>0. d \in Seq(Words) /\ m \in Nat
        BY <1>2, Zenon
      <3>1. i - 1 = 5 + m /\ 5 \in Nat /\ 1 <= 5 /\ 5 + m <= Len(d)
        BY <1>2, <1>6
      <3>2. /\ SubSeq(d, 5, 5 + m) \in Seq(Words) /\ Len(SubSeq(d, 5, 5 + m)) = 1 + m
            /\ \A x \in 1 .. 1 + m : SubSeq(d, 5, 5 + m)[x] = d[5 + x - 1]
        BY <3>0, <3>1, Part, SMTT(30)
      <3> QED BY <3>1, <3>2, Zenon
    <2> HIDE DEF f
    <2>2. f[1] = r.from.addr
      <3>1. 1 \in 1 .. 1 + m /\ 5 + 1 - 1 = 5
        BY <1>2
      <3>2. d[5] = r.from.addr
        BY <1>2, Zenon
      <3> QED BY <2>1, <3>1, <3>2, Zenon
    <2>3. ASSUME NEW x \in 1 .. m PROVE f[1 + x] = r.from.ports[x]
      <3>1. 1 + x \in 1 .. 1 + m /\ 5 + (1 + x) - 1 = 5 + x
        BY <1>2
      <3>2. f[1 + x] = d[5 + (1 + x) - 1]
        BY <2>1, <3>1, Zenon
      <3>3. d[5 + x] = r.from.ports[x]
        BY <1>2, Zenon
      <3> QED BY <3>1, <3>2, <3>3, Zenon
    <2> QED BY <1>1, <2>1, <2>2, <2>3, ParsesEndpoint DEF f, m
  <1>7. ASSUME NEW i, i = 6 + m
        PROVE  parseFlowEndpoint(SubSeq(d, i + 1, Len(d))) = ParsedEnd(r.to)
    <2> DEFINE f == SubSeq(d, i + 1, Len(d))
    <2>1. f \in Seq(Words) /\ Len(f) = 1 + n /\ \A x \in 1 .. 1 + n : f[x] = d[7 + m + x - 1]
      <3>0. d \in Seq(Words) /\ m \in Nat /\ n \in Nat
        BY <1>2, Zenon
      <3>1. i + 1 = 7 + m /\ Len(d) = (7 + m) + n /\ 7 + m \in Nat /\ 1 <= 7 + m
            /\ (7 + m) + n <= Len(d)
        BY <1>2, <1>7
      <3>2. PICK k : k = 7 + m
        OBVIOUS
      <3>3. /\ SubSeq(d, k, k + n) \in Seq(Words) /\ Len(SubSeq(d, k, k + n)) = 1 + n
            /\ \A x \in 1 .. 1 + n : SubSeq(d, k, k + n)[x] = d[k + x - 1]
        BY <3>0, <3>1, <3>2, Part, SMTT(30)
      <3>4. f = SubSeq(d, k, k + n)
        BY <3>1, <3>2, Zenon
      <3> HIDE DEF f
      <3> QED BY <3>2, <3>3, <3>4, Zenon
    <2> HIDE DEF f
    <2>2. f[1] = r.to.addr
      <3>1. 1 \in 1 .. 1 + n /\ 7 + m + 1 - 1 = 7 + m
        BY <1>2
      <3>2. d[7 + m] = r.to.addr
        BY <1>2, Zenon
      <3> QED BY <2>1, <3>1, <3>2, Zenon
    <2>3. ASSUME NEW x \in 1 .. n PROVE f[1 + x] = r.to.ports[x]
      <3>1. 1 + x \in 1 .. 1 + n /\ 7 + m + (1 + x) - 1 = 7 + m + x
        BY <1>2
      <3>2. f[1 + x] = d[7 + m + (1 + x) - 1]
        BY <2>1, <3>1, Zenon
      <3>3. d[7 + m + x] = r.to.ports[x]
        BY <1>2, Zenon
      <3> QED BY <3>1, <3>2, <3>3, Zenon
    <2> QED BY <1>1, <2>1, <2>2, <2>3, ParsesEndpoint DEF f, n
  <1>8. ~(Len(d) < 7) /\ Len(d) \notin to /\ to # {}
    <2> HIDE DEF to
    <2>1. ~(Len(d) < 7) /\ Len(d) # 6 + m
      BY <1>2
    <2> QED BY <1>4, <2>1, Zenon
  <1>9. ParsedEnd(r.from) # None /\ ParsedEnd(r.to) # None
    BY <1>1, ParsedEndType
  <1>10. ParsedRule(r) \in SDFFilterRule
    BY <1>1, ParsedEndType DEF ParsedRule, SDFFilterRule
  <1>11. None \notin SDFFilterRule
    BY FieldAssumption, Zenon
  <1>12. parseFlowDescription(d) = ParsedRule(r)
    <2> HIDE DEF to
    <2>1. parseFlowDescription(d) =
            IF Len(d) < 7 \/ d[1] # "permit" \/ d[4] # "from" \/ to = {} \/ Len(d) \in to
            THEN None
            ELSE LET i   == CHOOSE x \in to : \A y \in to : x <= y
                     src == parseFlowEndpoint(SubSeq(d, 5, i - 1))
                     dst == parseFlowEndpoint(SubSeq(d, i + 1, Len(d)))
                 IN  IF src = None \/ dst = None THEN None
                     ELSE [dir |-> d[2], proto |-> d[3], src |-> src, dst |-> dst]
      BY Zenon DEF parseFlowDescription, to
    <2> DEFINE i == CHOOSE x \in to : \A y \in to : x <= y
    <2>2. parseFlowDescription(d) =
            LET src == parseFlowEndpoint(SubSeq(d, 5, i - 1))
                dst == parseFlowEndpoint(SubSeq(d, i + 1, Len(d)))
            IN  IF src = None \/ dst = None THEN None
                ELSE [dir |-> d[2], proto |-> d[3], src |-> src, dst |-> dst]
      BY <1>2, <1>8, <2>1, Zenon
    <2> HIDE DEF i
    <2>3. i = 6 + m
      BY <1>5 DEF i
    <2>4. /\ parseFlowEndpoint(SubSeq(d, 5, i - 1)) = ParsedEnd(r.from)
          /\ parseFlowEndpoint(SubSeq(d, i + 1, Len(d))) = ParsedEnd(r.to)
      BY <1>6, <1>7, <2>3, Zenon
    <2>5. parseFlowDescription(d) =
            [dir |-> d[2], proto |-> d[3], src |-> ParsedEnd(r.from), dst |-> ParsedEnd(r.to)]
      BY <1>9, <2>2, <2>4, Zenon
    <2> QED BY <1>2, <2>5, Zenon DEF ParsedRule
  <1> QED BY <1>10, <1>11, <1>12, Zenon DEF d

-----------------------------------------------------------------------------
(* A parsed rule matches what the rule means                               *)

LEMMA EndMeaning ==
    ASSUME NEW e \in Endpoint, NEW ue \in Addresses \cup {None}, NEW ip \in Addresses,
           NEW port, NEW pkt
    PROVE  endpointMatches(ParsedEnd(e), ue, ip, port, HasPorts(pkt))
             <=> From(e, ue, ip, port, pkt)
  <1> DEFINE ep == ParsedEnd(e)
  <1>1. /\ ep.assigned = (e.addr = "assigned")
        /\ ep.net = IF e.addr \in DOMAIN NetOf THEN NetOf[e.addr] ELSE None
        /\ ep.ports = Ports(e)
    BY DEF ParsedEnd
  <1> HIDE DEF ep
  <1>2. e.addr \in {"any", "assigned"} \cup DOMAIN NetOf
    BY EndpointWords
  <1>3. "assigned" \notin DOMAIN NetOf /\ "any" \notin DOMAIN NetOf /\ None \notin Addresses
        /\ None \notin Networks
    BY FieldAssumption, Zenon
  <1>4. e.addr \in DOMAIN NetOf => NetOf[e.addr] # None
    BY <1>3, Zenon DEF Networks
  <1>5. "assigned" # "any"
    OBVIOUS
  <1>6. (/\ ep.assigned => ue # None /\ ue = ip
         /\ ep.net # None => ip \in ep.net)
        <=> IF e.addr = "assigned" THEN ip = ue ELSE ip \in Addrs(e)
    <2>1. CASE e.addr = "assigned"
      <3>1. ep.assigned = TRUE /\ ep.net = None
        BY <1>1, <1>3, <2>1
      <3> QED BY <1>3, <2>1, <3>1, Zenon
    <2>2. CASE e.addr = "any"
      <3>1. ep.assigned = FALSE /\ ep.net = None /\ Addrs(e) = Addresses
        BY <1>1, <1>3, <1>5, <2>2 DEF Addrs
      <3> QED BY <1>5, <2>2, <3>1, Zenon
    <2>3. CASE e.addr \in DOMAIN NetOf
      <3>1. ep.assigned = FALSE /\ ep.net = NetOf[e.addr] /\ Addrs(e) = NetOf[e.addr]
        BY <1>1, <1>3, <2>3 DEF Addrs
      <3>2. e.addr # "assigned"
        BY <1>3, <2>3
      <3> QED BY <1>4, <2>3, <3>1, <3>2, Zenon
    <2> QED BY <1>2, <2>1, <2>2, <2>3
  <1>7. (ep.ports # {} => HasPorts(pkt) /\ \E r \in ep.ports : port \in r[1] .. r[2])
        <=> (Ports(e) = {} \/ (HasPorts(pkt) /\ \E x \in Ports(e) : port \in x[1] .. x[2]))
    BY <1>1, Zenon
  <1> QED BY <1>6, <1>7, Zenon DEF endpointMatches, From, ep

\* a protocol without a name: its number, or none
LEMMA OtherProtos ==
    ASSUME NEW p, p # "ip", p # "tcp", p # "udp", p # "icmp"
    PROVE  /\ p \in DOMAIN NumberOf => Protos(p) = {NumberOf[p]}
           /\ p \notin DOMAIN NumberOf => Protos(p) = {}
  <1>1. Protos(p) = {NumberOf[t] : t \in DOMAIN NumberOf \cap {p}}
    BY DEF Protos
  <1> QED BY <1>1, Zenon

LEMMA ProtoMeaning ==
    ASSUME NEW p \in STRING, NEW actual \in Protocols
    PROVE  protocolMatches(p, actual) <=> actual \in Protos(p)
  <1>1. /\ "ip" \notin DOMAIN NumberOf /\ "tcp" \notin DOMAIN NumberOf
        /\ "udp" \notin DOMAIN NumberOf /\ "icmp" \notin DOMAIN NumberOf
    BY FieldAssumption, Zenon DEF ProtoNames
  <1>2. CASE p = "ip"
    BY <1>2 DEF protocolMatches, Protos
  <1>3. CASE p = "tcp"
    BY <1>3 DEF protocolMatches, Protos
  <1>4. CASE p = "udp"
    BY <1>4 DEF protocolMatches, Protos
  <1>5. CASE p = "icmp"
    BY <1>5 DEF protocolMatches, Protos
  <1>6. CASE p \in DOMAIN NumberOf
    <2>1. p # "ip" /\ p # "tcp" /\ p # "udp" /\ p # "icmp"
      BY <1>1, <1>6
    <2>2. protocolMatches(p, actual) <=> NumberOf[p] = actual
      BY <1>6, <2>1 DEF protocolMatches
    <2>3. Protos(p) = {NumberOf[p]}
      BY <1>6, <2>1, OtherProtos
    <2> QED BY <2>2, <2>3
  <1>7. CASE p \notin DOMAIN NumberOf /\ p # "ip" /\ p # "tcp" /\ p # "udp" /\ p # "icmp"
    <2>1. ~protocolMatches(p, actual)
      BY <1>7 DEF protocolMatches
    <2>2. Protos(p) = {}
      BY <1>7, OtherProtos
    <2> QED BY <2>1, <2>2
  <1> QED BY <1>2, <1>3, <1>4, <1>5, <1>6, <1>7

LEMMA ReversedFields ==
    ASSUME NEW pkt \in Packet
    PROVE  /\ Reversed(pkt) \in Packet
           /\ Reversed(pkt).src = pkt.dst /\ Reversed(pkt).dst = pkt.src
           /\ Reversed(pkt).sport = pkt.dport /\ Reversed(pkt).dport = pkt.sport
           /\ Reversed(pkt).proto = pkt.proto
           /\ HasPorts(Reversed(pkt)) <=> HasPorts(pkt)
  BY DEF Packet, Reversed, HasPorts

\* both ends and the protocol, for a packet that arrives or its reverse
LEMMA PermitsMeaning ==
    ASSUME NEW r \in Rule, NEW ue \in Addresses \cup {None}, NEW pkt \in Packet
    PROVE  /\ ParsedRule(r).dir = r.dir
           /\ ruleUsesAssigned(ParsedRule(r)) <=> "assigned" \in {r.from.addr, r.to.addr}
           /\ (protocolMatches(ParsedRule(r).proto, pkt.proto)
                 /\ endpointsMatchRule(ParsedRule(r), ue, pkt)) <=> Permits(r, ue, pkt)
  <1> DEFINE rule == ParsedRule(r)
  <1>1. r.from \in Endpoint /\ r.to \in Endpoint /\ r.proto \in STRING
    BY DEF Rule
  <1>2. pkt.src \in Addresses /\ pkt.dst \in Addresses /\ pkt.proto \in Protocols
    BY DEF Packet
  <1>3. rule.dir = r.dir /\ rule.proto = r.proto /\ rule.src = ParsedEnd(r.from)
        /\ rule.dst = ParsedEnd(r.to)
    BY DEF ParsedRule
  <1>4. ParsedEnd(r.from).assigned = (r.from.addr = "assigned")
        /\ ParsedEnd(r.to).assigned = (r.to.addr = "assigned")
    BY DEF ParsedEnd
  <1> HIDE DEF rule
  <1>5. ruleUsesAssigned(rule) <=> "assigned" \in {r.from.addr, r.to.addr}
    BY <1>3, <1>4 DEF ruleUsesAssigned
  <1>6. endpointMatches(rule.src, ue, pkt.src, pkt.sport, HasPorts(pkt))
          <=> From(r.from, ue, pkt.src, pkt.sport, pkt)
    BY <1>1, <1>2, <1>3, EndMeaning, Zenon
  <1>7. endpointMatches(rule.dst, ue, pkt.dst, pkt.dport, HasPorts(pkt))
          <=> From(r.to, ue, pkt.dst, pkt.dport, pkt)
    BY <1>1, <1>2, <1>3, EndMeaning, Zenon
  <1>8. protocolMatches(rule.proto, pkt.proto) <=> pkt.proto \in Protos(r.proto)
    BY <1>1, <1>2, <1>3, ProtoMeaning, Zenon
  <1>9. (protocolMatches(rule.proto, pkt.proto) /\ endpointsMatchRule(rule, ue, pkt))
          <=> Permits(r, ue, pkt)
    BY <1>6, <1>7, <1>8, Zenon DEF endpointsMatchRule, Permits
  <1> QED BY <1>3, <1>5, <1>9, Zenon DEF rule

\* The filter of the userspace driver accepts what a rule means, in either
\* direction (ruleMatches, sdf.go).
LEMMA RuleMeaning ==
    ASSUME NEW r \in Rule, NEW ue \in Addresses \cup {None}, NEW pkt \in Packet
    PROVE  ruleMatches(ParsedRule(r), ue, pkt) <=> Means(r, ue, pkt)
  <1> DEFINE rule == ParsedRule(r)
             back == Reversed(pkt)
             uses == "assigned" \in {r.from.addr, r.to.addr}
  <1>1. back \in Packet /\ back.proto = pkt.proto
    BY ReversedFields
  <1>2. pkt.uplink \in BOOLEAN
    BY DEF Packet
  <1>3. /\ rule.dir = r.dir
        /\ ruleUsesAssigned(rule) <=> uses
        /\ (protocolMatches(rule.proto, pkt.proto) /\ endpointsMatchRule(rule, ue, pkt))
             <=> Permits(r, ue, pkt)
    BY PermitsMeaning, Zenon
  <1>4. (protocolMatches(rule.proto, back.proto) /\ endpointsMatchRule(rule, ue, back))
             <=> Permits(r, ue, back)
    BY <1>1, PermitsMeaning, Zenon
  <1>5. (protocolMatches(rule.proto, pkt.proto) /\ endpointsMatchRule(rule, ue, back))
             <=> Permits(r, ue, back)
    BY <1>1, <1>4
  <1>6. Means(r, ue, pkt) <=>
          IF uses THEN Permits(r, ue, pkt) \/ (pkt.uplink /\ Permits(r, ue, back))
          ELSE r.dir # (IF pkt.uplink THEN "in" ELSE "out") /\ Permits(r, ue, pkt)
    <2>1. CASE uses
      <3> DEFINE p == [pkt EXCEPT !.src = pkt.dst, !.dst = pkt.src, !.sport = pkt.dport,
                                  !.dport = pkt.sport]
      <3>1. Means(r, ue, pkt) <=> (Permits(r, ue, pkt) \/ (pkt.uplink /\ Permits(r, ue, p)))
        BY <2>1, Zenon DEF Means
      <3>2. back = p
        BY DEF Reversed
      <3> HIDE DEF p, back, uses
      <3> QED BY <2>1, <3>1, <3>2
    <2>2. CASE ~uses
      BY <2>2, Zenon DEF Means, Reversed
    <2> QED BY <2>1, <2>2, Zenon
  <1>7. ruleMatches(rule, ue, pkt) <=>
          /\ rule.dir = "out" /\ ~pkt.uplink => ruleUsesAssigned(rule)
          /\ rule.dir = "in" /\ pkt.uplink => ruleUsesAssigned(rule)
          /\ protocolMatches(rule.proto, pkt.proto)
          /\ \/ endpointsMatchRule(rule, ue, pkt)
             \/ pkt.uplink /\ ruleUsesAssigned(rule) /\ endpointsMatchRule(rule, ue, back)
    BY Zenon DEF ruleMatches
  <1> HIDE DEF rule, back, uses
  <1>8. CASE uses
    <2>1. CASE pkt.uplink
      BY <1>2, <1>3, <1>5, <1>6, <1>7, <1>8, <2>1 DEF rule
    <2>2. CASE ~pkt.uplink
      BY <1>2, <1>3, <1>6, <1>7, <1>8, <2>2 DEF rule
    <2> QED BY <2>1, <2>2
  <1>9. CASE ~uses
    <2>1. CASE pkt.uplink
      BY <1>2, <1>3, <1>6, <1>7, <1>9, <2>1 DEF rule
    <2>2. CASE ~pkt.uplink
      BY <1>2, <1>3, <1>6, <1>7, <1>9, <2>2 DEF rule
    <2> QED BY <2>1, <2>2
  <1> QED BY <1>8, <1>9 DEF rule

\* CreatePDR accepts every description of the PDR
Readable(b) == \A d \in Range(b.sdf) : parseFlowDescription(d) # None

LEMMA FilterMeaning ==
    ASSUME NEW b \in PDRs, Readable(b), NEW pkt \in Packet
    PROVE  matchSDF(b, pkt) <=> Filters(b, pkt)
  <1>1. b.ue \in Addresses \cup {None} /\ Rules \subseteq Rule
    BY MatchAssumption DEF PDR
  <1>2. ASSUME NEW r \in Rules
        PROVE  ruleMatches(parseFlowDescription(Text(r)), b.ue, pkt) <=> Means(r, b.ue, pkt)
    <2>1. r \in Rule
      BY <1>1
    <2> QED BY <1>1, <2>1, UserspaceReadsGrammar, RuleMeaning
  <1>3. \A d \in Range(b.sdf) : \E r \in Rules : d = Text(r)
    BY MatchAssumption, Zenon DEF Readable
  <1> QED BY <1>2, <1>3, Zenon DEF matchSDF, Filters

-----------------------------------------------------------------------------
(* The first match in a list                                               *)

\* an order of a finite set lists every element
LEMMA Listed ==
    ASSUME NEW S, IsFiniteSet(S), NEW q \in SetToSeqs(S)
    PROVE  /\ Len(q) \in Nat /\ q \in [1 .. Len(q) -> S]
           /\ \A b \in S : \E i \in 1 .. Len(q) : q[i] = b
  <1> DEFINE n == Cardinality(S)
  <1>1. n \in Nat /\ Cardinality(1 .. n) = n
    <2>1. n \in Nat
      BY FS_CardinalityType
    <2> QED BY <2>1, FS_Interval
  <1>2. q \in [1 .. n -> S] /\ \A i, j \in 1 .. n : i # j => q[i] # q[j]
    BY DEF SetToSeqs
  <1> HIDE DEF n
  <1>3. q \in Injection(1 .. n, S)
    BY <1>2 DEF Injection, IsInjective
  <1>4. q \in Surjection(1 .. n, S)
    BY <1>1, <1>3, FS_Injection DEF n
  <1>5. Len(q) = n
    BY <1>1, <1>2
  <1>6. \A b \in S : \E i \in 1 .. n : q[i] = b
    BY <1>4 DEF Surjection
  <1> QED BY <1>1, <1>2, <1>5, <1>6

\* the first of I is a best one of T when every element of T is one of I and
\* none of them that stands later comes before it
LEMMA FirstIsBest ==
    ASSUME NEW q, Len(q) \in Nat, NEW I \in SUBSET (1 .. Len(q)), I # {},
           \A i \in I : q[i] \in PDR,
           NEW T, q[Min(I)] \in T, \A b \in T : \E i \in I : q[i] = b,
           \A j \in I : Min(I) < j /\ q[j] \in T => ~Before(q[j], q[Min(I)])
    PROVE  First(q, I) \in Best(T)
  <1> DEFINE i == Min(I)
  <1>1. i \in I /\ \A j \in I : i <= j
    <2>1. I \in SUBSET Nat
      OBVIOUS
    <2> QED BY <2>1, MinIsLeast
  <1> HIDE DEF i
  <1>2. First(q, I) = q[i]
    BY DEF First, i
  <1>3. ASSUME NEW c \in T
        PROVE  c.prec < q[i].prec \/ (c.prec = q[i].prec /\ c.id >= q[i].id)
    <2>1. PICK j \in I : q[j] = c
      OBVIOUS
    <2>2. q[i] \in PDR /\ c \in PDR
      BY <1>1, <2>1
    <2>3. q[i].prec \in Nat /\ q[i].id \in Nat /\ c.prec \in Nat /\ c.id \in Nat
      BY <2>2 DEF PDR
    <2>4. i \in Nat /\ j \in Nat /\ i <= j
      BY <1>1
    <2>5. CASE i = j
      BY <2>1, <2>3, <2>5
    <2>6. CASE i < j
      <3>1. ~Before(c, q[i])
        BY <2>1, <2>6 DEF i
      <3> QED BY <2>3, <3>1 DEF Before
    <2> QED BY <2>4, <2>5, <2>6
  <1> QED BY <1>2, <1>3 DEF Best, i

\* the PDRs of S whose filters permit a packet, and those that also fit its
\* UE address
Permitting(S, pkt) == {b \in S : Filters(b, pkt)}
Fitting(S, pkt) == {b \in Permitting(S, pkt) : Fits(b, pkt.src)}

\* the positions of a list that match are those of the PDRs that permit
LEMMA MatchingIsPermitting ==
    ASSUME NEW S \in SUBSET PDRs, \A b \in S : Readable(b), IsFiniteSet(S),
           NEW pkt \in Packet, NEW q \in SetToSeqs(S)
    PROVE  /\ Len(q) \in Nat /\ q \in [1 .. Len(q) -> S]
           /\ Matching(q, pkt) = {i \in 1 .. Len(q) : q[i] \in Permitting(S, pkt)}
           /\ \A b \in S : \E i \in 1 .. Len(q) : q[i] = b
  <1>1. Len(q) \in Nat /\ q \in [1 .. Len(q) -> S] /\ \A b \in S : \E i \in 1 .. Len(q) : q[i] = b
    BY Listed
  <1>2. ASSUME NEW i \in 1 .. Len(q)
        PROVE  matchSDF(q[i], pkt) <=> q[i] \in Permitting(S, pkt)
    <2>1. q[i] \in S /\ q[i] \in PDRs /\ Readable(q[i])
      BY <1>1
    <2> QED BY <2>1, FilterMeaning, Zenon DEF Permitting
  <1> QED BY <1>1, <1>2, Zenon DEF Matching

\* The search through the PDRs of one key in their order.
LEMMA SortedSelection ==
    ASSUME NEW S \in SUBSET PDRs, \A b \in S : Readable(b), IsFiniteSet(S),
           NEW pkt \in Packet, NEW q \in Sorted(S)
    PROVE  /\ First(q, Matching(q, pkt)) \in
                 IF Permitting(S, pkt) # {} THEN Best(Permitting(S, pkt)) ELSE {None}
           /\ selectUplinkBinding(q, pkt) \in
                 IF Fitting(S, pkt) # {} THEN Best(Fitting(S, pkt))
                 ELSE IF Permitting(S, pkt) # {} THEN Best(Permitting(S, pkt)) ELSE {None}
  <1> DEFINE M == Matching(q, pkt)
             fits == {i \in M : Fits(q[i], pkt.src)}
  <1>1. q \in SetToSeqs(S) /\ \A i, j \in 1 .. Len(q) : i < j => ~Before(q[j], q[i])
    BY Zenon DEF Sorted
  <1>2. /\ Len(q) \in Nat /\ q \in [1 .. Len(q) -> S]
        /\ M = {i \in 1 .. Len(q) : q[i] \in Permitting(S, pkt)}
        /\ \A b \in S : \E i \in 1 .. Len(q) : q[i] = b
    BY <1>1, MatchingIsPermitting, ZenonT(30)
  <1>3. \A i \in 1 .. Len(q) : q[i] \in PDR
    BY <1>2, MatchAssumption
  <1>4. fits = {i \in 1 .. Len(q) : q[i] \in Fitting(S, pkt)}
    BY <1>2, Zenon DEF Fitting
  <1>5. ASSUME NEW T \in SUBSET S, NEW I, I = {i \in 1 .. Len(q) : q[i] \in T}
        PROVE  /\ I = {} <=> T = {}
               /\ First(q, I) \in IF T # {} THEN Best(T) ELSE {None}
    <2>1. I = {} <=> T = {}
      BY <1>2, <1>5, Zenon
    <2>2. CASE T = {}
      BY <2>1, <2>2, Zenon DEF First
    <2>3. CASE T # {}
      <3>1. I \in SUBSET (1 .. Len(q)) /\ I # {} /\ \A i \in I : q[i] \in PDR
        BY <1>3, <1>5, <2>1, <2>3, Zenon
      <3>2. Min(I) \in I
        <4>1. I \in SUBSET Nat
          BY <3>1
        <4> QED BY <3>1, <4>1, MinIsLeast
      <3>3. q[Min(I)] \in T /\ \A b \in T : \E i \in I : q[i] = b
        BY <1>2, <1>5, <3>2, Zenon
      <3>4. \A j \in I : Min(I) < j /\ q[j] \in T => ~Before(q[j], q[Min(I)])
        BY <1>1, <1>5, <3>2, Zenon
      <3>5. First(q, I) \in Best(T)
        BY <1>2, <3>1, <3>3, <3>4, FirstIsBest, Zenon
      <3> QED BY <2>1, <2>3, <3>5
    <2> QED BY <2>1, <2>2, <2>3
  <1> HIDE DEF M, fits
  <1>6. Permitting(S, pkt) \in SUBSET S /\ Fitting(S, pkt) \in SUBSET S
    BY Zenon DEF Permitting, Fitting
  <1>7. First(q, M) \in IF Permitting(S, pkt) # {} THEN Best(Permitting(S, pkt)) ELSE {None}
    BY <1>2, <1>5, <1>6, Zenon
  <1>8. /\ fits = {} <=> Fitting(S, pkt) = {}
        /\ First(q, fits) \in IF Fitting(S, pkt) # {} THEN Best(Fitting(S, pkt)) ELSE {None}
    BY <1>4, <1>5, <1>6, Zenon
  <1>9. selectUplinkBinding(q, pkt) = First(q, IF fits # {} THEN fits ELSE M)
    BY Zenon DEF selectUplinkBinding, fits, M
  <1>10. selectUplinkBinding(q, pkt) \in
                 IF Fitting(S, pkt) # {} THEN Best(Fitting(S, pkt))
                 ELSE IF Permitting(S, pkt) # {} THEN Best(Permitting(S, pkt)) ELSE {None}
    <2>1. CASE fits # {}
      BY <1>8, <1>9, <2>1
    <2>2. CASE fits = {}
      BY <1>7, <1>8, <1>9, <2>2
    <2> QED BY <2>1, <2>2, Zenon
  <1> QED BY <1>7, <1>10, Zenon DEF M

\* The search through the PDRs of all other tunnels, one tunnel after the
\* other: best of its tunnel.
LEMMA FallbackSelection ==
    ASSUME pdrs \in SUBSET PDRs, \A b \in pdrs : Readable(b), IsFiniteSet(pdrs),
           NEW pkt \in Packet, NEW q \in fallbackBindings(pkt.teid)
    PROVE  LET S       == {b \in pdrs : b.access /\ b.teid \notin {pkt.teid, None}}
               Of(k)   == {b \in S : b.teid = k}
               met     == selectUplinkBinding(q, pkt)
           IN  \/ met = None /\ Permitting(S, pkt) = {}
               \/ /\ Fitting(S, pkt) = {} /\ met \in Permitting(S, pkt)
                  /\ met \in Best(Permitting(Of(met.teid), pkt))
               \/ met \in Fitting(S, pkt) /\ met \in Best(Fitting(Of(met.teid), pkt))
  <1> DEFINE S     == {b \in pdrs : b.access /\ b.teid \notin {pkt.teid, None}}
             Of(k) == {b \in S : b.teid = k}
             met   == selectUplinkBinding(q, pkt)
             M     == Matching(q, pkt)
             fits  == {i \in M : Fits(q[i], pkt.src)}
  <1>1. S \in SUBSET PDRs /\ (\A b \in S : Readable(b)) /\ IsFiniteSet(S)
    <2>1. S \in SUBSET pdrs
      OBVIOUS
    <2> QED BY <2>1, FS_Subset
  <1>2. q \in SetToSeqs(S) /\ \A i, j \in 1 .. Len(q) : i < j /\ q[i].teid = q[j].teid =>
                                   ~Before(q[j], q[i])
    BY Zenon DEF fallbackBindings
  <1> HIDE DEF S
  <1>3. /\ Len(q) \in Nat /\ q \in [1 .. Len(q) -> S]
        /\ M = {i \in 1 .. Len(q) : q[i] \in Permitting(S, pkt)}
        /\ \A b \in S : \E i \in 1 .. Len(q) : q[i] = b
    BY <1>1, <1>2, MatchingIsPermitting, ZenonT(30)
  <1>4. \A i \in 1 .. Len(q) : q[i] \in PDR
    BY <1>1, <1>3, MatchAssumption
  <1>5. fits = {i \in 1 .. Len(q) : q[i] \in Fitting(S, pkt)}
    BY <1>3, Zenon DEF Fitting
  <1> HIDE DEF M, fits
  <1>6. ASSUME NEW T \in SUBSET S, T # {}, NEW I, I = {i \in 1 .. Len(q) : q[i] \in T}
        PROVE  /\ First(q, I) \in T
               /\ First(q, I) \in Best({b \in T : b.teid = First(q, I).teid})
    <2> DEFINE b == q[Min(I)]
               U == {x \in T : x.teid = b.teid}
               J == {i \in I : q[i] \in U}
    <2>1. I \in SUBSET (1 .. Len(q)) /\ I # {}
      BY <1>3, <1>6, Zenon
    <2>2. Min(I) \in I /\ \A j \in I : Min(I) <= j
      <3>1. I \in SUBSET Nat
        BY <2>1
      <3> QED BY <2>1, <3>1, MinIsLeast
    <2>3. b \in T /\ b \in U /\ First(q, I) = b
      BY <1>6, <2>1, <2>2, Zenon DEF First
    <2>4. Min(I) \in J /\ Min(J) = Min(I) /\ First(q, J) = b
      <3>1. Min(I) \in J
        BY <2>2, <2>3, Zenon
      <3>2. J \in SUBSET I
        OBVIOUS
      <3> HIDE DEF J
      <3>3. J \in SUBSET Nat /\ I \in SUBSET Nat
        BY <2>1, <3>2
      <3>4. Min(J) \in J /\ \A j \in J : Min(J) <= j
        BY <3>1, <3>3, MinIsLeast
      <3>5. Min(J) \in Nat /\ Min(I) \in Nat /\ Min(J) <= Min(I) /\ Min(I) <= Min(J)
        BY <2>2, <3>1, <3>2, <3>3, <3>4
      <3>6. Min(J) = Min(I)
        BY <3>5
      <3> QED BY <3>1, <3>6, Zenon DEF First
    <2>5. J \in SUBSET (1 .. Len(q)) /\ J # {} /\ \A i \in J : q[i] \in PDR
      BY <1>4, <2>1, <2>4, Zenon
    <2>6. \A c \in U : \E i \in J : q[i] = c
      BY <1>3, <1>6, Zenon
    <2>7. \A j \in J : Min(J) < j /\ q[j] \in U => ~Before(q[j], q[Min(J)])
      BY <1>2, <2>1, <2>4, <2>5, Zenon
    <2>8. q[Min(J)] \in U
      BY <2>3, <2>4, Zenon
    <2> HIDE DEF b, U, J
    <2>9. First(q, J) \in Best(U)
      BY <1>3, <2>5, <2>6, <2>7, <2>8, FirstIsBest, Zenon
    <2>10. U = {x \in T : x.teid = First(q, I).teid}
      BY <2>3, Zenon DEF U
    <2> QED BY <2>3, <2>4, <2>9, <2>10, Zenon
  <1>7. Permitting(S, pkt) \in SUBSET S /\ Fitting(S, pkt) \in SUBSET S
    BY Zenon DEF Permitting, Fitting
  <1>8. met = First(q, IF fits # {} THEN fits ELSE M)
    BY Zenon DEF selectUplinkBinding, fits, M
  <1>9. \A k : /\ {b \in Permitting(S, pkt) : b.teid = k} = Permitting(Of(k), pkt)
               /\ {b \in Fitting(S, pkt) : b.teid = k} = Fitting(Of(k), pkt)
    BY Zenon DEF Permitting, Fitting
  <1>10. (fits = {} <=> Fitting(S, pkt) = {}) /\ (M = {} <=> Permitting(S, pkt) = {})
    BY <1>3, <1>5, <1>7, Zenon
  <1> HIDE DEF met, Of
  <1>11. CASE fits # {}
    <2>1. met = First(q, fits)
      BY <1>8, <1>11
    <2>2. met \in Fitting(S, pkt) /\ met \in Best({b \in Fitting(S, pkt) : b.teid = met.teid})
      BY <1>5, <1>6, <1>7, <1>10, <1>11, <2>1, Zenon
    <2> QED BY <1>9, <2>2, Zenon DEF met, Of, S
  <1>12. CASE fits = {} /\ M # {}
    <2>1. met = First(q, M)
      BY <1>8, <1>12
    <2>2. met \in Permitting(S, pkt)
          /\ met \in Best({b \in Permitting(S, pkt) : b.teid = met.teid})
      <3>1. M = {i \in 1 .. Len(q) : q[i] \in Permitting(S, pkt)} /\ Permitting(S, pkt) # {}
        BY <1>3, <1>10, <1>12, Zenon
      <3> QED BY <1>6, <1>7, <2>1, <3>1, Zenon
    <2> QED BY <1>9, <1>10, <1>12, <2>2, Zenon DEF met, Of, S
  <1>13. CASE fits = {} /\ M = {}
    <2>1. met = None
      BY <1>8, <1>13 DEF First
    <2> QED BY <1>10, <1>13, <2>1, Zenon DEF met, S
  <1> QED BY <1>11, <1>12, <1>13

-----------------------------------------------------------------------------
(* The look-up                                                             *)

LEMMA DownlinkMeets ==
    ASSUME pdrs \in SUBSET PDRs, \A b \in pdrs : Readable(b), IsFiniteSet(pdrs),
           NEW pkt \in Packet, NEW met \in matchDownlink(pkt)
    PROVE  met \in DownlinkChoice(pkt)
  <1> DEFINE S == Downlink(pkt.dst)
  <1>1. S \in SUBSET PDRs /\ (\A b \in S : Readable(b)) /\ IsFiniteSet(S)
    <2>1. S \in SUBSET pdrs
      BY DEF Downlink
    <2> QED BY <2>1, FS_Subset
  <1>2. PICK q \in Sorted(S) : met = First(q, Matching(q, pkt))
    BY Zenon DEF matchDownlink
  <1>3. Permitting(S, pkt) = {b \in pdrs : ~b.access /\ b.ue = pkt.dst /\ Filters(b, pkt)}
    BY Zenon DEF Permitting, Downlink
  <1> HIDE DEF S
  <1>4. met \in IF Permitting(S, pkt) # {} THEN Best(Permitting(S, pkt)) ELSE {None}
    BY <1>1, <1>2, SortedSelection
  <1> QED BY <1>3, <1>4 DEF DownlinkChoice

LEMMA UplinkMeets ==
    ASSUME pdrs \in SUBSET PDRs, \A b \in pdrs : Readable(b), IsFiniteSet(pdrs),
           NEW pkt \in Packet, NEW met \in matchUplink(pkt)
    PROVE  met \in UplinkChoice(pkt)
  <1> DEFINE Of(k)   == {b \in pdrs : b.access /\ b.teid = k /\ Filters(b, pkt)}
             Fit(k)  == {b \in Of(k) : Fits(b, pkt.src)}
             others  == {k \in {b.teid : b \in pdrs} \ {pkt.teid, None} : Of(k) # {}}
             fitting == {k \in others : Fit(k) # {}}
             S       == Uplink(pkt.teid)
             T       == {b \in pdrs : b.access /\ b.teid \notin {pkt.teid, None}}
             own     == {selectUplinkBinding(q, pkt) : q \in Sorted(S)}
  <1>1. UplinkChoice(pkt) =
          CASE Fit(pkt.teid) # {} -> Best(Fit(pkt.teid))
            [] Fit(pkt.teid) = {} /\ Of(pkt.teid) # {} -> Best(Of(pkt.teid))
            [] Of(pkt.teid) = {} /\ fitting # {} -> UNION {Best(Fit(k)) : k \in fitting}
            [] Of(pkt.teid) = {} /\ fitting = {} /\ others # {} ->
                  UNION {Best(Of(k)) : k \in others}
            [] OTHER -> {None}
    BY Zenon DEF UplinkChoice
  <1>2. S \in SUBSET PDRs /\ (\A b \in S : Readable(b)) /\ IsFiniteSet(S)
    <2>1. S \in SUBSET pdrs
      BY DEF Uplink
    <2> QED BY <2>1, FS_Subset
  <1>3. Permitting(S, pkt) = Of(pkt.teid) /\ Fitting(S, pkt) = Fit(pkt.teid)
    BY Zenon DEF Permitting, Fitting, Uplink
  <1>4. Fit(pkt.teid) # {} => Of(pkt.teid) # {}
    BY Zenon
  <1>5. \A k \in {b.teid : b \in pdrs} \ {pkt.teid, None} :
           /\ Permitting({b \in T : b.teid = k}, pkt) = Of(k)
           /\ Fitting({b \in T : b.teid = k}, pkt) = Fit(k)
    BY Zenon DEF Permitting, Fitting
  <1>6. matchUplink(pkt) = IF own # {None} THEN own
                           ELSE {selectUplinkBinding(q, pkt) : q \in fallbackBindings(pkt.teid)}
    BY Zenon DEF matchUplink
  <1>7. \A q \in Sorted(S) : selectUplinkBinding(q, pkt) \in
           IF Fit(pkt.teid) # {} THEN Best(Fit(pkt.teid))
           ELSE IF Of(pkt.teid) # {} THEN Best(Of(pkt.teid)) ELSE {None}
    <2> TAKE q \in Sorted(S)
    <2>1. selectUplinkBinding(q, pkt) \in
                 IF Fitting(S, pkt) # {} THEN Best(Fitting(S, pkt))
                 ELSE IF Permitting(S, pkt) # {} THEN Best(Permitting(S, pkt)) ELSE {None}
      <3> HIDE DEF S
      <3> QED BY <1>2, SortedSelection, Zenon
    <2> HIDE DEF S
    <2> QED BY <1>3, <2>1, Zenon
  <1>8. ASSUME NEW b \in T
        PROVE  /\ Permitting({b}, pkt) # {} => b.teid \in others
               /\ Fitting({b}, pkt) # {} => b.teid \in fitting
    BY Zenon DEF Permitting, Fitting
  <1>9. None \notin Best(Fit(pkt.teid)) /\ None \notin Best(Of(pkt.teid))
    BY MatchAssumption DEF Best
  <1> HIDE DEF S, T, others, fitting, Of, Fit, own
  <1>10. CASE Of(pkt.teid) # {}
    <2>1. \A x \in own : x \in IF Fit(pkt.teid) # {} THEN Best(Fit(pkt.teid))
                                ELSE Best(Of(pkt.teid))
      BY <1>7, <1>10 DEF own
    <2>2. own # {None}
      BY <1>9, <2>1
    <2>3. met \in own
      BY <1>6, <2>2
    <2> QED BY <1>1, <1>10, <2>1, <2>3
  <1>11. CASE Of(pkt.teid) = {}
    <2>1. \A x \in own : x = None
      BY <1>4, <1>7, <1>11 DEF own
    <2>2. PICK q \in fallbackBindings(pkt.teid) : met = selectUplinkBinding(q, pkt)
      BY <1>6, <2>1
    <2>3. \/ met = None /\ Permitting(T, pkt) = {}
          \/ /\ Fitting(T, pkt) = {} /\ met \in Permitting(T, pkt)
             /\ met \in Best(Permitting({b \in T : b.teid = met.teid}, pkt))
          \/ met \in Fitting(T, pkt) /\ met \in Best(Fitting({b \in T : b.teid = met.teid}, pkt))
      BY <2>2, FallbackSelection, Zenon DEF T
    <2>4. (others = {} <=> Permitting(T, pkt) = {}) /\ (fitting = {} <=> Fitting(T, pkt) = {})
      BY Zenon DEF others, fitting, Of, Fit, Permitting, Fitting, T
    <2>5. /\ met \in Permitting(T, pkt) => met \in T /\ met.teid \in others
          /\ met \in Fitting(T, pkt) => met \in T /\ met.teid \in fitting
      BY <1>8, Zenon DEF Permitting, Fitting
    <2>6. \A k \in others : k \in {b.teid : b \in pdrs} \ {pkt.teid, None}
      BY DEF others
    <2>7. \A k \in fitting : k \in others
      BY DEF fitting
    <2>8. Fit(pkt.teid) = {}
      BY <1>4, <1>11
    <2>9. CASE met = None /\ Permitting(T, pkt) = {}
      <3>1. others = {} /\ fitting = {}
        BY <2>4, <2>7, <2>9
      <3> QED BY <1>1, <1>11, <2>8, <2>9, <3>1
    <2>10. CASE /\ Fitting(T, pkt) = {} /\ met \in Permitting(T, pkt)
                /\ met \in Best(Permitting({b \in T : b.teid = met.teid}, pkt))
      <3>1. met.teid \in others /\ fitting = {} /\ met \in Best(Of(met.teid))
        BY <1>5, <2>4, <2>5, <2>6, <2>10, Zenon
      <3>2. UplinkChoice(pkt) = UNION {Best(Of(k)) : k \in others}
        BY <1>1, <1>11, <2>8, <3>1
      <3> QED BY <3>1, <3>2, Zenon
    <2>11. CASE met \in Fitting(T, pkt) /\ met \in Best(Fitting({b \in T : b.teid = met.teid}, pkt))
      <3>1. met.teid \in fitting /\ met \in Best(Fit(met.teid))
        BY <1>5, <2>5, <2>6, <2>7, <2>11, Zenon
      <3>2. UplinkChoice(pkt) = UNION {Best(Fit(k)) : k \in fitting}
        BY <1>1, <1>11, <2>8, <3>1
      <3> QED BY <3>1, <3>2, Zenon
    <2> QED BY <2>3, <2>9, <2>10, <2>11, Zenon
  <1> QED BY <1>10, <1>11

-----------------------------------------------------------------------------
(* What the gtp5g driver makes of the text                                 *)

KernelRule(r) ==
    [dir    |-> r.dir,
     proto  |-> IF r.proto = "ip" THEN AnyProto ELSE NumberOf[r.proto],
     src    |-> Addrs(r.from),
     dst    |-> Addrs(r.to),
     sports |-> Ports(r.from),
     dports |-> Ports(r.to)]

\* the ports of an end with at most one port field
LEMMA OnePortField ==
    ASSUME NEW e \in Endpoint, Len(e.ports) <= 1
    PROVE  /\ Len(e.ports) = 0 => Ports(e) = {} /\ "any" \notin Range(e.ports)
           /\ Len(e.ports) = 1 => /\ Ports(e) = ParseFlowDescPorts(e.ports[1])
                                  /\ "any" \in Range(e.ports) <=> e.ports[1] \notin DOMAIN PortsOf
  <1>1. e.ports \in Seq(Words) /\ Len(e.ports) \in Nat
        /\ \A i \in 1 .. Len(e.ports) : e.ports[i] \in {"any"} \cup DOMAIN PortsOf
    BY EndpointWords
  <1>2. Range(e.ports) = {e.ports[i] : i \in 1 .. Len(e.ports)}
    BY <1>1 DEF Range
  <1>3. "any" \notin DOMAIN PortsOf
    BY FieldAssumption, Zenon
  <1>4. ASSUME Len(e.ports) = 0 PROVE Ports(e) = {} /\ "any" \notin Range(e.ports)
    <2>1. Range(e.ports) = {}
      BY <1>2, <1>4
    <2> QED BY <2>1 DEF Ports
  <1>5. ASSUME Len(e.ports) = 1
        PROVE  /\ Ports(e) = ParseFlowDescPorts(e.ports[1])
               /\ "any" \in Range(e.ports) <=> e.ports[1] \notin DOMAIN PortsOf
    <2> DEFINE t == e.ports[1]
    <2>1. Range(e.ports) = {t} /\ t \in {"any"} \cup DOMAIN PortsOf
      BY <1>1, <1>2, <1>5
    <2> HIDE DEF t
    <2>2. CASE t = "any"
      <3>1. Ports(e) = {}
        BY <2>1, <2>2 DEF Ports
      <3> QED BY <1>3, <2>1, <2>2, <3>1, Zenon DEF ParseFlowDescPorts, t
    <2>3. CASE t \in DOMAIN PortsOf
      <3>1. t # "any"
        BY <1>3, <2>3
      <3>2. Ports(e) = PortsOf[t]
        BY <2>1, <3>1 DEF Ports
      <3> QED BY <2>1, <2>3, <3>1, <3>2, Zenon DEF ParseFlowDescPorts, t
    <2> QED BY <2>1, <2>2, <2>3
  <1> QED BY <1>4, <1>5

LEMMA AddressNet ==
    ASSUME NEW e \in Endpoint
    PROVE  IsAddress(e.addr) /\ ParseFlowDescIPNet(e.addr) = Addrs(e)
  BY EndpointWords, Zenon DEF IsAddress, ParseFlowDescIPNet, Addrs

LEMMA KernelRuleType ==
    ASSUME NEW r \in Rule, r.dir \in Directions, r.proto \in {"ip"} \cup DOMAIN NumberOf
    PROVE  KernelRule(r) \in FlowDesc /\ KernelRule(r) # None
  <1>1. r.from \in Endpoint /\ r.to \in Endpoint
    BY DEF Rule
  <1>2. Ports(r.from) \in PortLists /\ Ports(r.to) \in PortLists
    BY <1>1, ParsesPorts
  <1>3. Addrs(r.from) \in Networks \cup {Addresses} /\ Addrs(r.to) \in Networks \cup {Addresses}
    BY Zenon DEF Addrs, Networks
  <1>4. (IF r.proto = "ip" THEN AnyProto ELSE NumberOf[r.proto]) \in Protocols
    <2>1. CASE r.proto = "ip"
      BY <2>1 DEF AnyProto, Protocols
    <2>2. CASE r.proto # "ip"
      BY <2>2, FieldAssumption, Zenon
    <2> QED BY <2>1, <2>2
  <1>5. KernelRule(r) \in FlowDesc
    BY <1>1, <1>2, <1>3, <1>4 DEF KernelRule, FlowDesc
  <1>6. None \notin FlowDesc
    BY FieldAssumption, Zenon
  <1> QED BY <1>5, <1>6, Zenon

\* The parser of the gtp5g driver reads the rules with at most one port field
\* on each side, except other directions than in and out, protocols by name and
\* the word any for the ports of the source (ParseFlowDesc, flowdesc.go:34).
THEOREM Gtp5gReadsGrammar ==
    ASSUME NEW r \in Rule, Len(r.from.ports) <= 1, Len(r.to.ports) <= 1
    PROVE  ParseFlowDesc(Text(r)) =
             IF /\ r.dir \in Directions /\ r.proto \in {"ip"} \cup DOMAIN NumberOf
                /\ "any" \notin Range(r.from.ports)
             THEN KernelRule(r) ELSE None
  <1> DEFINE d == Text(r)
             m == Len(r.from.ports)
             n == Len(r.to.ports)
             known == r.dir \in Directions /\ r.proto \in {"ip"} \cup DOMAIN NumberOf
             to == IF d[6] \in DOMAIN PortsOf THEN 7 ELSE 6
             fd == [dir    |-> d[2],
                    proto  |-> IF d[3] = "ip" THEN AnyProto ELSE NumberOf[d[3]],
                    src    |-> ParseFlowDescIPNet(d[5]),
                    dst    |-> ParseFlowDescIPNet(d[to + 1]),
                    sports |-> ParseFlowDescPorts(d[6]),
                    dports |-> IF Len(d) > to + 1 THEN ParseFlowDescPorts(d[to + 2]) ELSE {}]
  <1>1. r.from \in Endpoint /\ r.to \in Endpoint
    BY DEF Rule
  <1>2. /\ Len(d) = 7 + m + n /\ m \in Nat /\ n \in Nat
        /\ d[1] = "permit" /\ d[2] = r.dir /\ d[3] = r.proto /\ d[4] = "from"
        /\ d[5] = r.from.addr
        /\ \A i \in 1 .. m : d[5 + i] = r.from.ports[i]
        /\ d[6 + m] = "to" /\ d[7 + m] = r.to.addr
        /\ \A i \in 1 .. n : d[7 + m + i] = r.to.ports[i]
    BY TextFields, Zenon
  <1>3. m \in {0, 1} /\ n \in {0, 1}
    <2>1. m \in Nat /\ n \in Nat /\ m <= 1 /\ n <= 1
      BY <1>2, Zenon
    <2> HIDE DEF m, n
    <2> QED BY <2>1
  <1>4. "to" \notin DOMAIN PortsOf /\ "any" \notin DOMAIN PortsOf
    BY FieldAssumption, Zenon
  <1>5. IsAddress(r.from.addr) /\ IsAddress(r.to.addr)
        /\ ParseFlowDescIPNet(r.from.addr) = Addrs(r.from)
        /\ ParseFlowDescIPNet(r.to.addr) = Addrs(r.to)
    BY <1>1, AddressNet
  <1>6. /\ m = 0 => Ports(r.from) = {} /\ "any" \notin Range(r.from.ports)
        /\ m = 1 => /\ Ports(r.from) = ParseFlowDescPorts(r.from.ports[1])
                    /\ "any" \in Range(r.from.ports) <=> r.from.ports[1] \notin DOMAIN PortsOf
                    /\ r.from.ports[1] # "to"
        /\ n = 0 => Ports(r.to) = {}
        /\ n = 1 => Ports(r.to) = ParseFlowDescPorts(r.to.ports[1])
    <2>1. m = 1 => r.from.ports[1] # "to"
      BY <1>1, EndpointWords
    <2> QED BY <1>1, <2>1, OnePortField
  <1>7. ParseFlowDesc(d) =
          IF ~ /\ Len(d) >= 6
               /\ d[1] = "permit" /\ d[2] \in {"in", "out"}
               /\ d[3] \in {"ip"} \cup DOMAIN NumberOf
               /\ d[4] = "from" /\ IsAddress(d[5])
          THEN None
          ELSE IF ~ (Len(d) >= to + 1 /\ d[to] = "to" /\ IsAddress(d[to + 1]))
               THEN None ELSE fd
    BY Zenon DEF ParseFlowDesc
  <1>8. KernelRule(r) =
          [dir    |-> r.dir,
           proto  |-> IF r.proto = "ip" THEN AnyProto ELSE NumberOf[r.proto],
           src    |-> Addrs(r.from),
           dst    |-> Addrs(r.to),
           sports |-> Ports(r.from),
           dports |-> Ports(r.to)]
    BY DEF KernelRule
  <1> HIDE DEF d, m, n
  <1>9. Len(d) >= 6
    BY <1>2
  <1>10. ParseFlowDesc(d) =
           IF known /\ Len(d) >= to + 1 /\ d[to] = "to" /\ IsAddress(d[to + 1])
           THEN fd ELSE None
    <2> HIDE DEF to, fd
    <2> QED BY <1>1, <1>2, <1>5, <1>7, <1>9, Zenon DEF Directions
  <1>11. CASE m = 1 /\ "any" \in Range(r.from.ports)
    <2>1. d[6] = r.from.ports[1]
      BY <1>2, <1>11
    <2>2. to = 6 /\ d[to] # "to"
      BY <1>6, <1>11, <2>1
    <2> HIDE DEF to, fd, known
    <2> QED BY <1>10, <1>11, <2>2, Zenon DEF d, known
  <1>12. CASE "any" \notin Range(r.from.ports)
    <2>1. to = 6 + m
      <3>1. CASE m = 0
        <4>1. d[6] = "to"
          BY <1>2, <3>1
        <4> QED BY <1>4, <3>1, <4>1
      <3>2. CASE m = 1
        <4>1. d[6] = r.from.ports[1] /\ r.from.ports[1] \in DOMAIN PortsOf
          BY <1>2, <1>6, <1>12, <3>2
        <4> QED BY <3>2, <4>1
      <3> QED BY <1>3, <3>1, <3>2
    <2>2. ParseFlowDescPorts(d[6]) = Ports(r.from)
      <3>1. CASE m = 0
        <4>1. d[6] = "to"
          BY <1>2, <3>1
        <4> QED BY <1>4, <1>6, <3>1, <4>1 DEF ParseFlowDescPorts
      <3>2. CASE m = 1
        <4>1. d[6] = r.from.ports[1]
          BY <1>2, <3>2
        <4> QED BY <1>6, <3>2, <4>1
      <3> QED BY <1>3, <3>1, <3>2
    <2> HIDE DEF to
    <2>3. Len(d) >= to + 1 /\ d[to] = "to" /\ d[to + 1] = r.to.addr
      BY <1>2, <2>1
    <2>4. (IF Len(d) > to + 1 THEN ParseFlowDescPorts(d[to + 2]) ELSE {}) = Ports(r.to)
      <3>1. CASE n = 0
        <4>1. ~(Len(d) > to + 1)
          BY <1>2, <2>1, <3>1
        <4> QED BY <1>6, <3>1, <4>1, Zenon
      <3>2. CASE n = 1
        <4>1. Len(d) > to + 1 /\ d[to + 2] = r.to.ports[1]
          BY <1>2, <2>1, <3>2
        <4> QED BY <1>6, <3>2, <4>1, Zenon
      <3> QED BY <1>3, <3>1, <3>2
    <2>5. fd = KernelRule(r)
      BY <1>2, <1>5, <1>8, <2>2, <2>3, <2>4, ZenonT(30)
    <2> HIDE DEF fd, known
    <2> QED BY <1>5, <1>10, <1>12, <2>3, <2>5, Zenon DEF d, known
  <1> QED BY <1>3, <1>6, <1>11, <1>12

\* the two filters of a rule, seen by a UE's own packet
LEMMA RuleAgrees ==
    ASSUME NEW r \in Rule, StandardForm(r), ParseFlowDesc(Text(r)) # None,
           NEW pkt \in Packet, HasPorts(pkt), pkt.src # pkt.dst,
           NEW ue, ue = IF pkt.uplink THEN pkt.src ELSE pkt.dst
    PROVE  FilterMatches(newFlowDesc(Text(r), pkt.uplink), pkt) <=> Means(r, ue, pkt)
  <1> DEFINE k    == KernelRule(r)
             fd   == newFlowDesc(Text(r), pkt.uplink)
             back == Reversed(pkt)
             In(P, port) == P = {} \/ \E x \in P : port \in x[1] .. x[2]
  <1>1. r.from \in Endpoint /\ r.to \in Endpoint /\ Len(r.from.ports) <= 1 /\ Len(r.to.ports) <= 1
        /\ r.dir \in Directions /\ r.to.addr = "assigned" /\ r.from.addr # "assigned"
        /\ (r.proto \in DOMAIN NumberOf => NumberOf[r.proto] # AnyProto)
    BY DEF Rule, StandardForm, Directions
  <1>2. ParseFlowDesc(Text(r)) = k /\ k # None /\ r.proto \in {"ip"} \cup DOMAIN NumberOf
    BY <1>1, Gtp5gReadsGrammar, KernelRuleType, Zenon
  <1>3. pkt.src \in Addresses /\ pkt.dst \in Addresses /\ pkt.proto \in Protocols
        /\ pkt.uplink \in BOOLEAN
    BY DEF Packet
  <1>4. fd = IF pkt.uplink
             THEN [k EXCEPT !.src = k.dst, !.dst = k.src, !.sports = k.dports, !.dports = k.sports]
             ELSE k
    BY <1>2, <1>3, Zenon DEF newFlowDesc
  <1>5. "assigned" \notin DOMAIN NetOf
    BY FieldAssumption, Zenon
  <1>6. Addrs(r.to) = Addresses
    BY <1>1, <1>5 DEF Addrs
  <1>7. /\ k.proto = IF r.proto = "ip" THEN AnyProto ELSE NumberOf[r.proto]
        /\ k.src = Addrs(r.from) /\ k.dst = Addrs(r.to)
        /\ k.sports = Ports(r.from) /\ k.dports = Ports(r.to)
    BY DEF KernelRule
  <1>8. /\ fd.proto = k.proto
        /\ fd.src = IF pkt.uplink THEN k.dst ELSE k.src
        /\ fd.dst = IF pkt.uplink THEN k.src ELSE k.dst
        /\ fd.sports = IF pkt.uplink THEN k.dports ELSE k.sports
        /\ fd.dports = IF pkt.uplink THEN k.sports ELSE k.dports
    <2>1. k \in [dir : {r.dir}, proto : {k.proto}, src : {k.src}, dst : {k.dst},
                 sports : {k.sports}, dports : {k.dports}]
      BY DEF KernelRule
    <2> HIDE DEF k, fd
    <2>2. CASE pkt.uplink
      BY <1>4, <2>1, <2>2
    <2>3. CASE ~pkt.uplink
      BY <1>4, <2>3
    <2> QED BY <2>2, <2>3
  <1>9. k.proto \in {AnyProto, pkt.proto} <=> pkt.proto \in Protos(r.proto)
    <2>1. CASE r.proto = "ip"
      <3>1. Protos(r.proto) = Protocols
        BY <2>1 DEF Protos
      <3> QED BY <1>3, <1>7, <2>1, <3>1, Zenon
    <2>2. CASE r.proto # "ip"
      <3>1. r.proto \in DOMAIN NumberOf
        BY <1>2, <2>2
      <3>2. r.proto \notin ProtoNames
        BY <3>1, FieldAssumption, Zenon
      <3>3. Protos(r.proto) = {NumberOf[r.proto]}
        BY <3>1, <3>2, OtherProtos DEF ProtoNames
      <3>4. k.proto = NumberOf[r.proto]
        BY <1>7, <2>2, Zenon
      <3> QED BY <1>1, <3>1, <3>3, <3>4, Zenon
    <2> QED BY <2>1, <2>2
  <1> HIDE DEF k, fd
  <1>10. FilterMatches(fd, pkt) <=>
           /\ pkt.proto \in Protos(r.proto)
           /\ (IF pkt.uplink THEN pkt.dst ELSE pkt.src) \in Addrs(r.from)
           /\ In(Ports(r.from), IF pkt.uplink THEN pkt.dport ELSE pkt.sport)
           /\ In(Ports(r.to), IF pkt.uplink THEN pkt.sport ELSE pkt.dport)
    <2>1. FilterMatches(fd, pkt) <=>
            /\ pkt.proto \in Protos(r.proto) /\ pkt.src \in fd.src /\ pkt.dst \in fd.dst
            /\ In(fd.sports, pkt.sport) /\ In(fd.dports, pkt.dport)
      BY <1>8, <1>9, Zenon DEF FilterMatches
    <2> HIDE DEF In
    <2>2. CASE pkt.uplink
      BY <1>3, <1>6, <1>7, <1>8, <2>1, <2>2
    <2>3. CASE ~pkt.uplink
      BY <1>3, <1>6, <1>7, <1>8, <2>1, <2>3
    <2> QED BY <2>2, <2>3
  <1>11. Means(r, ue, pkt) <=> (Permits(r, ue, pkt) \/ (pkt.uplink /\ Permits(r, ue, back)))
    <2> DEFINE p == [pkt EXCEPT !.src = pkt.dst, !.dst = pkt.src, !.sport = pkt.dport,
                                !.dport = pkt.sport]
    <2>1. Means(r, ue, pkt) <=> (Permits(r, ue, pkt) \/ (pkt.uplink /\ Permits(r, ue, p)))
      BY <1>1, Zenon DEF Means
    <2>2. back = p
      BY DEF Reversed
    <2> HIDE DEF p, back
    <2> QED BY <2>1, <2>2
  <1>12. ASSUME NEW p, HasPorts(p)
         PROVE  Permits(r, ue, p) <=>
                  /\ p.proto \in Protos(r.proto)
                  /\ p.src \in Addrs(r.from) /\ p.dst = ue
                  /\ In(Ports(r.from), p.sport) /\ In(Ports(r.to), p.dport)
    BY <1>1, <1>12, Zenon DEF Permits, From
  <1>13. HasPorts(back) /\ back.proto = pkt.proto /\ back.src = pkt.dst /\ back.dst = pkt.src
         /\ back.sport = pkt.dport /\ back.dport = pkt.sport
    BY ReversedFields
  <1> HIDE DEF In, back
  <1>14. CASE pkt.uplink
    <2>1. ~Permits(r, ue, pkt)
      BY <1>12, <1>14
    <2>2. Permits(r, ue, back) <=>
            /\ pkt.proto \in Protos(r.proto) /\ pkt.dst \in Addrs(r.from)
            /\ In(Ports(r.from), pkt.dport) /\ In(Ports(r.to), pkt.sport)
      BY <1>12, <1>13, <1>14
    <2> QED BY <1>10, <1>11, <1>14, <2>1, <2>2 DEF fd
  <1>15. CASE ~pkt.uplink
    <2>1. Permits(r, ue, pkt) <=>
            /\ pkt.proto \in Protos(r.proto) /\ pkt.src \in Addrs(r.from)
            /\ In(Ports(r.from), pkt.sport) /\ In(Ports(r.to), pkt.dport)
      BY <1>12, <1>15
    <2> QED BY <1>10, <1>11, <1>15, <2>1 DEF fd
  <1> QED BY <1>14, <1>15

LEMMA PDRAgrees ==
    ASSUME NEW b \in PDRs, NEW pkt \in Packet, HasPorts(pkt), pkt.src # pkt.dst,
           b.access = pkt.uplink, b.ue = (IF pkt.uplink THEN pkt.src ELSE pkt.dst),
           \A d \in Range(b.sdf) :
              ParseFlowDesc(d) # None /\ \E r \in Rules : d = Text(r) /\ StandardForm(r)
    PROVE  KernelMatches(b, pkt) <=> matchSDF(b, pkt)
  <1>1. b.ue \in Addresses \cup {None} /\ Rules \subseteq Rule /\ b.sdf \in Seq(Seq(STRING))
    BY MatchAssumption DEF PDR
  <1>2. ASSUME NEW d \in Range(b.sdf)
        PROVE  FilterMatches(newSdfFilter(d, b.access), pkt)
                 <=> ruleMatches(parseFlowDescription(d), b.ue, pkt)
    <2>1. PICK r \in Rules : d = Text(r) /\ StandardForm(r)
      OBVIOUS
    <2>2. r \in Rule
      BY <1>1
    <2>3. FilterMatches(newFlowDesc(d, pkt.uplink), pkt) <=> Means(r, b.ue, pkt)
      BY <2>1, <2>2, RuleAgrees
    <2>4. ruleMatches(parseFlowDescription(d), b.ue, pkt) <=> Means(r, b.ue, pkt)
      BY <1>1, <2>1, <2>2, UserspaceReadsGrammar, RuleMeaning
    <2> QED BY <2>3, <2>4, Zenon DEF newSdfFilter
  <1>3. Range(b.sdf) = {} <=> b.sdf = <<>>
    <2>1. Range(b.sdf) = {b.sdf[i] : i \in 1 .. Len(b.sdf)} /\ Len(b.sdf) \in Nat
      BY <1>1 DEF Range
    <2>2. b.sdf = <<>> <=> Len(b.sdf) = 0
      BY <1>1
    <2>3. Len(b.sdf) # 0 => 1 \in 1 .. Len(b.sdf)
      BY <2>1
    <2>4. Len(b.sdf) = 0 => 1 .. Len(b.sdf) = {}
      OBVIOUS
    <2> QED BY <2>1, <2>2, <2>3, <2>4, Zenon
  <1>4. newPdi(b) = {} <=> Range(b.sdf) = {}
    BY Zenon DEF newPdi
  <1>5. (\E fd \in newPdi(b) : FilterMatches(fd, pkt))
          <=> \E d \in Range(b.sdf) : FilterMatches(newSdfFilter(d, b.access), pkt)
    BY Zenon DEF newPdi
  <1> QED BY <1>2, <1>3, <1>4, <1>5, Zenon DEF KernelMatches, matchSDF

-----------------------------------------------------------------------------
(* The theorems                                                            *)

\* what requests keep true of the PDRs, and the packet of the last look-up
TypeInv ==
    /\ pdrs \in SUBSET PDRs /\ IsFiniteSet(pdrs)
    /\ \A b \in pdrs : Readable(b)
    /\ look # None => look.pkt \in Packets

LEMMA TypeInvInductive == Spec => []TypeInv
  <1>1. Init => TypeInv
    BY FS_EmptySet DEF Init, TypeInv
  <1>2. TypeInv /\ [Next]_vars => TypeInv'
    <2> SUFFICES ASSUME TypeInv, [Next]_vars PROVE TypeInv'
      OBVIOUS
    <2> USE DEF TypeInv
    <2>1. ASSUME NEW b \in PDRs, PutPDR(b) PROVE TypeInv'
      <3> DEFINE kept == {x \in pdrs : <<x.seid, x.id>> # <<b.seid, b.id>>}
      <3>1. pdrs' = kept \cup {b} /\ look' = None /\ Readable(b)
        BY <2>1, Zenon DEF PutPDR, Readable
      <3>2. kept \in SUBSET pdrs
        OBVIOUS
      <3> HIDE DEF kept
      <3>3. IsFiniteSet(pdrs')
        BY <3>1, <3>2, FS_Subset, FS_AddElement
      <3>4. \A x \in pdrs' : x \in PDRs /\ Readable(x)
        BY <3>1, <3>2
      <3> QED BY <3>1, <3>3, <3>4
    <2>2. ASSUME NEW b \in PDRs, RemovePDR(b) PROVE TypeInv'
      BY <2>2, FS_RemoveElement DEF RemovePDR
    <2>3. ASSUME NEW pkt \in Packets, Process(pkt) PROVE TypeInv'
      <3>1. pdrs' = pdrs /\ \E x : look' = [pkt |-> pkt, met |-> x]
        BY <2>3, Zenon DEF Process
      <3> QED BY <3>1
    <2>4. CASE UNCHANGED vars
      BY <2>4 DEF vars
    <2> QED BY <2>1, <2>2, <2>3, <2>4 DEF Next
  <1> QED BY <1>1, <1>2, PTL DEF Spec

\* Whatever the PDRs, their precedences and filters, the packets and the map
\* orders: the look-up of the userspace driver (matchUplink, matchDownlink,
\* runtime.go) meets the PDR the reference chooses.
THEOREM LookupMeetsReference == Spec => []MeetsReference
  <1>1. Init => MeetsReference
    BY Zenon DEF Init, MeetsReference
  <1>2. TypeInv /\ MeetsReference /\ [Next]_vars => MeetsReference'
    <2> SUFFICES ASSUME TypeInv, MeetsReference, [Next]_vars PROVE MeetsReference'
      OBVIOUS
    <2>1. ASSUME NEW b \in PDRs, PutPDR(b) \/ RemovePDR(b) PROVE MeetsReference'
      BY <2>1, Zenon DEF PutPDR, RemovePDR, MeetsReference
    <2>2. ASSUME NEW pkt \in Packets, Process(pkt) PROVE MeetsReference'
      <3>1. pkt \in Packet /\ pkt.uplink \in BOOLEAN
        BY MatchAssumption DEF Packet
      <3>2. pdrs' = pdrs
        BY <2>2 DEF Process
      <3>3. PICK met : /\ met \in IF pkt.uplink THEN matchUplink(pkt) ELSE matchDownlink(pkt)
                       /\ look' = [pkt |-> pkt, met |-> met]
        BY <2>2, Zenon DEF Process
      <3>4. met \in IF pkt.uplink THEN UplinkChoice(pkt) ELSE DownlinkChoice(pkt)
        <4>1. CASE pkt.uplink
          BY <3>1, <3>3, <4>1, UplinkMeets DEF TypeInv
        <4>2. CASE ~pkt.uplink
          BY <3>1, <3>3, <4>2, DownlinkMeets DEF TypeInv
        <4> QED BY <4>1, <4>2
      <3>5. look'.pkt = pkt /\ look'.met = met
        BY <3>3
      <3>6. UplinkChoice(pkt)' = UplinkChoice(pkt) /\ DownlinkChoice(pkt)' = DownlinkChoice(pkt)
        BY <3>2 DEF UplinkChoice, DownlinkChoice
      <3> QED BY <3>4, <3>5, <3>6 DEF MeetsReference
    <2>3. CASE UNCHANGED vars
      <3>1. pdrs' = pdrs /\ look' = look
        BY <2>3 DEF vars
      <3>2. ASSUME NEW p
            PROVE  UplinkChoice(p)' = UplinkChoice(p) /\ DownlinkChoice(p)' = DownlinkChoice(p)
        BY <3>1 DEF UplinkChoice, DownlinkChoice
      <3> QED BY <3>1, <3>2 DEF MeetsReference
    <2> QED BY <2>1, <2>2, <2>3 DEF Next
  <1> QED BY <1>1, <1>2, TypeInvInductive, PTL DEF Spec

\* For every PDR and every TCP or UDP packet of its UE: both drivers' filters agree on
\* descriptions of the standard form (newFlowDesc, gtp5g.go; ruleMatches,
\* sdf.go).
THEOREM FiltersAgree == Spec => []DriversAgree
  <1>1. TypeInv => DriversAgree
    <2> SUFFICES ASSUME TypeInv, look # None, NEW b \in pdrs,
                        /\ b.access = look.pkt.uplink
                        /\ b.ue = (IF look.pkt.uplink THEN look.pkt.src ELSE look.pkt.dst)
                        /\ look.pkt.src # look.pkt.dst
                        /\ HasPorts(look.pkt)
                        /\ \A d \in Range(b.sdf) :
                              /\ ParseFlowDesc(d) # None
                              /\ \E r \in Rules : d = Text(r) /\ StandardForm(r)
                 PROVE  KernelMatches(b, look.pkt) <=> matchSDF(b, look.pkt)
      BY Zenon DEF DriversAgree
    <2>1. b \in PDRs /\ look.pkt \in Packet
      BY MatchAssumption DEF TypeInv
    <2> QED BY <2>1, PDRAgrees
  <1> QED BY <1>1, TypeInvInductive, PTL
=============================================================================
